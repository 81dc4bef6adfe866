------------------------- MODULE SchedulerTaskProofs -------------------------
(***************************************************************************)
(* Proofs about the scheduler's tasks, for any number of tasks, iterations *)
(* and faults: what is on a list, what a removal leaves behind, what a     *)
(* client is shown and which iterations run side by side.                  *)
(*                                                                         *)
(* None of the properties is inductive alone.  A list comes back from the  *)
(* file after a crash, an entry comes back from the handler that took it   *)
(* off, and both may be older than the iterations: so what holds of a task *)
(* on the list must hold of every copy of it, in the channel, in the file, *)
(* on the disk and in the handler.                                         *)
(***************************************************************************)
EXTENDS SchedulerProofs, SequenceTheorems, NaturalsInduction, WellFoundedInduction

\* Everything the writer of the resources holds.
Snapshots ==
  {file} \cup disk \cup {chan[i].snapshot : i \in DOMAIN chan} \cup ({waiting} \ {Nothing})

UnusedIn(k) == {n \in Iterations : k[n].status = "unused"}

\* A copy of a task, however old: it counts iterations that have been used, and
\* without a pending reset its anchor was made with its prompt.
EntryOK(e, k, u) ==
  /\ e \in Entry /\ e.id \in u
  /\ \A n \in UnusedIn(k) : e.iters < n /\ e.anchor < n
  /\ e.anchor # None /\ ~e.reset => k[e.anchor].prompt = e.prompt

Distinct(l) == \A i, j \in DOMAIN l : l[i].id = l[j].id => i = j

ListOK(l, k, u) ==
  /\ l \in Seq(Entry) /\ Len(l) <= MAX_SCHEDULED_TASKS /\ Distinct(l)
  /\ \A i \in DOMAIN l : EntryOK(l[i], k, u)

Message == [command : {"Save", "SaveAndFlush"}, snapshot : Seq(Entry), heard : BOOLEAN]

ListInv ==
  /\ chan \in Seq(Message)
  /\ file \in disk
  /\ ListOK(tasks, kids, used)
  /\ \A l \in Snapshots : ListOK(l, kids, used)

\* What a handler carries from one await to the next.
JobInv ==
  /\ job.at \in Removing \cup Firing => EntryOK(job.entry, kids, used)
  /\ job.at \in Removing => job.entry.id \notin Ids(tasks)
  /\ job.at \in Removing /\ job.why = "expiry" =>
       /\ Len(tasks) < MAX_SCHEDULED_TASKS /\ job.index \in 1..(Len(tasks) + 1)
       /\ job.entry.id \notin deleted
  /\ job.at \in Firing =>
       /\ UnusedIn(kids) # {} /\ job.entry.id \in Ids(tasks)
       /\ \A i \in DOMAIN tasks : tasks[i].id = job.entry.id => tasks[i].prompt = job.entry.prompt
  /\ job.at \in {"query", "unit"} => job.entry.anchor # None
  /\ pending # NoRemoval => pending.id \in used /\ pending.id \notin Ids(tasks)

PlainInv ==
  /\ due \subseteq Tasks /\ overage \subseteq Recurring /\ blocked \subseteq Tasks
  /\ clock \in {0, 1} \X (0..MaxRevision)
  /\ log \in logDisk /\ logDisk \subseteq SUBSET Tasks
  /\ used \subseteq Tasks /\ deleted \subseteq used

TaskInv == ListInv /\ JobInv /\ PlainInv

\* Nothing that can be brought back names t.
NotKept(t) == \A l \in Snapshots : t \notin Ids(l)

\* Where the flush of a removal stands: the caller hears of its own flush only, and
\* from that command on the channel carries lists without the task.
FlushInv ==
  /\ job.at # "persist" => receipt = "none" /\ \A i \in DOMAIN chan : ~chan[i].heard
  /\ \A i \in DOMAIN chan : chan[i].heard => chan[i].command = "SaveAndFlush"
  /\ job.at = "persist" =>
       /\ \A i \in DOMAIN chan : chan[i].heard =>
             \A j \in i..Len(chan) : job.entry.id \notin Ids(chan[j].snapshot)
       /\ receipt = "ok" => NotKept(job.entry.id)
  /\ job.at = "publish" => NotKept(job.entry.id)

GoneInv ==
  \A t \in deleted :
     t \notin Ids(tasks) /\ NotKept(t) /\ \A shown \in logDisk : t \notin shown

RemovalInv == FlushInv /\ GoneInv

\* What a client is shown, while a handler is at work too.
ShownInv ==
  /\ job.at \notin {"start", "stopped"} => Ids(tasks) \cap Recurring \subseteq log
  /\ job.at = "persist" /\ job.why = "expiry" => job.entry.id \in log

\* An iteration that is over: it has ended, and what it started has too unless it
\* failed.
Quiet(k, n) ==
  k[n].status # "live" /\ (k[n].descendant => k[n].status = "failed")

QuietBut(k, t, a) == \A n \in Iterations : k[n].task = t /\ n # a => Quiet(k, n)

KidsInv ==
  /\ kids \in [Iterations -> Kid]
  /\ \A n \in Iterations :
       /\ kids[n].status = "unused" => ~kids[n].descendant
       /\ kids[n].status # "unused" => kids[n].task \in used
       /\ kids[n].watched => kids[n].status = "failed"

ResumeInv ==
  \A n \in Iterations : kids[n].resume # None =>
    /\ kids[n].resume \notin UnusedIn(kids)
    /\ kids[kids[n].resume].prompt = kids[n].prompt

LoopInv ==
  /\ \A i \in DOMAIN tasks : QuietBut(kids, tasks[i].id, tasks[i].anchor)
  /\ job.at \in Removing /\ job.why = "expiry" =>
       QuietBut(kids, job.entry.id, job.entry.anchor)
  /\ job.at = "spawn" => QuietBut(kids, job.entry.id, None)
  /\ IterationsDisjoint

------------------------------------------------------------------------------
(* Lists *)

LEMMA WithoutIs ==
  ASSUME NEW S, NEW l \in Seq(S), NEW p \in DOMAIN l
  PROVE  /\ Without(l, p) \in Seq(S) /\ Len(Without(l, p)) = Len(l) - 1
         /\ \A i \in 1..(Len(l) - 1) : Without(l, p)[i] = IF i < p THEN l[i] ELSE l[i + 1]
<1> DEFINE a == SubSeq(l, 1, p - 1)
           b == SubSeq(l, p + 1, Len(l))
<1>1. Len(l) \in Nat /\ p \in 1..Len(l)
  OBVIOUS
<1>2. /\ a \in Seq(S) /\ Len(a) = p - 1
      /\ \A i \in 1..(p - 1) : a[i] = l[i]
  BY <1>1
<1>3. /\ b \in Seq(S) /\ Len(b) = Len(l) - p
      /\ \A i \in 1..(Len(l) - p) : b[i] = l[p + i]
  BY <1>1
<1>4. Without(l, p) = a \o b
  BY DEF Without
<1> HIDE DEF a, b, Without
<1>5. /\ a \o b \in Seq(S) /\ Len(a \o b) = p - 1 + (Len(l) - p)
      /\ \A i \in 1..(p - 1 + (Len(l) - p)) :
            (a \o b)[i] = IF i <= p - 1 THEN a[i] ELSE b[i - (p - 1)]
  <2> DEFINE m == p - 1
             n == Len(l) - p
  <2>1. m \in Nat /\ n \in Nat /\ Len(a) = m /\ Len(b) = n
    BY <1>1, <1>2, <1>3
  <2> HIDE DEF m, n
  <2>2. /\ a \o b \in Seq(S) /\ Len(a \o b) = m + n
        /\ \A i \in 1..(m + n) : (a \o b)[i] = IF i <= m THEN a[i] ELSE b[i - m]
    BY <1>2, <1>3, <2>1, ConcatProperties
  <2> QED
    BY <2>2 DEF m, n
<1>6. p - 1 + (Len(l) - p) = Len(l) - 1
  BY <1>1
<1> DEFINE j == a \o b
<1>7. /\ j \in Seq(S) /\ Len(j) = Len(l) - 1
      /\ \A i \in 1..(Len(l) - 1) : j[i] = IF i <= p - 1 THEN a[i] ELSE b[i - (p - 1)]
  BY <1>5, <1>6
<1> HIDE DEF j
<1>8. ASSUME NEW i \in 1..(Len(l) - 1)
      PROVE  j[i] = IF i < p THEN l[i] ELSE l[i + 1]
  <2>1. CASE i < p
    BY <1>1, <1>2, <1>7, <2>1
  <2>2. CASE ~(i < p)
    <3>1. i - (p - 1) \in 1..(Len(l) - p) /\ p + (i - (p - 1)) = i + 1 /\ ~(i <= p - 1)
      BY <1>1, <2>2
    <3> QED
      BY <1>3, <1>7, <2>2, <3>1
  <2> QED
    BY <2>1, <2>2
<1> QED
  BY <1>4, <1>7, <1>8 DEF j

LEMMA InsertedIs ==
  ASSUME NEW S, NEW l \in Seq(S), NEW p \in 1..(Len(l) + 1), NEW e \in S
  PROVE  /\ Inserted(l, p, e) \in Seq(S) /\ Len(Inserted(l, p, e)) = Len(l) + 1
         /\ \A i \in 1..(Len(l) + 1) :
               Inserted(l, p, e)[i] = IF i < p THEN l[i] ELSE IF i = p THEN e ELSE l[i - 1]
<1> DEFINE a == SubSeq(l, 1, p - 1)
           b == SubSeq(l, p, Len(l))
           c == a \o <<e>>
<1>1. Len(l) \in Nat /\ p \in Nat /\ p >= 1 /\ p <= Len(l) + 1
  OBVIOUS
<1>2. /\ a \in Seq(S) /\ Len(a) = p - 1
      /\ \A i \in 1..(p - 1) : a[i] = l[i]
  BY <1>1
<1>3. /\ b \in Seq(S) /\ Len(b) = Len(l) - p + 1
      /\ \A i \in 1..(Len(l) - p + 1) : b[i] = l[p + i - 1]
  BY <1>1
<1>4. Inserted(l, p, e) = c \o b
  BY DEF Inserted
<1> HIDE DEF a, b, Inserted
<1>5. /\ c \in Seq(S) /\ Len(c) = p
      /\ \A i \in 1..p : c[i] = IF i < p THEN l[i] ELSE e
  BY <1>1, <1>2
<1> HIDE DEF c
<1>6. /\ c \o b \in Seq(S) /\ Len(c \o b) = p + (Len(l) - p + 1)
      /\ \A i \in 1..(p + (Len(l) - p + 1)) : (c \o b)[i] = IF i <= p THEN c[i] ELSE b[i - p]
  <2> DEFINE n == Len(l) - p + 1
  <2>1. n \in Nat /\ Len(b) = n
    BY <1>1, <1>3
  <2> HIDE DEF n
  <2>2. /\ c \o b \in Seq(S) /\ Len(c \o b) = p + n
        /\ \A i \in 1..(p + n) : (c \o b)[i] = IF i <= p THEN c[i] ELSE b[i - p]
    BY <1>1, <1>3, <1>5, <2>1, ConcatProperties
  <2> QED
    BY <2>2 DEF n
<1>7. p + (Len(l) - p + 1) = Len(l) + 1
  BY <1>1
<1> DEFINE j == c \o b
<1>8. /\ j \in Seq(S) /\ Len(j) = Len(l) + 1
      /\ \A i \in 1..(Len(l) + 1) : j[i] = IF i <= p THEN c[i] ELSE b[i - p]
  BY <1>6, <1>7
<1> HIDE DEF j
<1>9. ASSUME NEW i \in 1..(Len(l) + 1)
      PROVE  j[i] = IF i < p THEN l[i] ELSE IF i = p THEN e ELSE l[i - 1]
  <2>1. CASE i <= p
    BY <1>1, <1>5, <1>8, <2>1
  <2>2. CASE i > p
    <3>1. i - p \in 1..(Len(l) - p + 1) /\ p + (i - p) - 1 = i - 1 /\ ~(i <= p) /\ ~(i < p)
      BY <1>1, <2>2
    <3> QED
      BY <1>3, <1>8, <2>2, <3>1
  <2> QED
    BY <1>1, <2>1, <2>2
<1> QED
  BY <1>4, <1>8, <1>9 DEF j

\* A task taken off a list leaves the others, and leaves it in order.
LEMMA WithoutOK ==
  ASSUME NEW l, NEW k, NEW u, ListOK(l, k, u), NEW p \in DOMAIN l
  PROVE  /\ ListOK(Without(l, p), k, u)
         /\ Ids(Without(l, p)) = Ids(l) \ {l[p].id}
         /\ Len(Without(l, p)) = Len(l) - 1
         /\ \A i \in DOMAIN Without(l, p) : \E j \in DOMAIN l : Without(l, p)[i] = l[j]
<1> DEFINE w == Without(l, p)
<1>1. l \in Seq(Entry) /\ Len(l) \in Nat /\ DOMAIN l = 1..Len(l) /\ Len(l) <= MAX_SCHEDULED_TASKS
  BY DEF ListOK
<1>2. /\ w \in Seq(Entry) /\ Len(w) = Len(l) - 1
      /\ \A i \in 1..(Len(l) - 1) : w[i] = IF i < p THEN l[i] ELSE l[i + 1]
  BY <1>1, WithoutIs
<1>3. DOMAIN w = 1..(Len(l) - 1)
  BY <1>2
<1> HIDE DEF w
<1>0. ASSUME NEW i \in DOMAIN w
      PROVE  /\ w[i] = l[IF i < p THEN i ELSE i + 1]
             /\ (IF i < p THEN i ELSE i + 1) \in DOMAIN l \ {p}
  <2>1. w[i] = IF i < p THEN l[i] ELSE l[i + 1]
    BY <1>2, <1>3
  <2>2. i \in Nat /\ 1 <= i /\ i <= Len(l) - 1 /\ p \in Nat /\ p <= Len(l)
    BY <1>1, <1>3
  <2>3. CASE i < p
    BY <1>1, <2>1, <2>2, <2>3
  <2>4. CASE ~(i < p)
    BY <1>1, <2>1, <2>2, <2>4
  <2> QED
    BY <2>3, <2>4
<1>4. Distinct(w)
  <2> SUFFICES ASSUME NEW i \in DOMAIN w, NEW j \in DOMAIN w, w[i].id = w[j].id
               PROVE  i = j
    BY DEF Distinct
  <2>1. w[i] = l[IF i < p THEN i ELSE i + 1] /\ w[j] = l[IF j < p THEN j ELSE j + 1]
    BY <1>0
  <2>2. (IF i < p THEN i ELSE i + 1) = (IF j < p THEN j ELSE j + 1)
    BY <1>1, <1>3, <2>1 DEF ListOK, Distinct
  <2> QED
    BY <1>1, <1>3, <2>2
<1>5. \A i \in DOMAIN w : EntryOK(w[i], k, u)
  BY <1>1, <1>2, <1>3 DEF ListOK
<1>6. Len(w) <= MAX_SCHEDULED_TASKS
  BY <1>1, <1>2, SchedulerAssumption
<1>7. Ids(w) = Ids(l) \ {l[p].id}
  <2>1. ASSUME NEW i \in DOMAIN w PROVE w[i].id \in Ids(l) \ {l[p].id}
    <3>1. PICK j \in DOMAIN l : w[i] = l[j] /\ j # p
      BY <1>0
    <3> QED
      BY <3>1 DEF Ids, ListOK, Distinct
  <2>2. ASSUME NEW j \in DOMAIN l, j # p PROVE \E i \in DOMAIN w : w[i] = l[j]
    <3>1. CASE j < p
      BY <1>1, <1>2, <1>3, <2>2, <3>1
    <3>2. CASE j > p
      <4>1. j - 1 \in DOMAIN w /\ w[j - 1] = l[j]
        BY <1>1, <1>2, <1>3, <3>2
      <4> QED
        BY <4>1
    <3> QED
      BY <1>1, <2>2, <3>1, <3>2
  <2> QED
    BY <2>1, <2>2 DEF Ids
<1>8. \A i \in DOMAIN w : \E j \in DOMAIN l : w[i] = l[j]
  BY <1>0
<1> QED
  BY <1>2, <1>4, <1>5, <1>6, <1>7, <1>8 DEF ListOK, w

LEMMA InsertedOK ==
  ASSUME NEW l, NEW k, NEW u, ListOK(l, k, u), NEW e, EntryOK(e, k, u), e.id \notin Ids(l),
         NEW p \in 1..(Len(l) + 1), Len(l) < MAX_SCHEDULED_TASKS
  PROVE  /\ ListOK(Inserted(l, p, e), k, u)
         /\ Ids(Inserted(l, p, e)) = Ids(l) \cup {e.id}
         /\ \A i \in DOMAIN Inserted(l, p, e) :
               Inserted(l, p, e)[i] \in {e} \cup {l[j] : j \in DOMAIN l}
<1> DEFINE w == Inserted(l, p, e)
<1>1. l \in Seq(Entry) /\ Len(l) \in Nat /\ DOMAIN l = 1..Len(l) /\ e \in Entry
  BY DEF ListOK, EntryOK
<1>2. /\ w \in Seq(Entry) /\ Len(w) = Len(l) + 1
      /\ \A i \in 1..(Len(l) + 1) : w[i] = IF i < p THEN l[i] ELSE IF i = p THEN e ELSE l[i - 1]
  BY <1>1, InsertedIs, SMTT(30)
<1>3. DOMAIN w = 1..(Len(l) + 1)
  BY <1>2
<1> HIDE DEF w
<1>4. ASSUME NEW i \in DOMAIN w, i # p
      PROVE  w[i] = l[IF i < p THEN i ELSE i - 1] /\ (IF i < p THEN i ELSE i - 1) \in DOMAIN l
  BY <1>1, <1>2, <1>3, <1>4
<1>5. p \in DOMAIN w /\ w[p] = e
  BY <1>1, <1>2, <1>3
<1>6. Distinct(w)
  <2> SUFFICES ASSUME NEW i \in DOMAIN w, NEW j \in DOMAIN w, w[i].id = w[j].id
               PROVE  i = j
    BY DEF Distinct
  <2>1. CASE i # p /\ j # p
    <3>1. (IF i < p THEN i ELSE i - 1) = (IF j < p THEN j ELSE j - 1)
      BY <1>4, <2>1 DEF ListOK, Distinct
    <3> QED
      BY <1>1, <1>3, <2>1, <3>1
  <2>2. CASE i = p \/ j = p
    BY <1>4, <1>5, <2>2 DEF Ids
  <2> QED
    BY <2>1, <2>2
<1>7. \A i \in DOMAIN w : w[i] \in {e} \cup {l[j] : j \in DOMAIN l}
  BY <1>4, <1>5
<1>8. \A i \in DOMAIN w : EntryOK(w[i], k, u)
  BY <1>7 DEF ListOK
<1>9. Len(w) <= MAX_SCHEDULED_TASKS
  BY <1>1, <1>2, SchedulerAssumption
<1>10. Ids(w) = Ids(l) \cup {e.id}
  <2>1. Ids(w) \subseteq Ids(l) \cup {e.id}
    BY <1>7 DEF Ids
  <2>2. e.id \in Ids(w)
    BY <1>5 DEF Ids
  <2>3. ASSUME NEW j \in DOMAIN l PROVE l[j].id \in Ids(w)
    <3>1. CASE j < p
      <4>1. j \in DOMAIN w /\ w[j] = l[j]
        BY <1>1, <1>2, <1>3, <3>1
      <4> QED
        BY <4>1 DEF Ids
    <3>2. CASE ~(j < p)
      <4>1. j + 1 \in DOMAIN w /\ w[j + 1] = l[j]
        BY <1>1, <1>2, <1>3, <3>2
      <4> QED
        BY <4>1 DEF Ids
    <3> QED
      BY <3>1, <3>2
  <2> QED
    BY <2>1, <2>2, <2>3 DEF Ids
<1> QED
  BY <1>2, <1>6, <1>7, <1>8, <1>9, <1>10 DEF ListOK, w

LEMMA PositionIs ==
  ASSUME NEW t \in Ids(tasks)
  PROVE  Position(t) \in DOMAIN tasks /\ tasks[Position(t)].id = t /\ Task(t) = tasks[Position(t)]
BY DEF Ids, Position, Task

LEMMA AppendedOK ==
  ASSUME NEW l, NEW k, NEW u, ListOK(l, k, u), NEW e, EntryOK(e, k, u), e.id \notin Ids(l),
         Len(l) < MAX_SCHEDULED_TASKS
  PROVE  ListOK(Append(l, e), k, u) /\ Ids(Append(l, e)) = Ids(l) \cup {e.id}
<1> DEFINE w == Append(l, e)
<1>1. l \in Seq(Entry) /\ Len(l) \in Nat /\ DOMAIN l = 1..Len(l) /\ e \in Entry
  BY DEF ListOK, EntryOK
<1>2. /\ w \in Seq(Entry) /\ Len(w) = Len(l) + 1 /\ DOMAIN w = 1..(Len(l) + 1)
      /\ w[Len(l) + 1] = e /\ \A i \in 1..Len(l) : w[i] = l[i]
  BY <1>1
<1> HIDE DEF w
<1>3. Distinct(w)
  <2> SUFFICES ASSUME NEW i \in DOMAIN w, NEW j \in DOMAIN w, w[i].id = w[j].id
               PROVE  i = j
    BY DEF Distinct
  <2>1. CASE i \in 1..Len(l) /\ j \in 1..Len(l)
    BY <1>1, <1>2, <2>1 DEF ListOK, Distinct
  <2>2. CASE ~(i \in 1..Len(l) /\ j \in 1..Len(l))
    BY <1>1, <1>2, <2>2 DEF Ids
  <2> QED
    BY <2>1, <2>2
<1>4. \A i \in DOMAIN w : EntryOK(w[i], k, u)
  <2>1. \A i \in DOMAIN w : i \in 1..Len(l) \/ i = Len(l) + 1
    BY <1>1, <1>2
  <2> QED
    BY <1>1, <1>2, <2>1 DEF ListOK
<1>5. Len(w) <= MAX_SCHEDULED_TASKS
  BY <1>1, <1>2, SchedulerAssumption
<1>6. Ids(w) = Ids(l) \cup {e.id}
  <2>1. \A i \in DOMAIN w : i \in 1..Len(l) \/ i = Len(l) + 1
    BY <1>1, <1>2
  <2>2. Len(l) + 1 \in DOMAIN w /\ \A i \in DOMAIN l : i \in DOMAIN w
    BY <1>1, <1>2
  <2> QED
    BY <1>1, <1>2, <2>1, <2>2 DEF Ids
<1> QED
  BY <1>2, <1>3, <1>4, <1>5, <1>6 DEF ListOK, w

\* Entries are replaced, each by another of the same task.
LEMMA RewrittenOK ==
  ASSUME NEW l, NEW k, NEW u, ListOK(l, k, u), NEW w, NEW k2, NEW u2,
         w = [i \in DOMAIN l |-> w[i]],
         \A i \in DOMAIN l : w[i].id = l[i].id /\ EntryOK(w[i], k2, u2)
  PROVE  /\ ListOK(w, k2, u2) /\ Ids(w) = Ids(l)
         /\ DOMAIN w = DOMAIN l /\ Len(w) = Len(l)
<1>1. l \in Seq(Entry) /\ Len(l) \in Nat /\ DOMAIN l = 1..Len(l)
  BY DEF ListOK
<1>2. DOMAIN w = DOMAIN l /\ \A i \in DOMAIN l : w[i] \in Entry
  BY DEF EntryOK
<1>3. w \in [1..Len(l) -> Entry]
  BY <1>1, <1>2
<1>4. w \in Seq(Entry)
  BY <1>1, <1>3, SeqDef
<1>5. Len(w) = Len(l)
  <2>1. Len(w) \in Nat /\ 1..Len(w) = 1..Len(l)
    BY <1>1, <1>2, <1>4, LenProperties
  <2> QED
    BY <1>1, <2>1
<1>6. Distinct(w) /\ Ids(w) = Ids(l)
  BY <1>2 DEF ListOK, Distinct, Ids
<1> QED
  BY <1>2, <1>4, <1>5, <1>6 DEF ListOK

LEMMA EmptyOK ==
  ASSUME NEW k, NEW u
  PROVE  ListOK(<<>>, k, u) /\ Ids(<<>>) = {}
BY SchedulerAssumption DEF ListOK, Distinct, Ids

\* Iterations are used up and their prompts stay; ids are used up.
Evolves(k, u, k2, u2) ==
  /\ u \subseteq u2 /\ UnusedIn(k2) \subseteq UnusedIn(k)
  /\ \A n \in Iterations \ UnusedIn(k) : k2[n].prompt = k[n].prompt

LEMMA EntryKept ==
  ASSUME NEW k, NEW u, NEW k2, NEW u2, Evolves(k, u, k2, u2), NEW e, EntryOK(e, k, u)
  PROVE  EntryOK(e, k2, u2)
<1>1. e.anchor \in {None} \cup Iterations
  BY DEF EntryOK, Entry
<1>2. e.anchor # None => e.anchor \in Iterations \ UnusedIn(k)
  BY <1>1 DEF EntryOK, Iterations
<1> QED
  BY <1>2 DEF EntryOK, Evolves

LEMMA ListKept ==
  ASSUME NEW k, NEW u, NEW k2, NEW u2, Evolves(k, u, k2, u2), NEW l, ListOK(l, k, u)
  PROVE  ListOK(l, k2, u2)
BY EntryKept DEF ListOK

LEMMA SameEvolves ==
  ASSUME NEW k, NEW u, NEW u2, u \subseteq u2
  PROVE  Evolves(k, u, k, u2)
BY DEF Evolves

\* A new task is a good entry as soon as its id counts as used.
LEMMA NewTaskOK ==
  ASSUME NEW t \in Tasks, NEW k, NEW u, t \in u
  PROVE  EntryOK(NewTask(t), k, u) /\ NewTask(t).id = t
<1>1. /\ NewTask(t) \in Entry /\ NewTask(t).id = t /\ NewTask(t).iters = 0
      /\ NewTask(t).anchor = None
  BY SchedulerAssumption DEF NewTask, Entry, None
<1>2. \A n \in UnusedIn(k) : 0 < n
  BY DEF UnusedIn, Iterations
<1> QED
  BY <1>1, <1>2 DEF EntryOK, None

------------------------------------------------------------------------------
(* The writer *)

LEMMA SendStores ==
  ASSUME chan \in Seq(Message), file \in disk, NEW l \in Seq(Entry),
         Save(l) \/ EnqueueSaveAndFlush(l)
  PROVE  /\ chan' \in Seq(Message) /\ file' \in disk'
         /\ \A s \in Snapshots' : s \in Snapshots \/ s = l
<1>1. PICK c \in {"Save", "SaveAndFlush"}, h \in BOOLEAN :
         /\ chan' = Append(chan, [command |-> c, snapshot |-> l, heard |-> h])
         /\ UNCHANGED <<waiting, file, disk>>
  BY DEF Save, EnqueueSaveAndFlush
<1> DEFINE m == [command |-> c, snapshot |-> l, heard |-> h]
<1>2. m \in Message /\ m.snapshot = l
  BY DEF Message
<1> HIDE DEF m
<1>3. /\ chan' \in Seq(Message) /\ DOMAIN chan = 1..Len(chan) /\ Len(chan) \in Nat
      /\ DOMAIN chan' = 1..(Len(chan) + 1)
      /\ \A i \in 1..Len(chan) : chan'[i] = chan[i]
      /\ chan'[Len(chan) + 1] = m
  BY <1>1, <1>2 DEF m
<1>4. \A i \in DOMAIN chan' : i \in DOMAIN chan \/ i = Len(chan) + 1
  BY <1>3
<1>5. \A i \in DOMAIN chan' : chan'[i].snapshot = l \/ \E j \in DOMAIN chan : chan'[i].snapshot = chan[j].snapshot
  BY <1>2, <1>3, <1>4
<1> QED
  BY <1>1, <1>3, <1>5 DEF Snapshots

LEMMA DropStores ==
  ASSUME chan \in Seq(Message), file \in disk, DropReceipt
  PROVE  /\ chan' \in Seq(Message) /\ file' \in disk' /\ Snapshots' = Snapshots
         /\ DOMAIN chan' = DOMAIN chan /\ Len(chan') = Len(chan)
         /\ \A i \in DOMAIN chan : ~chan'[i].heard /\ chan'[i].snapshot = chan[i].snapshot
<1>1. /\ chan' = [i \in DOMAIN chan |-> [chan[i] EXCEPT !.heard = FALSE]]
      /\ UNCHANGED <<waiting, file, disk>>
  BY DEF DropReceipt
<1>2. DOMAIN chan = 1..Len(chan) /\ Len(chan) \in Nat
  OBVIOUS
<1>3. ASSUME NEW i \in DOMAIN chan
      PROVE  /\ chan'[i] \in Message /\ chan'[i].heard = FALSE
             /\ chan'[i].snapshot = chan[i].snapshot
  <2>1. chan[i] \in Message /\ chan'[i] = [chan[i] EXCEPT !.heard = FALSE]
    BY <1>1
  <2> QED
    BY <2>1 DEF Message
<1>4. chan' \in [1..Len(chan) -> Message] /\ DOMAIN chan' = DOMAIN chan
  BY <1>1, <1>2, <1>3
<1>5. chan' \in Seq(Message)
  BY <1>2, <1>4, SeqDef
<1>6. Len(chan') = Len(chan)
  <2>1. Len(chan') \in Nat /\ 1..Len(chan') = 1..Len(chan)
    BY <1>2, <1>4, <1>5, LenProperties
  <2> QED
    BY <1>2, <2>1
<1>7. {chan'[i].snapshot : i \in DOMAIN chan'} = {chan[i].snapshot : i \in DOMAIN chan}
  BY <1>3, <1>4
<1>8. Snapshots' = Snapshots
  BY <1>1, <1>7 DEF Snapshots
<1>9. file' \in disk'
  BY <1>1
<1> QED
  BY <1>3, <1>4, <1>5, <1>6, <1>8, <1>9

LEMMA PopChan ==
  ASSUME chan \in Seq(Message), chan # <<>>, chan' = Tail(chan)
  PROVE  /\ chan' \in Seq(Message) /\ Head(chan) = chan[1] /\ 1 \in DOMAIN chan
         /\ Len(chan) \in Nat /\ Len(chan') = Len(chan) - 1 /\ DOMAIN chan = 1..Len(chan)
         /\ DOMAIN chan' = 1..(Len(chan) - 1)
         /\ \A i \in DOMAIN chan' : i + 1 \in DOMAIN chan /\ chan'[i] = chan[i + 1]
  OBVIOUS

LEMMA WriterStores ==
  ASSUME chan \in Seq(Message), file \in disk, Writer \/ WriterFails
  PROVE  /\ chan' \in Seq(Message) /\ file' \in disk'
         /\ \A s \in Snapshots' : s \in Snapshots \/ s = <<>>
<1>1. CASE HandleSave
  <2>1. chan # <<>> /\ chan' = Tail(chan) /\ waiting' = Head(chan).snapshot /\ UNCHANGED <<file, disk>>
    BY <1>1 DEF HandleSave
  <2> QED
    BY <2>1, PopChan DEF Snapshots
<1>2. CASE HandleSaveAndFlush
  <2>1. /\ chan # <<>> /\ chan' = Tail(chan) /\ waiting' = Nothing
        /\ file' = Head(chan).snapshot /\ disk' = {file'}
    BY <1>2 DEF HandleSaveAndFlush
  <2> QED
    BY <2>1, PopChan DEF Snapshots
<1>3. CASE SaveAndFlushFails
  <2>1. /\ chan # <<>> /\ chan' = Tail(chan) /\ waiting' = Nothing
        /\ \/ UNCHANGED <<file, disk>>
           \/ file' = Head(chan).snapshot /\ disk' = disk \cup {file'}
    BY <1>3 DEF SaveAndFlushFails
  <2> QED
    BY <2>1, PopChan DEF Snapshots
<1>4. CASE WriteJson
  BY <1>4 DEF WriteJson, Blank, Snapshots
<1>5. CASE WriteJsonFails
  BY <1>5 DEF WriteJsonFails, Snapshots
<1> QED
  BY <1>1, <1>2, <1>3, <1>4, <1>5 DEF Writer, WriterFails

LEMMA LossStores ==
  ASSUME chan \in Seq(Message), file \in disk, KillWriter \/ PowerOff
  PROVE  chan' \in Seq(Message) /\ file' \in disk' /\ Snapshots' \subseteq Snapshots
<1>1. chan' = <<>> /\ waiting' = Nothing
  BY DEF KillWriter, PowerOff, LoseWriter
<1>2. file' \in disk' /\ file' \in {file} \cup disk /\ disk' \subseteq disk
  BY DEF KillWriter, PowerOff
<1>3. chan' \in Seq(Message) /\ DOMAIN chan' = {}
  BY <1>1
<1> QED
  BY <1>1, <1>2, <1>3 DEF Snapshots

------------------------------------------------------------------------------
(* Iterations *)

LEMMA LeastExists ==
  ASSUME NEW S \in SUBSET Nat, S # {}
  PROVE  \E n \in S : \A m \in S : n <= m
<1>1. PICK n \in S : \A m \in S : ~(<<m, n>> \in OpToRel(<, Nat))
  BY NatLessThanWellFounded, WFMin, Zenon
<1>2. \A m \in S : ~(m < n)
  BY <1>1, Zenon DEF OpToRel
<1> QED
  BY <1>2

LEMMA NextIterationIs ==
  ASSUME UnusedIn(kids) # {}
  PROVE  NextIteration \in UnusedIn(kids) /\ \A m \in UnusedIn(kids) : NextIteration <= m
<1>1. Unused = UnusedIn(kids)
  BY DEF Unused, UnusedIn
<1>2. Unused \in SUBSET Nat
  BY DEF Unused, Iterations
<1>3. \E n \in Unused : \A m \in Unused : n <= m
  BY <1>1, <1>2, LeastExists
<1> QED
  BY <1>1, <1>3 DEF NextIteration

\* What everybody but SpawnIteration does to the iterations.
Calmer(k, k2) ==
  \A n \in Iterations :
    /\ k2[n].task = k[n].task
    /\ Quiet(k, n) => Quiet(k2, n)
    /\ k2[n].status = "live" => k[n].status = "live"
    /\ k2[n].status = "unused" <=> k[n].status = "unused"

\* One iteration moves on: it keeps what it was started with.
LEMMA KidTouched ==
  ASSUME KidsInv, ResumeInv, NEW n \in Iterations, NEW e \in Kid,
         kids' = [kids EXCEPT ![n] = e], used' = used,
         kids[n].status # "unused", e.status # "unused",
         e.task = kids[n].task, e.prompt = kids[n].prompt, e.resume = kids[n].resume,
         e.watched => e.status = "failed",
         e.status = "live" => kids[n].status = "live",
         Quiet(kids, n) => e.status # "live" /\ (e.descendant => e.status = "failed")
  PROVE  KidsInv' /\ ResumeInv' /\ Evolves(kids, used, kids', used') /\ Calmer(kids, kids')
<1>1. kids' \in [Iterations -> Kid] /\ kids'[n] = e /\ \A m \in Iterations \ {n} : kids'[m] = kids[m]
  BY DEF KidsInv
<1>2. UnusedIn(kids') = UnusedIn(kids)
  BY <1>1 DEF UnusedIn
<1>3. \A m \in Iterations : kids'[m].prompt = kids[m].prompt /\ kids'[m].resume = kids[m].resume
  BY <1>1
<1>4. KidsInv'
  BY <1>1 DEF KidsInv
<1>5. ResumeInv'
  <2> SUFFICES ASSUME NEW m \in Iterations, kids'[m].resume # None
               PROVE  /\ kids'[m].resume \notin UnusedIn(kids')
                      /\ kids'[kids'[m].resume].prompt = kids'[m].prompt
    BY DEF ResumeInv, UnusedIn
  <2>1. kids[m].resume \in Iterations
    BY <1>3 DEF KidsInv, Kid
  <2> QED
    BY <1>2, <1>3, <2>1 DEF ResumeInv
<1>6. Evolves(kids, used, kids', used')
  BY <1>2, <1>3 DEF Evolves
<1>7. Calmer(kids, kids')
  BY <1>1 DEF Calmer, Quiet
<1> QED
  BY <1>4, <1>5, <1>6, <1>7

LEMMA CoordinatorKids ==
  ASSUME KidsInv, ResumeInv, NEW n \in Iterations, Watcher(n) \/ Coordinator(n)
  PROVE  KidsInv' /\ ResumeInv' /\ Evolves(kids, used, kids', used') /\ Calmer(kids, kids')
<1>0. used' = used /\ kids[n] \in Kid
  BY DEF Watcher, Coordinator, IterationEnds, DescendantStarts, DescendantEnds,
         IterationForgotten, Others, history, KidsInv
<1>1. CASE Watcher(n)
  <2> DEFINE e == [kids[n] EXCEPT !.watched = FALSE]
  <2>1. kids' = [kids EXCEPT ![n] = e] /\ kids[n].status = "failed"
    BY <1>1 DEF Watcher, KidsInv
  <2>2. /\ e \in Kid /\ e.status = kids[n].status /\ e.task = kids[n].task
        /\ e.prompt = kids[n].prompt /\ e.resume = kids[n].resume
        /\ e.watched = FALSE
    BY <1>0 DEF Kid
  <2> HIDE DEF e
  <2> QED
    BY <1>0, <2>1, <2>2, KidTouched
<1>2. CASE IterationEnds(n)
  <2>1. PICK st \in {"completed", "failed"}, w \in BOOLEAN :
           /\ kids' = [kids EXCEPT ![n] = [kids[n] EXCEPT !.status = st, !.watched = w]]
           /\ w => st = "failed"
    <3>1. CASE kids' = [kids EXCEPT ![n].status = "completed"]
      <4>1. kids[n].watched = FALSE
        BY <1>0, <1>2 DEF IterationEnds, KidsInv, Kid
      <4>2. kids' = [kids EXCEPT ![n] = [kids[n] EXCEPT !.status = "completed", !.watched = FALSE]]
        BY <1>0, <3>1, <4>1 DEF Kid
      <4> QED
        BY <4>2
    <3>2. ASSUME NEW error \in BOOLEAN,
                 kids' = [kids EXCEPT ![n].status = "failed", ![n].watched = error]
          PROVE  kids' = [kids EXCEPT ![n] = [kids[n] EXCEPT !.status = "failed", !.watched = error]]
      BY <3>2 DEF KidsInv
    <3> QED
      BY <1>2, <3>1, <3>2 DEF IterationEnds
  <2> DEFINE e == [kids[n] EXCEPT !.status = st, !.watched = w]
  <2>2. /\ e \in Kid /\ e.status = st /\ e.task = kids[n].task
        /\ e.prompt = kids[n].prompt /\ e.resume = kids[n].resume /\ e.watched = w
    BY <1>0 DEF Kid
  <2>3. kids[n].status = "live" /\ kids' = [kids EXCEPT ![n] = e]
    BY <1>2, <2>1 DEF IterationEnds
  <2> HIDE DEF e
  <2> QED
    BY <1>0, <2>1, <2>2, <2>3, KidTouched DEF Quiet
<1>3. ASSUME NEW d \in BOOLEAN, kids' = [kids EXCEPT ![n].descendant = d],
             kids[n].status # "unused", d => kids[n].status = "live"
      PROVE  KidsInv' /\ ResumeInv' /\ Evolves(kids, used, kids', used') /\ Calmer(kids, kids')
  <2> DEFINE e == [kids[n] EXCEPT !.descendant = d]
  <2>1. /\ e \in Kid /\ e.status = kids[n].status /\ e.task = kids[n].task
        /\ e.prompt = kids[n].prompt /\ e.resume = kids[n].resume
        /\ e.watched = kids[n].watched /\ e.descendant = d
    BY <1>0 DEF Kid
  <2>2. kids' = [kids EXCEPT ![n] = e]
    BY <1>3
  <2> HIDE DEF e
  <2>3. e.watched => e.status = "failed"
    BY <2>1 DEF KidsInv
  <2>4. Quiet(kids, n) => e.status # "live" /\ (e.descendant => e.status = "failed")
    BY <1>3, <2>1 DEF Quiet
  <2> QED
    BY <1>0, <1>3, <2>1, <2>2, <2>3, <2>4, KidTouched
<1>4. CASE DescendantStarts(n) \/ DescendantEnds(n)
  BY <1>3, <1>4 DEF DescendantStarts, DescendantEnds, KidsInv
<1>5. CASE IterationForgotten(n)
  <2> DEFINE e == [kids[n] EXCEPT !.known = FALSE]
  <2>1. kids' = [kids EXCEPT ![n] = e] /\ kids[n].status \in {"completed", "failed"}
    BY <1>5 DEF IterationForgotten
  <2>2. /\ e \in Kid /\ e.status = kids[n].status /\ e.task = kids[n].task
        /\ e.prompt = kids[n].prompt /\ e.resume = kids[n].resume
        /\ e.watched = kids[n].watched /\ e.descendant = kids[n].descendant
    BY <1>0 DEF Kid
  <2> HIDE DEF e
  <2>3. e.watched => e.status = "failed"
    BY <2>2 DEF KidsInv
  <2>4. Quiet(kids, n) => e.status # "live" /\ (e.descendant => e.status = "failed")
    BY <2>2 DEF Quiet
  <2> QED
    BY <1>0, <2>1, <2>2, <2>3, <2>4, KidTouched
<1> QED
  BY <1>1, <1>2, <1>4, <1>5 DEF Coordinator

\* The coordinator goes, or a new one comes: nothing is live any more.
LEMMA OrphanedKids ==
  ASSUME KidsInv, ResumeInv, CoordinatorCloses \/ Restart
  PROVE  /\ KidsInv' /\ ResumeInv' /\ Evolves(kids, used, kids', used') /\ Calmer(kids, kids')
         /\ \A n \in Iterations : Quiet(kids', n)
<1>0. used' = used /\ DOMAIN kids' = Iterations
  BY DEF CoordinatorCloses, Restart, history, Orphaned
<1>1. ASSUME NEW n \in Iterations
      PROVE  /\ kids'[n] \in Kid
             /\ kids'[n].status = IF kids[n].status = "live" THEN "failed" ELSE kids[n].status
             /\ kids'[n].task = kids[n].task /\ kids'[n].prompt = kids[n].prompt
             /\ kids'[n].resume = kids[n].resume /\ kids'[n].descendant = FALSE
             /\ kids'[n].watched = FALSE \/ kids'[n].watched = kids[n].watched
  <2> DEFINE e == [kids[n] EXCEPT !.status = IF @ = "live" THEN "failed" ELSE @,
                                  !.known = FALSE, !.descendant = FALSE]
  <2>1. kids[n] \in Kid
    BY DEF KidsInv
  <2>2. /\ e \in Kid
        /\ e.status = IF kids[n].status = "live" THEN "failed" ELSE kids[n].status
        /\ e.task = kids[n].task /\ e.prompt = kids[n].prompt /\ e.resume = kids[n].resume
        /\ e.descendant = FALSE /\ e.watched = kids[n].watched
    BY <2>1 DEF Kid
  <2>3. kids'[n] = e \/ kids'[n] = [e EXCEPT !.watched = FALSE]
    BY DEF CoordinatorCloses, Restart, Orphaned
  <2> HIDE DEF e
  <2>4. LET f == [e EXCEPT !.watched = FALSE]
        IN  /\ f \in Kid /\ f.status = e.status /\ f.task = e.task /\ f.prompt = e.prompt
            /\ f.resume = e.resume /\ f.descendant = e.descendant /\ f.watched = FALSE
    BY <2>2 DEF Kid
  <2> QED
    BY <2>2, <2>3, <2>4
<1>2. UnusedIn(kids') = UnusedIn(kids)
  BY <1>1 DEF UnusedIn
<1>3. KidsInv'
  <2>1. kids' \in [Iterations -> Kid]
    BY <1>0, <1>1, Zenon DEF CoordinatorCloses, Restart, Orphaned
  <2>2. ASSUME NEW n \in Iterations
        PROVE  /\ kids'[n].status = "unused" => ~kids'[n].descendant
               /\ kids'[n].status # "unused" => kids'[n].task \in used'
               /\ kids'[n].watched => kids'[n].status = "failed"
    <3>1. /\ kids[n].status # "unused" => kids[n].task \in used
          /\ kids[n].watched => kids[n].status = "failed"
      BY DEF KidsInv
    <3> QED
      BY <1>0, <1>1, <3>1
  <2> QED
    BY <2>1, <2>2 DEF KidsInv
<1>4. ResumeInv'
  <2> SUFFICES ASSUME NEW m \in Iterations, kids'[m].resume # None
               PROVE  /\ kids'[m].resume \notin UnusedIn(kids')
                      /\ kids'[kids'[m].resume].prompt = kids'[m].prompt
    BY DEF ResumeInv, UnusedIn
  <2>1. kids[m].resume \in Iterations
    BY <1>1 DEF KidsInv, Kid
  <2>2. kids'[m].resume = kids[m].resume
    BY <1>1
  <2>3. kids[m].resume \notin UnusedIn(kids) /\ kids[kids[m].resume].prompt = kids[m].prompt
    BY <2>1, <2>2 DEF ResumeInv
  <2> QED
    BY <1>1, <1>2, <2>1, <2>2, <2>3
<1>5. Evolves(kids, used, kids', used')
  BY <1>0, <1>1, <1>2 DEF Evolves
<1>6. \A n \in Iterations : Quiet(kids', n)
  BY <1>1 DEF Quiet
<1>7. Calmer(kids, kids')
  BY <1>1, <1>6 DEF Calmer
<1> QED
  BY <1>3, <1>4, <1>5, <1>6, <1>7

LEMMA SpawnKids ==
  ASSUME TaskInv, KidsInv, ResumeInv, SpawnIteration
  PROVE  /\ KidsInv' /\ ResumeInv' /\ Evolves(kids, used, kids', used')
         /\ NextIteration \in UnusedIn(kids) /\ \A m \in UnusedIn(kids) : NextIteration <= m
         /\ UnusedIn(kids') = UnusedIn(kids) \ {NextIteration}
         /\ \A m \in Iterations \ {NextIteration} : kids'[m] = kids[m]
         /\ kids'[NextIteration].task = job.entry.id
         /\ kids'[NextIteration].prompt = job.entry.prompt
<1> DEFINE ni == NextIteration
           entry == job.entry
           from == IF StartsFresh(entry, job.seen) THEN None ELSE entry.anchor
           e == [NoKid EXCEPT !.status = "live", !.known = TRUE, !.task = entry.id,
                              !.prompt = entry.prompt, !.resume = from]
<1>1. job.at \in Firing /\ used' = used
  BY DEF SpawnIteration, Firing, history
<1>2. ni \in UnusedIn(kids) /\ \A m \in UnusedIn(kids) : ni <= m
  BY <1>1, NextIterationIs DEF TaskInv, JobInv
<1>3. EntryOK(entry, kids, used)
  BY <1>1 DEF TaskInv, JobInv
<1>4. kids' = [kids EXCEPT ![ni] = e]
  BY DEF SpawnIteration
<1>5. /\ entry.id \in used /\ entry.id \in Tasks /\ entry.prompt \in 0..MaxPrompt
      /\ entry.anchor \in {None} \cup Iterations
  BY <1>3 DEF EntryOK, Entry
<1>6. from # None => /\ from = entry.anchor /\ from \in Iterations \ UnusedIn(kids)
                     /\ kids[from].prompt = entry.prompt
  <2> SUFFICES ASSUME from # None
               PROVE  /\ from = entry.anchor /\ from \in Iterations \ UnusedIn(kids)
                      /\ kids[from].prompt = entry.prompt
    OBVIOUS
  <2>1. from = entry.anchor /\ ~entry.reset
    BY DEF StartsFresh
  <2>2. from \notin UnusedIn(kids)
    BY <1>3, <2>1 DEF EntryOK, UnusedIn, Iterations
  <2> QED
    BY <1>3, <1>5, <2>1, <2>2 DEF EntryOK
<1>7. from \in {None} \cup Iterations
  BY <1>5
<1> HIDE DEF ni, entry, from
<1>8. /\ e \in Kid /\ e.status = "live" /\ e.task = entry.id /\ e.prompt = entry.prompt
      /\ e.resume = from /\ e.descendant = FALSE /\ e.watched = FALSE
  BY <1>5, <1>7 DEF NoKid, Kid
<1> HIDE DEF e
<1>9. /\ kids' \in [Iterations -> Kid] /\ ni \in Iterations /\ kids'[ni] = e
      /\ \A m \in Iterations \ {ni} : kids'[m] = kids[m]
  BY <1>2, <1>4, <1>8 DEF KidsInv, UnusedIn
<1>10. UnusedIn(kids') = UnusedIn(kids) \ {ni}
  BY <1>8, <1>9 DEF UnusedIn
<1>11. KidsInv'
  <2>1. ASSUME NEW n \in Iterations
        PROVE  /\ kids'[n].status = "unused" => ~kids'[n].descendant
               /\ kids'[n].status # "unused" => kids'[n].task \in used'
               /\ kids'[n].watched => kids'[n].status = "failed"
    <3>1. CASE n = ni
      BY <1>1, <1>5, <1>8, <1>9, <3>1
    <3>2. CASE n # ni
      BY <1>1, <1>9, <3>2 DEF KidsInv
    <3> QED
      BY <3>1, <3>2
  <2> QED
    BY <1>9, <2>1 DEF KidsInv
<1>12. ResumeInv'
  <2> SUFFICES ASSUME NEW m \in Iterations, kids'[m].resume # None
               PROVE  /\ kids'[m].resume \notin UnusedIn(kids')
                      /\ kids'[kids'[m].resume].prompt = kids'[m].prompt
    BY DEF ResumeInv, UnusedIn
  <2>1. CASE m = ni
    BY <1>2, <1>6, <1>8, <1>9, <1>10, <2>1
  <2>2. CASE m # ni
    <3>1. kids'[m] = kids[m] /\ kids[m].resume \in Iterations
      BY <1>9, <2>2 DEF KidsInv, Kid
    <3>2. kids[m].resume \notin UnusedIn(kids) /\ kids[kids[m].resume].prompt = kids[m].prompt
      BY <3>1 DEF ResumeInv
    <3>3. kids[m].resume # ni
      BY <1>2, <3>2
    <3> QED
      BY <1>9, <1>10, <3>1, <3>2, <3>3
  <2> QED
    BY <2>1, <2>2
<1>13. Evolves(kids, used, kids', used')
  BY <1>1, <1>2, <1>9, <1>10 DEF Evolves
<1> QED
  BY <1>2, <1>8, <1>9, <1>10, <1>11, <1>12, <1>13 DEF ni, entry

\* Iterations and ids are used up and nothing else, whoever moves.
LEMMA EvolvesStep ==
  ASSUME TaskInv, KidsInv, ResumeInv, [Next]_vars
  PROVE  /\ KidsInv' /\ ResumeInv' /\ Evolves(kids, used, kids', used')
         /\ SpawnIteration \/ Calmer(kids, kids')
<1>1. ASSUME kids' = kids, used \subseteq used'
      PROVE  /\ KidsInv' /\ ResumeInv' /\ Evolves(kids, used, kids', used')
             /\ Calmer(kids, kids')
  BY <1>1, SameEvolves DEF KidsInv, ResumeInv, UnusedIn, Calmer
<1>2. ASSUME NEW t \in Tasks, Command(t) \/ Fire(t) \/ ComesDue(t) \/ Expires(t)
      PROVE  kids' = kids /\ used \subseteq used'
  <2>1. CASE Command(t)
    BY <2>1 DEF Command, Create, Update, Delete, outside, history
  <2>2. CASE Fire(t)
    BY <2>2 DEF Fire, ExpireDurable, ExpirePlain, FireOneShot, FireForeground, FireLoop,
                outside, history
  <2>3. CASE ComesDue(t) \/ Expires(t)
    BY <2>3 DEF ComesDue, Expires, outside, history
  <2> QED
    BY <1>2, <2>1, <2>2, <2>3
<1>3. CASE RetryDelete
  BY <1>1, <1>3 DEF RetryDelete, outside, history
<1>4. CASE Answered
  <2>1. kids' = kids /\ used' = used
    BY <1>4, Zenon DEF Answered, Persisted, NotPersisted, Published, GuardQuery, GuardUnit, Skip,
                       outside, history
  <2> QED
    BY <1>1, <2>1
<1>5. CASE Alone
  <2>1. CASE Startup \/ SpawnUnsent \/ PersistTimeout \/ NotPublished \/ GuardUnanswered
    BY <1>1, <2>1 DEF Startup, SpawnUnsent, PersistTimeout, NotPublished, GuardUnanswered, Skip,
                      outside, history
  <2> QED
    BY <1>5, <2>1, SpawnKids DEF Alone
<1>6. ASSUME NEW n \in Iterations, Watcher(n) \/ Coordinator(n)
      PROVE  /\ KidsInv' /\ ResumeInv' /\ Evolves(kids, used, kids', used')
             /\ Calmer(kids, kids')
  BY <1>6, CoordinatorKids
<1>7. CASE CoordinatorCloses \/ Restart
  BY <1>7, OrphanedKids
<1>8. CASE WriterStep \/ ToolSave \/ TargetCloses \/ Shutdown \/ ProcessDies \/ PowerLoss
  BY <1>1, <1>8 DEF WriterStep, ToolSave, TargetCloses, Shutdown, ProcessDies, PowerLoss,
                    outside, history
<1>9. CASE UNCHANGED vars
  BY <1>1, <1>9 DEF vars, outside, history
<1> QED
  BY <1>1, <1>2, <1>3, <1>4, <1>5, <1>6, <1>7, <1>8, <1>9 DEF Next

------------------------------------------------------------------------------
(* The list of tasks, action by action *)

LEMMA CreateTasks ==
  ASSUME TaskInv, NEW t \in Tasks, Create(t)
  PROVE  /\ ListOK(tasks', kids', used') /\ Ids(tasks') = Ids(tasks) \cup {t} /\ t \notin used
         /\ kids' = kids /\ used' = used \cup {t}
         /\ \A i \in DOMAIN tasks' :
               tasks'[i] = NewTask(t) \/ \E j \in DOMAIN tasks : tasks'[i] = tasks[j]
<1>1. /\ t \notin used /\ kids' = kids /\ used' = used \cup {t}
      /\ tasks' = Append(tasks, NewTask(t)) /\ Len(tasks) < MAX_SCHEDULED_TASKS
  BY DEF Create, outside
<1>2. ListOK(tasks, kids, used) /\ ListOK(tasks, kids, used')
  BY <1>1, SameEvolves, ListKept DEF TaskInv, ListInv
<1>3. t \notin Ids(tasks)
  BY <1>1, <1>2 DEF Ids, ListOK, EntryOK
<1>4. EntryOK(NewTask(t), kids, used') /\ NewTask(t).id = t
  BY <1>1, NewTaskOK
<1>5. ListOK(tasks', kids, used') /\ Ids(tasks') = Ids(tasks) \cup {t}
  BY <1>1, <1>2, <1>3, <1>4, AppendedOK
<1>6. \A i \in DOMAIN tasks' :
         tasks'[i] = NewTask(t) \/ \E j \in DOMAIN tasks : tasks'[i] = tasks[j]
  <2>1. tasks \in Seq(Entry) /\ NewTask(t) \in Entry
    BY <1>2, <1>4 DEF ListOK, EntryOK
  <2> HIDE DEF NewTask
  <2> QED
    BY <1>1, <2>1
<1> QED
  BY <1>1, <1>5, <1>6

\* What Delete, an expiry and a one-shot do to the list.
LEMMA RemovedTasks ==
  ASSUME TaskInv, NEW t \in Ids(tasks), tasks' = Without(tasks, Position(t))
  PROVE  /\ ListOK(tasks', kids, used) /\ Ids(tasks') = Ids(tasks) \ {t}
         /\ Len(tasks') < MAX_SCHEDULED_TASKS /\ Position(t) \in 1..(Len(tasks') + 1)
         /\ \A i \in DOMAIN tasks' : \E j \in DOMAIN tasks : tasks'[i] = tasks[j]
         /\ EntryOK(Task(t), kids, used) /\ Task(t).id = t
<1>1. Position(t) \in DOMAIN tasks /\ tasks[Position(t)].id = t /\ Task(t) = tasks[Position(t)]
  BY PositionIs
<1>2. ListOK(tasks, kids, used)
  BY DEF TaskInv, ListInv
<1>3. /\ ListOK(tasks', kids, used) /\ Ids(tasks') = Ids(tasks) \ {t}
      /\ Len(tasks') = Len(tasks) - 1
      /\ \A i \in DOMAIN tasks' : \E j \in DOMAIN tasks : tasks'[i] = tasks[j]
  BY <1>1, <1>2, WithoutOK
<1>4. tasks \in Seq(Entry) /\ Len(tasks) <= MAX_SCHEDULED_TASKS /\ MAX_SCHEDULED_TASKS \in Nat
  BY <1>2, SchedulerAssumption DEF ListOK
<1>5. Len(tasks') < MAX_SCHEDULED_TASKS /\ Position(t) \in 1..(Len(tasks') + 1)
  BY <1>1, <1>3, <1>4
<1> QED
  BY <1>1, <1>2, <1>3, <1>5 DEF ListOK

LEMMA UpdateTasks ==
  ASSUME TaskInv, NEW t \in Tasks, Update(t)
  PROVE  /\ ListOK(tasks', kids, used) /\ Ids(tasks') = Ids(tasks)
         /\ \A i \in DOMAIN tasks' : \E j \in DOMAIN tasks :
               tasks'[i].id = tasks[j].id /\ tasks'[i].anchor = tasks[j].anchor
<1> DEFINE p == Position(t)
           e == [tasks[p] EXCEPT !.prompt = @ + 1, !.reset = TRUE, !.iters = 0]
<1>1. p \in DOMAIN tasks /\ tasks[p].id = t /\ Task(t) = tasks[p]
  BY PositionIs DEF Update
<1>2. ListOK(tasks, kids, used)
  BY DEF TaskInv, ListInv
<1>3. EntryOK(tasks[p], kids, used) /\ tasks \in Seq(Entry) /\ tasks[p] \in Entry
  BY <1>1, <1>2 DEF ListOK, EntryOK
<1>4. \/ tasks' = tasks
      \/ tasks[p].prompt < MaxPrompt /\ tasks' = [tasks EXCEPT ![p] = e]
  <2>1. PICK prompt \in BOOLEAN :
          /\ prompt => Task(t).prompt < MaxPrompt
          /\ tasks' = IF prompt
                        THEN [tasks EXCEPT ![p].prompt = @ + 1, ![p].reset = TRUE, ![p].iters = 0]
                        ELSE tasks
    BY DEF Update
  <2>2. [tasks EXCEPT ![p].prompt = @ + 1, ![p].reset = TRUE, ![p].iters = 0]
          = [tasks EXCEPT ![p] = e]
    BY <1>1, <1>3
  <2> HIDE DEF p
  <2> QED
    BY <1>1, <2>1, <2>2
<1> HIDE DEF p
<1>5. CASE tasks' = tasks
  BY <1>2, <1>5
<1>6. CASE tasks[p].prompt < MaxPrompt /\ tasks' = [tasks EXCEPT ![p] = e]
  <2>0. tasks[p].prompt + 1 \in 0..MaxPrompt /\ 0 \in 0..MaxIterations
    <3>1. tasks[p].prompt \in 0..MaxPrompt
      BY <1>3 DEF Entry
    <3> QED
      BY <1>6, <3>1, SchedulerAssumption
  <2>1. /\ e \in Entry /\ e.id = t /\ e.anchor = tasks[p].anchor /\ e.iters = 0 /\ e.reset = TRUE
    BY <1>1, <1>3, <2>0 DEF Entry
  <2> HIDE DEF e
  <2>2. EntryOK(e, kids, used)
    BY <1>1, <1>3, <2>1 DEF EntryOK, UnusedIn, Iterations
  <2>3. /\ DOMAIN tasks' = DOMAIN tasks /\ tasks' = [i \in DOMAIN tasks |-> tasks'[i]]
        /\ \A i \in DOMAIN tasks : tasks'[i] = IF i = p THEN e ELSE tasks[i]
    BY <1>6
  <2>4. \A i \in DOMAIN tasks : tasks'[i].id = tasks[i].id /\ EntryOK(tasks'[i], kids, used)
    BY <1>1, <1>2, <2>1, <2>2, <2>3 DEF ListOK
  <2>5. ListOK(tasks', kids, used) /\ Ids(tasks') = Ids(tasks)
    BY <1>2, <2>3, <2>4, RewrittenOK
  <2> QED
    BY <1>1, <2>1, <2>3, <2>5
<1> QED
  BY <1>4, <1>5, <1>6

\* An expired task that was not flushed goes back to its place.
LEMMA PutBackTasks ==
  ASSUME TaskInv, HandlerInv, NotPersisted
  PROVE  \/ job.why # "expiry" /\ tasks' = tasks
         \/ /\ job.why = "expiry" /\ ListOK(tasks', kids, used)
            /\ Ids(tasks') = Ids(tasks) \cup {job.entry.id}
            /\ job.entry.id \notin deleted /\ job.entry.id \in Tasks
            /\ \A i \in DOMAIN tasks' :
                  tasks'[i] = job.entry \/ \E j \in DOMAIN tasks : tasks'[i] = tasks[j]
<1>1. job.at \in Removing
  BY DEF NotPersisted, Removing
<1>2. CASE job.why # "expiry"
  BY <1>2 DEF NotPersisted
<1>3. CASE job.why = "expiry"
  <2>1. tasks' = Inserted(tasks, job.index, job.entry)
    BY <1>3 DEF NotPersisted
  <2>2. /\ ListOK(tasks, kids, used) /\ EntryOK(job.entry, kids, used)
        /\ job.entry.id \notin Ids(tasks) /\ Len(tasks) < MAX_SCHEDULED_TASKS
        /\ job.index \in 1..(Len(tasks) + 1) /\ job.entry.id \notin deleted
    BY <1>1, <1>3 DEF TaskInv, ListInv, JobInv
  <2>3. /\ ListOK(tasks', kids, used) /\ Ids(tasks') = Ids(tasks) \cup {job.entry.id}
        /\ \A i \in DOMAIN tasks' : tasks'[i] \in {job.entry} \cup {tasks[j] : j \in DOMAIN tasks}
    BY <2>1, <2>2, InsertedOK
  <2>4. job.entry.id \in Tasks
    BY <2>2 DEF EntryOK, Entry
  <2> QED
    BY <1>3, <2>2, <2>3, <2>4
<1> QED
  BY <1>2, <1>3

\* The entry whose iteration starts counts it and points at it.
LEMMA SpawnTasks ==
  ASSUME TaskInv, KidsInv, ResumeInv, SpawnIteration
  PROVE  /\ ListOK(tasks', kids', used') /\ Ids(tasks') = Ids(tasks)
         /\ DOMAIN tasks' = DOMAIN tasks
         /\ \A i \in DOMAIN tasks :
               \/ tasks'[i].id = job.entry.id /\ tasks'[i].anchor = NextIteration
               \/ tasks[i].id # job.entry.id /\ tasks'[i] = tasks[i]
<1> DEFINE id == job.entry.id
           p == Position(id)
           ni == NextIteration
           it == IF StartsFresh(job.entry, job.seen) THEN 1 ELSE job.entry.iters + 1
           e == [tasks[p] EXCEPT !.anchor = ni, !.reset = FALSE, !.iters = it]
<1>1. p \in DOMAIN tasks /\ tasks[p].id = id
  BY PositionIs DEF SpawnIteration
<1>2. ListOK(tasks, kids, used)
  BY DEF TaskInv, ListInv
<1>3. tasks \in Seq(Entry) /\ tasks[p] \in Entry /\ EntryOK(tasks[p], kids, used)
  BY <1>1, <1>2 DEF ListOK, EntryOK
<1>4. job.at \in Firing
  BY DEF SpawnIteration, Firing
<1>5. EntryOK(job.entry, kids, used) /\ tasks[p].prompt = job.entry.prompt
  BY <1>1, <1>4 DEF TaskInv, JobInv
<1>6. /\ ni \in UnusedIn(kids) /\ \A m \in UnusedIn(kids) : ni <= m
      /\ UnusedIn(kids') = UnusedIn(kids) \ {ni}
      /\ kids'[ni].prompt = job.entry.prompt
  BY SpawnKids
<1>7. Evolves(kids, used, kids', used')
  BY SpawnKids
<1>8. tasks' = [tasks EXCEPT ![p] = e]
  <2>1. tasks' = [tasks EXCEPT ![p].anchor = ni, ![p].reset = FALSE, ![p].iters = it]
    BY DEF SpawnIteration
  <2> HIDE DEF p, ni, it
  <2> QED
    BY <1>1, <1>3, <2>1
<1>9. ni \in Iterations /\ it \in 0..MaxIterations /\ it <= ni /\ ni \in Nat /\ it \in Nat
  <2>1. ni \in Iterations /\ ni \in Nat /\ 1 <= ni /\ ni <= MaxIterations /\ MaxIterations \in Nat
    BY <1>6, SchedulerAssumption DEF UnusedIn, Iterations
  <2>2. job.entry.iters \in Nat /\ job.entry.iters < ni
    BY <1>5, <1>6 DEF EntryOK, Entry
  <2> HIDE DEF ni
  <2> QED
    BY <2>1, <2>2
<1> HIDE DEF id, p, ni, it
<1>10. /\ e \in Entry /\ e.id = id /\ e.anchor = ni /\ e.iters = it
       /\ e.prompt = tasks[p].prompt
  BY <1>1, <1>3, <1>9 DEF Entry
<1> HIDE DEF e
<1>11. EntryOK(e, kids', used')
  <2>1. id \in used'
    BY <1>1, <1>3, <1>7 DEF EntryOK, Evolves
  <2>2. ASSUME NEW n \in UnusedIn(kids') PROVE it < n /\ ni < n
    <3>1. n \in UnusedIn(kids) /\ n # ni /\ n \in Nat /\ ni <= n
      BY <1>6, <2>2 DEF UnusedIn, Iterations
    <3> QED
      BY <1>9, <3>1
  <2> QED
    BY <1>5, <1>6, <1>10, <2>1, <2>2 DEF EntryOK
<1>12. /\ DOMAIN tasks' = DOMAIN tasks /\ tasks' = [i \in DOMAIN tasks |-> tasks'[i]]
       /\ \A i \in DOMAIN tasks : tasks'[i] = IF i = p THEN e ELSE tasks[i]
  BY <1>8
<1>13. ListOK(tasks, kids', used')
  BY <1>2, <1>7, ListKept
<1>14. \A i \in DOMAIN tasks : tasks'[i].id = tasks[i].id /\ EntryOK(tasks'[i], kids', used')
  BY <1>1, <1>10, <1>11, <1>12, <1>13 DEF ListOK
<1>15. ListOK(tasks', kids', used') /\ Ids(tasks') = Ids(tasks)
  BY <1>2, <1>12, <1>14, RewrittenOK
<1>16. \A i \in DOMAIN tasks : i # p => tasks[i].id # id
  BY <1>1, <1>2 DEF ListOK, Distinct
<1> QED
  BY <1>10, <1>12, <1>15, <1>16 DEF id, ni

LEMMA UnsentTasks ==
  ASSUME TaskInv, SpawnUnsent
  PROVE  /\ ListOK(tasks', kids, used) /\ Ids(tasks') = Ids(tasks)
         /\ DOMAIN tasks' = DOMAIN tasks
         /\ \A i \in DOMAIN tasks : tasks'[i] = job.entry \/ tasks'[i] = tasks[i]
<1> DEFINE id == job.entry.id
           p == Position(id)
<1>1. job.at \in Firing
  BY DEF SpawnUnsent, Firing
<1>2. ListOK(tasks, kids, used) /\ EntryOK(job.entry, kids, used) /\ id \in Ids(tasks)
  BY <1>1 DEF TaskInv, ListInv, JobInv
<1>3. p \in DOMAIN tasks /\ tasks[p].id = id
  BY <1>2, PositionIs
<1>4. tasks' = [tasks EXCEPT ![p] = job.entry]
  BY <1>2 DEF SpawnUnsent
<1> HIDE DEF p
<1>5. /\ DOMAIN tasks' = DOMAIN tasks /\ tasks' = [i \in DOMAIN tasks |-> tasks'[i]]
      /\ \A i \in DOMAIN tasks : tasks'[i] = IF i = p THEN job.entry ELSE tasks[i]
  <2>1. tasks \in Seq(Entry)
    BY <1>2 DEF ListOK
  <2> QED
    BY <1>4, <2>1
<1>6. \A i \in DOMAIN tasks : tasks'[i].id = tasks[i].id /\ EntryOK(tasks'[i], kids, used)
  BY <1>2, <1>3, <1>5 DEF ListOK
<1>7. ListOK(tasks', kids, used) /\ Ids(tasks') = Ids(tasks)
  BY <1>2, <1>5, <1>6, RewrittenOK
<1> QED
  BY <1>5, <1>7

LEMMA WatcherTasks ==
  ASSUME TaskInv, KidsInv, ResumeInv, NEW n \in Iterations, Watcher(n)
  PROVE  /\ ListOK(tasks', kids', used') /\ Ids(tasks') = Ids(tasks)
         /\ DOMAIN tasks' = DOMAIN tasks /\ Len(tasks') = Len(tasks)
         /\ \A i \in DOMAIN tasks :
               /\ tasks'[i].id = tasks[i].id /\ tasks'[i].prompt = tasks[i].prompt
               /\ \/ tasks[i].anchor = n /\ tasks'[i].anchor = None
                  \/ tasks'[i].anchor = tasks[i].anchor
<1>1. ListOK(tasks, kids, used)
  BY DEF TaskInv, ListInv
<1>2. Evolves(kids, used, kids', used')
  BY CoordinatorKids
<1>3. tasks \in Seq(Entry) /\ ListOK(tasks, kids', used')
  BY <1>1, <1>2, ListKept DEF ListOK
<1>4. tasks' = [i \in DOMAIN tasks |->
                  IF tasks[i].anchor = n
                    THEN [tasks[i] EXCEPT !.anchor = None, !.iters = 0] ELSE tasks[i]]
  BY DEF Watcher
<1>5. ASSUME NEW i \in DOMAIN tasks
      PROVE  /\ tasks'[i].id = tasks[i].id /\ tasks'[i].prompt = tasks[i].prompt
             /\ EntryOK(tasks'[i], kids', used')
             /\ \/ tasks[i].anchor = n /\ tasks'[i].anchor = None
                \/ tasks'[i].anchor = tasks[i].anchor
  <2>1. CASE tasks[i].anchor # n
    BY <1>3, <1>4, <2>1 DEF ListOK
  <2>2. CASE tasks[i].anchor = n
    <3> DEFINE e == [tasks[i] EXCEPT !.anchor = None, !.iters = 0]
    <3>0. tasks'[i] = e
      BY <1>4, <2>2
    <3>1. tasks[i] \in Entry /\ EntryOK(tasks[i], kids', used')
      BY <1>3 DEF ListOK, EntryOK
    <3>2. /\ e \in Entry /\ e.id = tasks[i].id /\ e.prompt = tasks[i].prompt
          /\ e.anchor = None /\ e.iters = 0
      <4>1. 0 \in 0..MaxIterations
        BY SchedulerAssumption
      <4> QED
        BY <3>1, <4>1 DEF Entry
    <3> HIDE DEF e
    <3>3. EntryOK(e, kids', used')
      BY <3>1, <3>2 DEF EntryOK, UnusedIn, Iterations, None
    <3> QED
      BY <2>2, <3>0, <3>2, <3>3
  <2> QED
    BY <2>1, <2>2
<1>6. DOMAIN tasks' = DOMAIN tasks /\ tasks' = [i \in DOMAIN tasks |-> tasks'[i]]
  BY <1>4
<1>7. ListOK(tasks', kids', used') /\ Ids(tasks') = Ids(tasks) /\ Len(tasks') = Len(tasks)
  BY <1>1, <1>5, <1>6, RewrittenOK
<1> QED
  BY <1>5, <1>6, <1>7

\* The list stays good, and what comes on it is new, was being removed, or is loaded.
LEMMA TasksStep ==
  ASSUME TaskInv, HandlerInv, KidsInv, ResumeInv, [Next]_vars
  PROVE  /\ ListOK(tasks', kids', used')
         /\ \A x \in Ids(tasks') : x \in Ids(tasks) \/ x \notin deleted \/ tasks' = file
<1> DEFINE Goal == /\ ListOK(tasks', kids', used')
                   /\ \A x \in Ids(tasks') : x \in Ids(tasks) \/ x \notin deleted \/ tasks' = file
<1>0. ListOK(tasks, kids', used') /\ ListOK(file, kids', used')
  BY EvolvesStep, ListKept DEF TaskInv, ListInv, Snapshots
<1>1. ASSUME tasks' = tasks PROVE Goal
  BY <1>0, <1>1
<1>2. ASSUME NEW t \in Ids(tasks), tasks' = Without(tasks, Position(t)), kids' = kids, used' = used
      PROVE  Goal
  BY <1>2, RemovedTasks
<1>3. ASSUME NEW t \in Tasks, Create(t) PROVE Goal
  BY <1>3, CreateTasks DEF TaskInv, PlainInv
<1>4. ASSUME NEW t \in Tasks, Update(t) PROVE Goal
  <2>1. kids' = kids /\ used' = used
    BY <1>4 DEF Update, outside, history
  <2> QED
    BY <1>4, <2>1, UpdateTasks
<1>5. ASSUME NEW t \in Tasks, Delete(t) PROVE Goal
  BY <1>2, <1>5 DEF Delete, outside, history
<1>6. ASSUME NEW t \in Tasks, Fire(t) PROVE Goal
  <2>1. t \in Ids(tasks) /\ kids' = kids /\ used' = used
    BY <1>6 DEF Fire, ExpireDurable, ExpirePlain, FireOneShot, FireForeground, FireLoop, Chosen,
                outside, history
  <2>2. tasks' = tasks \/ tasks' = Without(tasks, Position(t))
    BY <1>6 DEF Fire, ExpireDurable, ExpirePlain, FireOneShot, FireForeground, FireLoop
  <2> QED
    BY <1>1, <1>2, <2>1, <2>2
<1>7. ASSUME NEW t \in Tasks, ComesDue(t) \/ Expires(t) PROVE Goal
  BY <1>1, <1>7 DEF ComesDue, Expires
<1>8. CASE RetryDelete
  BY <1>1, <1>8 DEF RetryDelete
<1>9. CASE Answered
  <2>1. CASE NotPersisted
    <3>1. kids' = kids /\ used' = used
      BY <2>1 DEF NotPersisted, outside, history
    <3> QED
      BY <1>1, <2>1, <3>1, PutBackTasks
  <2>2. CASE Persisted \/ Published \/ GuardQuery \/ GuardUnit
    <3>1. tasks' = tasks
      BY <2>2, Zenon DEF Persisted, Published, GuardQuery, GuardUnit, Skip
    <3> QED
      BY <1>1, <3>1
  <2> QED
    BY <1>9, <2>1, <2>2 DEF Answered
<1>10. CASE Alone
  <2>1. CASE SpawnIteration
    BY <2>1, SpawnTasks
  <2>2. CASE SpawnUnsent
    <3>1. kids' = kids /\ used' = used
      BY <2>2 DEF SpawnUnsent, outside, history
    <3> QED
      BY <2>2, <3>1, UnsentTasks
  <2>3. CASE Startup \/ PersistTimeout \/ NotPublished \/ GuardUnanswered
    BY <1>1, <2>3 DEF Startup, PersistTimeout, NotPublished, GuardUnanswered, Skip
  <2> QED
    BY <1>10, <2>1, <2>2, <2>3 DEF Alone
<1>11. ASSUME NEW n \in Iterations, Watcher(n) PROVE Goal
  BY <1>11, WatcherTasks
<1>12. ASSUME NEW n \in Iterations, Coordinator(n) PROVE Goal
  BY <1>1, <1>12 DEF Coordinator, IterationEnds, DescendantStarts, DescendantEnds,
                     IterationForgotten, Others, sched
<1>13. CASE WriterStep \/ ToolSave \/ TargetCloses \/ CoordinatorCloses
  BY <1>1, <1>13 DEF WriterStep, ToolSave, TargetCloses, CoordinatorCloses, sched
<1>14. CASE Shutdown \/ ProcessDies \/ PowerLoss
  BY <1>1, <1>14 DEF Shutdown, ProcessDies, PowerLoss
<1>15. CASE Restart
  BY <1>0, <1>15 DEF Restart
<1>16. CASE UNCHANGED vars
  BY <1>1, <1>16 DEF vars, sched
<1> QED
  BY <1>3, <1>4, <1>5, <1>6, <1>7, <1>8, <1>9, <1>10, <1>11, <1>12, <1>13, <1>14, <1>15, <1>16
     DEF Next, Command

\* The writer gets the list as it is, or as the step leaves it, and nothing else.
LEMMA StoresStep ==
  ASSUME TaskInv, HandlerInv, KidsInv, ResumeInv, [Next]_vars
  PROVE  /\ chan' \in Seq(Message) /\ file' \in disk'
         /\ \A s \in Snapshots' : s \in Snapshots \/ s \in {<<>>, tasks, tasks'}
<1> DEFINE Goal == /\ chan' \in Seq(Message) /\ file' \in disk'
                   /\ \A s \in Snapshots' : s \in Snapshots \/ s \in {<<>>, tasks, tasks'}
<1>0. /\ chan \in Seq(Message) /\ file \in disk
      /\ tasks \in Seq(Entry) /\ tasks' \in Seq(Entry)
  BY TasksStep DEF TaskInv, ListInv, ListOK
<1>1. ASSUME UNCHANGED writer PROVE Goal
  BY <1>0, <1>1 DEF writer, Snapshots
<1>2. ASSUME DropReceipt PROVE Goal
  BY <1>0, <1>2, DropStores
<1>3. ASSUME NEW why, NEW entry, NEW index, Persist(why, entry, index, tasks')
      PROVE  Goal
  BY <1>0, <1>3, SendStores DEF Persist
<1>4. ASSUME NEW t \in Tasks, Command(t) PROVE Goal
  BY <1>1, <1>3, <1>4 DEF Command, Create, Update, Delete
<1>5. ASSUME NEW t \in Tasks, Fire(t) PROVE Goal
  BY <1>1, <1>3, <1>5 DEF Fire, ExpireDurable, ExpirePlain, FireOneShot, FireForeground, FireLoop
<1>6. ASSUME NEW t \in Tasks, ComesDue(t) \/ Expires(t) PROVE Goal
  BY <1>1, <1>6 DEF ComesDue, Expires
<1>7. CASE RetryDelete
  <2>1. tasks' = tasks
    BY <1>7 DEF RetryDelete
  <2>2. CASE target
    <3>1. Persist("delete", NewTask(pending.id), 0, tasks')
      BY <1>7, <2>1, <2>2 DEF RetryDelete
    <3> QED
      BY <1>3, <3>1
  <2> QED
    BY <1>1, <1>7, <2>2 DEF RetryDelete
<1>8. CASE Answered
  <2>1. CASE Persisted \/ NotPersisted
    BY <1>2, <2>1 DEF Persisted, NotPersisted
  <2>2. CASE Published \/ GuardQuery \/ GuardUnit
    <3>1. UNCHANGED writer
      BY <2>2, Zenon DEF Published, GuardQuery, GuardUnit, Skip
    <3> QED
      BY <1>1, <3>1
  <2> QED
    BY <1>8, <2>1, <2>2 DEF Answered
<1>9. CASE Alone
  BY <1>1, <1>2, <1>9 DEF Alone, Startup, SpawnIteration, SpawnUnsent, PersistTimeout,
                          NotPublished, GuardUnanswered, Skip
<1>10. ASSUME NEW n \in Iterations, Watcher(n) \/ Coordinator(n) PROVE Goal
  BY <1>1, <1>10 DEF Watcher, Coordinator, IterationEnds, DescendantStarts, DescendantEnds,
                     IterationForgotten, Others
<1>11. CASE WriterStep
  BY <1>0, <1>11, WriterStores DEF WriterStep
<1>12. CASE ToolSave
  <2>1. Save(tasks)
    BY <1>12 DEF ToolSave
  <2> QED
    BY <1>0, <2>1, SendStores
<1>13. CASE Shutdown
  BY <1>2, <1>13 DEF Shutdown
<1>14. CASE ProcessDies \/ PowerLoss
  BY <1>0, <1>14, LossStores DEF ProcessDies, PowerLoss
<1>15. CASE TargetCloses \/ CoordinatorCloses \/ Restart
  BY <1>1, <1>15 DEF TargetCloses, CoordinatorCloses, Restart
<1>16. CASE UNCHANGED vars
  BY <1>1, <1>16 DEF vars
<1> QED
  BY <1>4, <1>5, <1>6, <1>7, <1>8, <1>9, <1>10, <1>11, <1>12, <1>13, <1>14, <1>15, <1>16 DEF Next

LEMMA ListStep ==
  ASSUME TaskInv, HandlerInv, KidsInv, ResumeInv, [Next]_vars
  PROVE  ListInv'
<1>1. ASSUME NEW s \in Snapshots' PROVE ListOK(s, kids', used')
  BY TasksStep, StoresStep, EvolvesStep, ListKept, EmptyOK DEF TaskInv, ListInv
<1> QED
  BY <1>1, TasksStep, StoresStep DEF ListInv

------------------------------------------------------------------------------
(* What a handler carries *)

LEMMA JobAway ==
  ASSUME TaskInv, job'.at \notin Removing \cup Firing,
         pending' = NoRemoval
           \/ (pending' = pending /\ used \subseteq used' /\ Ids(tasks') = Ids(tasks))
  PROVE  JobInv'
<1>1. job'.at \notin Removing /\ job'.at \notin Firing /\ job'.at \notin {"query", "unit"}
  BY DEF Firing
<1>2. pending' # NoRemoval => pending'.id \in used' /\ pending'.id \notin Ids(tasks')
  BY DEF TaskInv, JobInv
<1> QED
  BY <1>1, <1>2 DEF JobInv

\* Steps of others while a handler waits, and steps that take it on.
LEMMA JobAround ==
  ASSUME TaskInv, Evolves(kids, used, kids', used'), UnusedIn(kids') = UnusedIn(kids),
         pending' = pending, deleted' = deleted,
         Ids(tasks') = Ids(tasks), Len(tasks') = Len(tasks), DOMAIN tasks' = DOMAIN tasks,
         \A i \in DOMAIN tasks : tasks'[i].id = tasks[i].id /\ tasks'[i].prompt = tasks[i].prompt,
         job'.entry = job.entry, job'.why = job.why, job'.index = job.index,
         job'.at \in Removing <=> job.at \in Removing,
         job'.at \in Firing <=> job.at \in Firing,
         job'.at \in {"query", "unit"} => job.at \in {"query", "unit"}
  PROVE  JobInv'
<1>1. used \subseteq used'
  BY DEF Evolves
<1>2. job'.at \in Removing \cup Firing => EntryOK(job'.entry, kids', used')
  BY EntryKept DEF TaskInv, JobInv
<1>3. job'.at \in Removing => job'.entry.id \notin Ids(tasks')
  BY DEF TaskInv, JobInv
<1>5. job'.at \in Removing /\ job'.why = "expiry" =>
        /\ Len(tasks') < MAX_SCHEDULED_TASKS /\ job'.index \in 1..(Len(tasks') + 1)
        /\ job'.entry.id \notin deleted'
  BY DEF TaskInv, JobInv
<1>6. job'.at \in Firing =>
        /\ UnusedIn(kids') # {} /\ job'.entry.id \in Ids(tasks')
        /\ \A i \in DOMAIN tasks' :
              tasks'[i].id = job'.entry.id => tasks'[i].prompt = job'.entry.prompt
  BY DEF TaskInv, JobInv
<1>7. job'.at \in {"query", "unit"} => job'.entry.anchor # None
  BY DEF TaskInv, JobInv
<1>8. pending' # NoRemoval => pending'.id \in used' /\ pending'.id \notin Ids(tasks')
  BY <1>1 DEF TaskInv, JobInv
<1> QED
  BY <1>2, <1>3, <1>5, <1>6, <1>7, <1>8 DEF JobInv, UnusedIn

LEMMA PersistFields ==
  ASSUME NEW why, NEW entry, NEW index, NEW list, Persist(why, entry, index, list)
  PROVE  /\ job'.at = "persist" /\ job'.why = why /\ job'.entry = entry /\ job'.index = index
         /\ EnqueueSaveAndFlush(list)
BY DEF Persist, NoJob

\* A removal begins.
LEMMA JobRemoval ==
  ASSUME job'.at = "persist", job'.why \in {"delete", "expiry"},
         EntryOK(job'.entry, kids', used'), job'.entry.id \notin Ids(tasks'),
         pending' = NoRemoval \/ pending'.id = job'.entry.id,
         job'.why = "expiry" =>
           /\ Len(tasks') < MAX_SCHEDULED_TASKS /\ job'.index \in 1..(Len(tasks') + 1)
           /\ job'.entry.id \notin deleted'
  PROVE  JobInv'
BY DEF JobInv, Removing, Firing, EntryOK

LEMMA RemovalJob ==
  ASSUME TaskInv, GoneInv, NEW t \in Tasks, Delete(t) \/ (ExpireDurable(t) /\ target) \/ (RetryDelete /\ target)
  PROVE  JobInv' /\ job'.at = "persist" /\ job.at = "loop" /\ EnqueueSaveAndFlush(tasks')
         /\ kids' = kids /\ used' = used /\ deleted' = deleted /\ UNCHANGED replay
<1>1. /\ kids' = kids /\ used' = used /\ deleted' = deleted /\ UNCHANGED replay /\ job.at = "loop"
  BY DEF Delete, ExpireDurable, RetryDelete, outside, history, Chosen, Idle
<1>2. CASE Delete(t)
  <2>1. /\ t \in Ids(tasks) /\ tasks' = Without(tasks, Position(t))
        /\ pending' = [id |-> t, source |-> clock]
        /\ Persist("delete", Task(t), Position(t), tasks')
    BY <1>2 DEF Delete
  <2>2. /\ job'.at = "persist" /\ job'.why = "delete" /\ job'.entry = Task(t)
        /\ EnqueueSaveAndFlush(tasks')
    BY <2>1, PersistFields
  <2>3. EntryOK(Task(t), kids, used) /\ Task(t).id = t /\ t \notin Ids(tasks')
    BY <2>1, RemovedTasks
  <2>4. pending'.id = t
    BY <2>1
  <2> QED
    BY <1>1, <2>2, <2>3, <2>4, JobRemoval
<1>3. CASE ExpireDurable(t) /\ target
  <2>1. /\ t \in Ids(tasks) /\ tasks' = Without(tasks, Position(t)) /\ pending' = NoRemoval
        /\ Persist("expiry", Task(t), Position(t), tasks')
    BY <1>3 DEF ExpireDurable, Chosen
  <2>2. /\ job'.at = "persist" /\ job'.why = "expiry" /\ job'.entry = Task(t)
        /\ job'.index = Position(t) /\ EnqueueSaveAndFlush(tasks')
    BY <2>1, PersistFields
  <2>3. /\ EntryOK(Task(t), kids, used) /\ Task(t).id = t /\ t \notin Ids(tasks')
        /\ Len(tasks') < MAX_SCHEDULED_TASKS /\ Position(t) \in 1..(Len(tasks') + 1)
    BY <2>1, RemovedTasks
  <2>4. t \notin deleted
    BY <2>1 DEF GoneInv
  <2> QED
    BY <1>1, <2>1, <2>2, <2>3, <2>4, JobRemoval
<1>4. CASE RetryDelete /\ target
  <2>1. /\ pending # NoRemoval /\ pending' = pending /\ tasks' = tasks
        /\ Persist("delete", NewTask(pending.id), 0, tasks')
    BY <1>4 DEF RetryDelete
  <2>2. /\ job'.at = "persist" /\ job'.why = "delete" /\ job'.entry = NewTask(pending.id)
        /\ EnqueueSaveAndFlush(tasks')
    BY <2>1, PersistFields
  <2>3. pending.id \in used /\ pending.id \notin Ids(tasks) /\ pending.id \in Tasks
    BY <2>1 DEF TaskInv, JobInv, PlainInv
  <2>4. EntryOK(NewTask(pending.id), kids, used) /\ NewTask(pending.id).id = pending.id
    BY <2>3, NewTaskOK
  <2> QED
    BY <1>1, <2>1, <2>2, <2>3, <2>4, JobRemoval
<1> QED
  BY <1>2, <1>3, <1>4

LEMMA CalmerUnused ==
  ASSUME NEW k, NEW k2, Calmer(k, k2)
  PROVE  UnusedIn(k2) = UnusedIn(k)
BY DEF Calmer, UnusedIn

LEMMA FireLoopJob ==
  ASSUME TaskInv, NEW t \in Tasks, Unused # {}, FireLoop(t)
  PROVE  /\ JobInv' /\ job'.at \in {"query", "spawn"} /\ t \in Ids(tasks)
         /\ job'.entry = Task(t) /\ Task(t) = tasks[Position(t)]
         /\ Position(t) \in DOMAIN tasks /\ Task(t).id = t
         /\ job'.at = "spawn" => Task(t).anchor = None
<1>1. /\ t \in Ids(tasks) /\ pending = NoRemoval
      /\ tasks' = tasks /\ kids' = kids /\ used' = used /\ pending' = pending
      /\ job' = [NoJob EXCEPT !.at = IF Task(t).anchor # None THEN "query" ELSE "spawn",
                              !.why = "fire", !.entry = Task(t), !.source = clock]
  BY DEF FireLoop, Chosen, outside, history
<1>2. /\ job'.at = IF Task(t).anchor # None THEN "query" ELSE "spawn"
      /\ job'.entry = Task(t)
  BY <1>1 DEF NoJob
<1>3. /\ Position(t) \in DOMAIN tasks /\ tasks[Position(t)].id = t
      /\ Task(t) = tasks[Position(t)]
  BY <1>1, PositionIs
<1>4. ListOK(tasks, kids, used)
  BY DEF TaskInv, ListInv
<1>5. EntryOK(Task(t), kids, used) /\ UnusedIn(kids) # {}
  BY <1>3, <1>4 DEF ListOK, Unused, UnusedIn
<1>6. \A i \in DOMAIN tasks : tasks[i].id = t => tasks[i].prompt = Task(t).prompt
  BY <1>3, <1>4 DEF ListOK, Distinct
<1>7. JobInv'
  BY <1>1, <1>2, <1>3, <1>5, <1>6 DEF JobInv, Removing, Firing
<1> QED
  BY <1>1, <1>2, <1>3, <1>7

LEMMA JobStep ==
  ASSUME TaskInv, ReservationInv, GoneInv, KidsInv, ResumeInv, [Next]_vars
  PROVE  JobInv'
<1>0. Evolves(kids, used, kids', used') /\ used \subseteq used' /\ HandlerInv
  BY EvolvesStep DEF Evolves, ReservationInv
<1>1. ASSUME tasks' = tasks, pending' = pending, deleted' = deleted, job' = job,
             Calmer(kids, kids')
      PROVE  JobInv'
  BY <1>0, <1>1, JobAround, CalmerUnused
<1>2. ASSUME NEW at \in {"start", "loop", "stopped"}, job' = [NoJob EXCEPT !.at = at],
             pending' = NoRemoval \/ (pending' = pending /\ tasks' = tasks)
      PROVE  JobInv'
  BY <1>0, <1>2, JobFields, JobAway DEF Removing, Firing
<1>3. ASSUME job' = NoJob \/ (job' = job /\ job.at = "loop"),
             pending' = NoRemoval \/ (pending' = pending /\ Ids(tasks') = Ids(tasks))
      PROVE  JobInv'
  BY <1>0, <1>3, JobFields, JobAway DEF Removing, Firing
<1>4. ASSUME NEW t \in Tasks, Command(t) PROVE JobInv'
  <2>1. CASE Create(t) \/ Update(t)
    BY <1>3, <2>1 DEF Create, Update, Idle
  <2>2. CASE Delete(t)
    BY <2>2, RemovalJob
  <2> QED
    BY <1>4, <2>1, <2>2 DEF Command
<1>5. ASSUME NEW t \in Tasks, Fire(t) PROVE JobInv'
  <2>1. CASE ExpireDurable(t) /\ target
    BY <2>1, RemovalJob
  <2>2. CASE Unused # {} /\ FireLoop(t)
    BY <2>2, FireLoopJob
  <2>3. CASE (ExpireDurable(t) /\ ~target) \/ ExpirePlain(t) \/ FireOneShot(t) \/ FireForeground(t)
    BY <1>3, <2>3 DEF ExpireDurable, ExpirePlain, FireOneShot, FireForeground, Chosen, Idle
  <2> QED
    BY <1>5, <2>1, <2>2, <2>3 DEF Fire
<1>6. ASSUME NEW t \in Tasks, ComesDue(t) \/ Expires(t) PROVE JobInv'
  <2>1. /\ tasks' = tasks /\ pending' = pending /\ deleted' = deleted /\ job' = job
        /\ kids' = kids
    BY <1>6 DEF ComesDue, Expires, outside, history
  <2> QED
    BY <1>1, <2>1 DEF Calmer
<1>7. CASE RetryDelete
  <2>1. CASE target
    <3>1. pending.id \in Tasks
      BY <1>7 DEF RetryDelete, TaskInv, JobInv, PlainInv
    <3> QED
      BY <1>7, <2>1, <3>1, RemovalJob
  <2>2. CASE ~target
    BY <1>3, <1>7, <2>2 DEF RetryDelete, Idle
  <2> QED
    BY <2>1, <2>2
<1>8. CASE Answered
  <2>1. ASSUME Persisted PROVE JobInv'
    <3>1. /\ tasks' = tasks /\ pending' = pending /\ deleted' = deleted /\ kids' = kids
          /\ job.at = "persist" /\ job' = [job EXCEPT !.at = "publish"]
      BY <2>1 DEF Persisted, outside, history
    <3>2. /\ job'.at = "publish" /\ job'.entry = job.entry /\ job'.why = job.why
          /\ job'.index = job.index
      BY <3>1
    <3> QED
      BY <1>0, <3>1, <3>2, JobAround DEF Removing, Firing
  <2>2. ASSUME NotPersisted PROVE JobInv'
    <3>1. job' = NoJob /\ pending' = pending /\ job.at = "persist"
      BY <2>2 DEF NotPersisted, Return
    <3>2. CASE job.why # "expiry"
      BY <1>0, <1>3, <2>2, <3>1, <3>2, PutBackTasks
    <3>3. CASE job.why = "expiry"
      <4>1. pending = NoRemoval
        BY <1>0, <3>1, <3>3 DEF HandlerInv, Removing
      <4> QED
        BY <1>3, <3>1, <4>1
    <3> QED
      BY <3>2, <3>3
  <2>3. ASSUME Published PROVE JobInv'
    <3>1. job' = NoJob /\ tasks' = tasks /\ (pending' = NoRemoval \/ pending' = pending)
      BY <2>3 DEF Published, Return
    <3> QED
      BY <1>3, <3>1
  <2>4. ASSUME Skip PROVE JobInv'
    BY <1>3, <2>4 DEF Skip, Return
  <2>5. ASSUME GuardQuery, ~Skip PROVE JobInv'
    <3>1. PICK seen :
            /\ tasks' = tasks /\ pending' = pending /\ UNCHANGED history /\ UNCHANGED outside
            /\ job.at = "query" /\ job' = [job EXCEPT !.at = "unit", !.seen = seen]
      BY <2>5, Zenon DEF GuardQuery
    <3>2. /\ job'.at = "unit" /\ job'.entry = job.entry /\ job'.why = job.why
          /\ job'.index = job.index
      BY <3>1
    <3>3. kids' = kids /\ deleted' = deleted
      BY <3>1 DEF outside, history
    <3> QED
      BY <1>0, <3>1, <3>2, <3>3, JobAround DEF Removing, Firing
  <2>6. ASSUME GuardUnit, ~Skip PROVE JobInv'
    <3>1. /\ tasks' = tasks /\ pending' = pending /\ UNCHANGED history /\ UNCHANGED outside
          /\ job.at = "unit" /\ job' = [job EXCEPT !.at = "spawn"]
      BY <2>6, Zenon DEF GuardUnit
    <3>2. /\ job'.at = "spawn" /\ job'.entry = job.entry /\ job'.why = job.why
          /\ job'.index = job.index
      BY <3>1
    <3>3. kids' = kids /\ deleted' = deleted
      BY <3>1 DEF outside, history
    <3> QED
      BY <1>0, <3>1, <3>2, <3>3, JobAround DEF Removing, Firing
  <2> QED
    BY <1>8, <2>1, <2>2, <2>3, <2>4, <2>5, <2>6 DEF Answered
<1>9. CASE Alone
  <2>1. CASE Startup \/ PersistTimeout \/ NotPublished \/ GuardUnanswered
    BY <1>3, <2>1 DEF Startup, PersistTimeout, NotPublished, GuardUnanswered, Skip, Return
  <2>2. CASE SpawnIteration
    BY <1>3, <2>2, SpawnTasks DEF SpawnIteration, Return
  <2>3. CASE SpawnUnsent
    BY <1>3, <2>3, UnsentTasks DEF SpawnUnsent, Return
  <2> QED
    BY <1>9, <2>1, <2>2, <2>3 DEF Alone
<1>10. ASSUME NEW n \in Iterations, Watcher(n) PROVE JobInv'
  <2>1. job' = job /\ pending' = pending /\ deleted' = deleted
    BY <1>10 DEF Watcher, history
  <2>2. UnusedIn(kids') = UnusedIn(kids)
    BY <1>10, CoordinatorKids, CalmerUnused
  <2> QED
    BY <1>0, <1>10, <2>1, <2>2, WatcherTasks, JobAround
<1>11. ASSUME NEW n \in Iterations, Coordinator(n) PROVE JobInv'
  <2>1. tasks' = tasks /\ pending' = pending /\ deleted' = deleted /\ job' = job
    BY <1>11 DEF Coordinator, IterationEnds, DescendantStarts, DescendantEnds,
                 IterationForgotten, Others, sched, history
  <2> QED
    BY <1>1, <1>11, <2>1, CoordinatorKids
<1>12. CASE CoordinatorCloses
  BY <1>1, <1>12, OrphanedKids DEF CoordinatorCloses, sched, history
<1>13. CASE WriterStep \/ ToolSave \/ TargetCloses \/ UNCHANGED vars
  <2>1. /\ tasks' = tasks /\ pending' = pending /\ deleted' = deleted /\ job' = job
        /\ kids' = kids
    BY <1>13 DEF WriterStep, ToolSave, TargetCloses, vars, sched, history, outside
  <2> QED
    BY <1>1, <2>1 DEF Calmer
<1>14. CASE Shutdown \/ ProcessDies \/ PowerLoss
  BY <1>2, <1>14 DEF Shutdown, ProcessDies, PowerLoss
<1>15. CASE Restart
  BY <1>2, <1>15 DEF Restart
<1> QED
  BY <1>4, <1>5, <1>6, <1>7, <1>8, <1>9, <1>10, <1>11, <1>12, <1>13, <1>14, <1>15 DEF Next

------------------------------------------------------------------------------
(* The clock and the log *)

LEMMA ClockBounded ==
  ASSUME PlainInv, NEW count \in Nat, count <= MaxRevision, clock' = prepare_transition(count)
  PROVE  clock' \in {0, 1} \X (0..MaxRevision)
<1>1. /\ clock = <<clock[1], clock[2]>> /\ clock[1] \in {0, 1} /\ clock[2] \in 0..MaxRevision
      /\ MaxRevision \in Nat
  BY SchedulerAssumption DEF PlainInv
<1>2. 1 - clock[1] \in {0, 1}
  BY <1>1
<1>3. CASE clock[2] + count > MaxRevision
  <2>1. clock' = <<1 - clock[1], count>>
    BY <1>3 DEF prepare_transition
  <2> QED
    BY <1>1, <1>2, <2>1
<1>4. CASE ~(clock[2] + count > MaxRevision)
  <2>1. clock' = <<clock[1], clock[2] + count>>
    BY <1>4 DEF prepare_transition
  <2> QED
    BY <1>1, <1>4, <2>1
<1> QED
  BY <1>3, <1>4

\* What the log may show: what it shows, less something, or more of what is announced.
LEMMA SentCreated ==
  ASSUME PlainInv, NEW ids, SendCreated(ids)
  PROVE  /\ log' = log \cup ids /\ log' \in logDisk'
         /\ \A shown \in logDisk' : \E old \in logDisk : shown \subseteq old \cup ids
<1>1. log' = log \cup ids /\ logDisk' = logDisk \cup {log \cup part : part \in SUBSET ids}
  BY DEF SendCreated
<1>2. log \cup ids \in {log \cup part : part \in SUBSET ids}
  OBVIOUS
<1>3. log \in logDisk
  BY DEF PlainInv
<1>4. \A shown \in logDisk' : shown \in logDisk \/ shown \subseteq log \cup ids
  BY <1>1
<1> QED
  BY <1>1, <1>2, <1>3, <1>4

LEMMA SentRemoved ==
  ASSUME PlainInv, NEW ids, SendRemoved(ids)
  PROVE  /\ log' = log \ ids /\ log' \in logDisk'
         /\ \A shown \in logDisk' : \E old \in logDisk : shown \subseteq old
<1>1. log' = log \ ids /\ logDisk' = logDisk \cup {log \ part : part \in SUBSET ids}
  BY DEF SendRemoved
<1>2. log \ ids \in {log \ part : part \in SUBSET ids}
  OBVIOUS
<1>3. log \in logDisk
  BY DEF PlainInv
<1>4. \A shown \in logDisk' : shown \in logDisk \/ shown \subseteq log
  BY <1>1
<1> QED
  BY <1>1, <1>2, <1>3, <1>4

LEMMA LogStep ==
  ASSUME TaskInv, HandlerInv, KidsInv, ResumeInv, [Next]_vars
  PROVE  /\ log' \in logDisk' /\ used' \subseteq Tasks
         /\ \A shown \in logDisk' : \E old \in logDisk :
               shown \subseteq old \cup (used' \ used) \cup Ids(tasks)
<1> DEFINE Goal == /\ log' \in logDisk' /\ used' \subseteq Tasks
                   /\ \A shown \in logDisk' : \E old \in logDisk :
                         shown \subseteq old \cup (used' \ used) \cup Ids(tasks)
<1>0. PlainInv /\ log \in logDisk /\ used \subseteq Tasks
  BY DEF TaskInv, PlainInv
<1>1. ASSUME used' = used, UNCHANGED replay PROVE Goal
  BY <1>0, <1>1 DEF replay
<1>2. ASSUME used' = used, NEW ids, SendRemoved(ids) PROVE Goal
  BY <1>0, <1>2, SentRemoved
<1>3. ASSUME used' \subseteq Tasks, NEW ids, ids \subseteq Ids(tasks) \cup (used' \ used), SendCreated(ids)
      PROVE  Goal
  <2>1. /\ log' \in logDisk'
        /\ \A shown \in logDisk' : \E old \in logDisk : shown \subseteq old \cup ids
    BY <1>0, <1>3, SentCreated
  <2>2. ASSUME NEW shown \in logDisk'
        PROVE  \E old \in logDisk : shown \subseteq old \cup (used' \ used) \cup Ids(tasks)
    <3>1. PICK old \in logDisk : shown \subseteq old \cup ids
      BY <2>1
    <3> QED
      BY <1>3, <3>1
  <2> QED
    BY <1>3, <2>1, <2>2
<1>4. ASSUME NEW t \in Tasks, Command(t) PROVE Goal
  <2>1. CASE Create(t)
    <3>1. used' = used \cup {t} /\ t \notin used /\ SendCreated({t})
      BY <2>1 DEF Create
    <3>2. used' \subseteq Tasks /\ {t} \subseteq Ids(tasks) \cup (used' \ used)
      BY <1>0, <3>1
    <3> QED
      BY <1>3, <3>1, <3>2
  <2>2. CASE Update(t)
    <3>1. used' = used /\ t \in Ids(tasks) /\ SendCreated({t})
      BY <2>2 DEF Update, history
    <3>2. used' \subseteq Tasks /\ {t} \subseteq Ids(tasks) \cup (used' \ used)
      BY <1>0, <3>1
    <3> QED
      BY <1>3, <3>1, <3>2
  <2>3. CASE Delete(t)
    BY <1>1, <2>3 DEF Delete, history
  <2> QED
    BY <1>4, <2>1, <2>2, <2>3 DEF Command
<1>5. ASSUME NEW t \in Tasks, Fire(t) PROVE Goal
  BY <1>1, <1>2, <1>5 DEF Fire, ExpireDurable, ExpirePlain, FireOneShot, FireForeground, FireLoop,
                          history
<1>6. ASSUME NEW t \in Tasks, ComesDue(t) \/ Expires(t) PROVE Goal
  BY <1>1, <1>6 DEF ComesDue, Expires, history
<1>7. CASE RetryDelete
  BY <1>1, <1>7 DEF RetryDelete, history
<1>8. ASSUME Skip PROVE Goal
  <2>1. used' = used /\ SendCreated({job.entry.id} \cap Ids(tasks))
    BY <1>8 DEF Skip, history
  <2> QED
    BY <1>0, <1>3, <2>1
<1>9. CASE Answered
  <2>1. CASE Persisted \/ NotPersisted
    BY <1>1, <2>1 DEF Persisted, NotPersisted, history
  <2>2. CASE Published
    <3>1. used' = used /\ log' = log \ {job.entry.id} /\ logDisk' = {log'}
      BY <2>2 DEF Published, Tombstone
    <3> QED
      BY <1>0, <3>1
  <2>3. CASE GuardQuery \/ GuardUnit
    <3>1. Skip \/ (UNCHANGED history /\ UNCHANGED replay)
      BY <2>3, Zenon DEF GuardQuery, GuardUnit
    <3> QED
      BY <1>1, <1>8, <3>1 DEF history
  <2> QED
    BY <1>9, <2>1, <2>2, <2>3 DEF Answered
<1>10. CASE Alone
  <2>1. CASE Startup
    <3>1. used' = used /\ SendCreated(Ids(tasks) \cap (Recurring \cup (Tasks \ due)))
      BY <2>1 DEF Startup, history
    <3> QED
      BY <1>0, <1>3, <3>1
  <2>2. CASE GuardUnanswered
    BY <1>8, <2>2 DEF GuardUnanswered
  <2>3. CASE SpawnIteration \/ SpawnUnsent \/ PersistTimeout
    BY <1>1, <2>3 DEF SpawnIteration, SpawnUnsent, PersistTimeout, history
  <2>4. CASE NotPublished
    BY <1>1, <1>2, <2>4 DEF NotPublished, history
  <2> QED
    BY <1>10, <2>1, <2>2, <2>3, <2>4 DEF Alone
<1>11. ASSUME NEW n \in Iterations, Watcher(n) \/ Coordinator(n) PROVE Goal
  BY <1>1, <1>11 DEF Watcher, Coordinator, IterationEnds, DescendantStarts, DescendantEnds,
                     IterationForgotten, Others, history
<1>12. CASE WriterStep \/ ToolSave \/ TargetCloses \/ CoordinatorCloses \/ Restart
  BY <1>1, <1>12 DEF WriterStep, ToolSave, TargetCloses, CoordinatorCloses, Restart, history
<1>13. CASE Shutdown
  BY <1>2, <1>13 DEF Shutdown, history
<1>14. CASE ProcessDies \/ PowerLoss
  <2>1. used' = used /\ log' \in logDisk /\ (logDisk' = logDisk \/ logDisk' = {log'})
    BY <1>14 DEF ProcessDies, PowerLoss, history
  <2> QED
    BY <1>0, <2>1
<1>15. CASE UNCHANGED vars
  BY <1>1, <1>15 DEF vars, history
<1> QED
  BY <1>4, <1>5, <1>6, <1>7, <1>9, <1>10, <1>11, <1>12, <1>13, <1>14, <1>15 DEF Next

LEMMA TaskIds ==
  ASSUME TaskInv
  PROVE  Ids(tasks) \subseteq used /\ Ids(tasks) \subseteq Tasks
BY DEF TaskInv, ListInv, PlainInv, ListOK, EntryOK, Ids

LEMMA TimesStep ==
  ASSUME TaskInv, HandlerInv, [Next]_vars
  PROVE  due' \subseteq Tasks /\ overage' \subseteq Recurring /\ blocked' \subseteq Tasks
<1> DEFINE Goal == due' \subseteq Tasks /\ overage' \subseteq Recurring /\ blocked' \subseteq Tasks
<1>0. /\ due \subseteq Tasks /\ overage \subseteq Recurring /\ blocked \subseteq Tasks
      /\ Ids(tasks) \subseteq Tasks
  BY TaskIds DEF TaskInv, PlainInv
<1>1. ASSUME NEW t \in Tasks, Command(t) \/ ComesDue(t) \/ Expires(t) PROVE Goal
  BY <1>0, <1>1 DEF Command, Create, Update, Delete, ComesDue, Expires
<1>2. ASSUME NEW t \in Tasks, Fire(t) PROVE Goal
  BY <1>0, <1>2 DEF Fire, ExpireDurable, ExpirePlain, FireOneShot, FireForeground, FireLoop
<1>3. CASE NotPersisted
  BY <1>0, <1>3, PutBackTasks DEF NotPersisted
<1>4. CASE Persisted \/ Published \/ GuardQuery \/ GuardUnit
  <2>1. due' = due /\ overage' = overage /\ blocked' = blocked
    BY <1>4, Zenon DEF Persisted, Published, GuardQuery, GuardUnit, Skip
  <2> QED
    BY <1>0, <2>1
<1>5. CASE Alone \/ RetryDelete
  BY <1>0, <1>5 DEF Alone, Startup, SpawnIteration, SpawnUnsent, PersistTimeout, NotPublished,
                    GuardUnanswered, Skip, RetryDelete
<1>6. ASSUME NEW n \in Iterations, Watcher(n) \/ Coordinator(n) PROVE Goal
  BY <1>0, <1>6 DEF Watcher, Coordinator, IterationEnds, DescendantStarts, DescendantEnds,
                    IterationForgotten, Others, sched
<1>7. CASE WriterStep \/ ToolSave \/ TargetCloses \/ CoordinatorCloses \/ UNCHANGED vars
  BY <1>0, <1>7 DEF WriterStep, ToolSave, TargetCloses, CoordinatorCloses, vars, sched
<1>8. CASE Shutdown \/ ProcessDies \/ PowerLoss \/ Restart
  BY <1>0, <1>8 DEF Shutdown, ProcessDies, PowerLoss, Restart
<1> QED
  BY <1>1, <1>2, <1>3, <1>4, <1>5, <1>6, <1>7, <1>8 DEF Next, Answered

\* No reservation is larger than a generation has room for.
LEMMA ClockStep ==
  ASSUME TaskInv, HandlerInv, [Next]_vars
  PROVE  clock' \in {0, 1} \X (0..MaxRevision)
<1> DEFINE Goal == clock' \in {0, 1} \X (0..MaxRevision)
<1>0. PlainInv /\ clock \in {0, 1} \X (0..MaxRevision)
  BY DEF TaskInv, PlainInv
<1>1. ASSUME clock' = clock PROVE Goal
  BY <1>0, <1>1
<1>2. ASSUME commit_next(1) PROVE Goal
  BY <1>0, <1>2, ClockBounded, SchedulerAssumption DEF commit_next
<1>3. ASSUME NEW t \in Tasks, Command(t) PROVE Goal
  BY <1>1, <1>2, <1>3 DEF Command, Create, Update, Delete
<1>4. ASSUME NEW t \in Tasks, Fire(t) PROVE Goal
  <2>1. CASE FireOneShot(t)
    <3>1. t \notin Recurring /\ commit_next(2)
      BY <2>1 DEF FireOneShot
    <3>2. 2 <= MaxRevision
      BY <3>1, SchedulerAssumption
    <3> QED
      BY <1>0, <3>1, <3>2, ClockBounded DEF commit_next
  <2>2. CASE ExpireDurable(t) \/ ExpirePlain(t) \/ FireForeground(t) \/ FireLoop(t)
    BY <1>1, <1>2, <2>2 DEF ExpireDurable, ExpirePlain, FireForeground, FireLoop
  <2> QED
    BY <1>4, <2>1, <2>2 DEF Fire
<1>5. ASSUME NEW t \in Tasks, ComesDue(t) \/ Expires(t) PROVE Goal
  BY <1>1, <1>5 DEF ComesDue, Expires
<1>6. CASE RetryDelete
  BY <1>1, <1>6 DEF RetryDelete
<1>7. CASE Answered
  <2>1. CASE Published
    BY <1>2, <2>1 DEF Published, commit_next
  <2>2. CASE Persisted \/ NotPersisted \/ GuardQuery \/ GuardUnit
    <3>1. clock' = clock
      BY <2>2, Zenon DEF Persisted, NotPersisted, GuardQuery, GuardUnit, Skip
    <3> QED
      BY <1>1, <3>1
  <2> QED
    BY <1>7, <2>1, <2>2 DEF Answered
<1>8. CASE Alone
  BY <1>1, <1>2, <1>8 DEF Alone, Startup, SpawnIteration, SpawnUnsent, PersistTimeout,
                          NotPublished, GuardUnanswered, Skip
<1>9. ASSUME NEW n \in Iterations, Watcher(n) \/ Coordinator(n) PROVE Goal
  BY <1>1, <1>9 DEF Watcher, Coordinator, IterationEnds, DescendantStarts, DescendantEnds,
                    IterationForgotten, Others, sched
<1>10. CASE WriterStep \/ ToolSave \/ TargetCloses \/ CoordinatorCloses \/ UNCHANGED vars
  BY <1>1, <1>10 DEF WriterStep, ToolSave, TargetCloses, CoordinatorCloses, vars, sched
<1>11. CASE Shutdown
  <2>1. clock' = clock \/ clock' = prepare_transition(Len(tasks))
    BY <1>11 DEF Shutdown, commit_next
  <2>2. Len(tasks) \in Nat /\ Len(tasks) <= MaxRevision
    BY SchedulerAssumption DEF TaskInv, ListInv, ListOK
  <2> QED
    BY <1>0, <1>1, <2>1, <2>2, ClockBounded
<1>12. CASE ProcessDies \/ PowerLoss
  BY <1>1, <1>12 DEF ProcessDies, PowerLoss
<1>13. CASE Restart
  <2>1. clock' = <<1 - clock[1], 0>>
    BY <1>13 DEF Restart
  <2>2. 1 - clock[1] \in {0, 1} /\ 0 \in 0..MaxRevision
    BY <1>0, SchedulerAssumption
  <2> QED
    BY <2>1, <2>2
<1> QED
  BY <1>3, <1>4, <1>5, <1>6, <1>7, <1>8, <1>9, <1>10, <1>11, <1>12, <1>13 DEF Next

\* Only an acknowledged tombstone makes a removal count as done.
LEMMA DeletedStep ==
  ASSUME [Next]_vars
  PROVE  \/ deleted' = deleted
         \/ Published /\ job.why = "delete" /\ deleted' = deleted \cup {job.entry.id}
<1>1. ASSUME NEW t \in Tasks, Command(t) \/ ComesDue(t) \/ Expires(t) PROVE deleted' = deleted
  BY <1>1 DEF Command, Create, Update, Delete, ComesDue, Expires, history
<1>2. ASSUME NEW t \in Tasks, Fire(t) PROVE deleted' = deleted
  BY <1>2 DEF Fire, ExpireDurable, ExpirePlain, FireOneShot, FireForeground, FireLoop, history
<1>3. CASE Published
  BY <1>3 DEF Published
<1>4. CASE Persisted \/ NotPersisted \/ GuardQuery \/ GuardUnit
  BY <1>4, Zenon DEF Persisted, NotPersisted, GuardQuery, GuardUnit, Skip, history
<1>5. CASE Alone \/ RetryDelete
  BY <1>5 DEF Alone, Startup, SpawnIteration, SpawnUnsent, PersistTimeout, NotPublished,
              GuardUnanswered, Skip, RetryDelete, history
<1>6. ASSUME NEW n \in Iterations, Watcher(n) \/ Coordinator(n) PROVE deleted' = deleted
  BY <1>6 DEF Watcher, Coordinator, IterationEnds, DescendantStarts, DescendantEnds,
              IterationForgotten, Others, history
<1>7. CASE WriterStep \/ ToolSave \/ TargetCloses \/ CoordinatorCloses \/ UNCHANGED vars
  BY <1>7 DEF WriterStep, ToolSave, TargetCloses, CoordinatorCloses, vars, history
<1>8. CASE Shutdown \/ ProcessDies \/ PowerLoss \/ Restart
  BY <1>8 DEF Shutdown, ProcessDies, PowerLoss, Restart, history
<1> QED
  BY <1>1, <1>2, <1>3, <1>4, <1>5, <1>6, <1>7, <1>8 DEF Next, Answered

LEMMA PlainStep ==
  ASSUME TaskInv, HandlerInv, KidsInv, ResumeInv, [Next]_vars
  PROVE  PlainInv'
<1>1. logDisk' \subseteq SUBSET Tasks
  BY LogStep, TaskIds DEF TaskInv, PlainInv
<1>2. deleted' \subseteq used'
  <2>1. used \subseteq used' /\ deleted \subseteq used
    BY EvolvesStep DEF Evolves, TaskInv, PlainInv
  <2>2. Published => job.entry.id \in used
    BY DEF Published, TaskInv, JobInv, EntryOK, Removing
  <2> QED
    BY <2>1, <2>2, DeletedStep
<1> QED
  BY <1>1, <1>2, TimesStep, ClockStep, LogStep DEF PlainInv

------------------------------------------------------------------------------
(* The flush of a removal *)

\* The handler sends its own flush: from here on the channel carries the list without
\* the task, and whoever heard of an earlier flush has hung up.
LEMMA FlushBegins ==
  ASSUME TaskInv, FlushInv, job.at = "loop", job'.at = "persist", tasks' \in Seq(Entry),
         EnqueueSaveAndFlush(tasks'), job'.entry.id \notin Ids(tasks')
  PROVE  FlushInv'
<1> DEFINE m == [command |-> "SaveAndFlush", snapshot |-> tasks', heard |-> TRUE]
<1>1. chan \in Seq(Message) /\ \A i \in DOMAIN chan : ~chan[i].heard
  BY DEF TaskInv, ListInv, FlushInv
<1>2. chan' = Append(chan, m) /\ receipt' = "none"
  BY DEF EnqueueSaveAndFlush
<1>3. m \in Message /\ m.snapshot = tasks' /\ m.command = "SaveAndFlush"
  BY DEF Message
<1> HIDE DEF m
<1>4. /\ Len(chan) \in Nat /\ DOMAIN chan = 1..Len(chan) /\ DOMAIN chan' = 1..(Len(chan) + 1)
      /\ Len(chan') = Len(chan) + 1
      /\ \A i \in 1..Len(chan) : chan'[i] = chan[i]
      /\ chan'[Len(chan) + 1] = m
  BY <1>1, <1>2, <1>3
<1>5. ASSUME NEW i \in DOMAIN chan', chan'[i].heard PROVE i = Len(chan) + 1
  BY <1>1, <1>4, <1>5
<1>6. ASSUME NEW i \in DOMAIN chan', chan'[i].heard, NEW j \in i..Len(chan')
      PROVE  /\ chan'[i].command = "SaveAndFlush"
             /\ job'.entry.id \notin Ids(chan'[j].snapshot)
  <2>1. i = Len(chan) + 1 /\ j = Len(chan) + 1
    BY <1>4, <1>5, <1>6
  <2> QED
    BY <1>3, <1>4, <2>1
<1>7. ASSUME NEW i \in DOMAIN chan', chan'[i].heard
      PROVE  chan'[i].command = "SaveAndFlush"
  BY <1>3, <1>4, <1>5, <1>7
<1> QED
  BY <1>2, <1>6, <1>7 DEF FlushInv

LEMMA FlushDropped ==
  ASSUME TaskInv, FlushInv, DropReceipt,
         job'.at \notin {"persist", "publish"}
           \/ (job'.at = "publish" /\ job.at = "persist" /\ receipt = "ok" /\ job'.entry = job.entry)
  PROVE  FlushInv'
<1>1. /\ DOMAIN chan' = DOMAIN chan /\ Snapshots' = Snapshots
      /\ \A i \in DOMAIN chan : ~chan'[i].heard
  BY DropStores DEF TaskInv, ListInv
<1>2. receipt' = "none"
  BY DEF DropReceipt
<1>3. job'.at = "publish" => NotKept(job'.entry.id)
  BY DEF FlushInv
<1>4. job'.at = "publish" => NotKept(job.entry.id)'
  BY <1>1, <1>3 DEF NotKept
<1> QED
  BY <1>1, <1>2, <1>4 DEF FlushInv

LEMMA FlushToolSave ==
  ASSUME TaskInv, FlushInv, ToolSave
  PROVE  FlushInv'
<1> DEFINE m == [command |-> "Save", snapshot |-> tasks, heard |-> FALSE]
<1>1. chan \in Seq(Message) /\ tasks \in Seq(Entry) /\ file \in disk
  BY DEF TaskInv, ListInv, ListOK
<1>2. Save(tasks) /\ chan' = Append(chan, m) /\ receipt' = receipt /\ job' = job
  BY DEF ToolSave, Save, sched
<1>3. m \in Message /\ m.snapshot = tasks /\ m.heard = FALSE
  BY <1>1 DEF Message
<1> HIDE DEF m
<1>4. /\ Len(chan) \in Nat /\ DOMAIN chan = 1..Len(chan) /\ DOMAIN chan' = 1..(Len(chan) + 1)
      /\ Len(chan') = Len(chan) + 1
      /\ \A i \in 1..Len(chan) : chan'[i] = chan[i]
      /\ chan'[Len(chan) + 1] = m
  BY <1>1, <1>2, <1>3
<1>5. \A s \in Snapshots' : s \in Snapshots \/ s = tasks
  BY <1>1, <1>2, SendStores
<1>6. ASSUME NEW i \in DOMAIN chan', chan'[i].heard
      PROVE  i \in DOMAIN chan /\ chan'[i] = chan[i]
  BY <1>3, <1>4, <1>6
<1>7. ASSUME job.at \in Removing, NotKept(job.entry.id)
      PROVE  NotKept(job.entry.id)'
  BY <1>2, <1>5, <1>7 DEF NotKept, TaskInv, JobInv
<1>8. ASSUME job.at = "persist", NEW i \in DOMAIN chan', chan'[i].heard, NEW j \in i..Len(chan')
      PROVE  job'.entry.id \notin Ids(chan'[j].snapshot)
  <2>1. i \in DOMAIN chan /\ chan[i].heard
    BY <1>6, <1>8
  <2>2. CASE j \in i..Len(chan)
    <3>1. job.entry.id \notin Ids(chan[j].snapshot) /\ chan'[j] = chan[j]
      BY <1>4, <1>8, <2>1, <2>2 DEF FlushInv
    <3> QED
      BY <1>2, <3>1
  <2>3. CASE j = Len(chan) + 1
    BY <1>2, <1>3, <1>4, <1>8, <2>3 DEF TaskInv, JobInv, Removing
  <2> QED
    BY <1>4, <2>1, <2>2, <2>3
<1>9. job'.at # "persist" => receipt' = "none" /\ \A i \in DOMAIN chan' : ~chan'[i].heard
  BY <1>2, <1>6 DEF FlushInv
<1>10. \A i \in DOMAIN chan' : chan'[i].heard => chan'[i].command = "SaveAndFlush"
  BY <1>6 DEF FlushInv
<1>11. job'.at = "persist" /\ receipt' = "ok" => NotKept(job.entry.id)'
  BY <1>2, <1>7 DEF FlushInv, Removing
<1>12. job'.at = "publish" => NotKept(job.entry.id)'
  BY <1>2, <1>7 DEF FlushInv, Removing
<1> QED
  BY <1>2, <1>8, <1>9, <1>10, <1>11, <1>12 DEF FlushInv

\* The writer's own steps.  The flush that is acknowledged leaves nothing but its own
\* snapshot and what was sent after it.
LEMMA FlushWriter ==
  ASSUME TaskInv, FlushInv, WriterStep
  PROVE  FlushInv'
<1>0. /\ chan \in Seq(Message) /\ file \in disk /\ job' = job
      /\ (Writer \/ WriterFails)
  BY DEF WriterStep, sched, TaskInv, ListInv
<1>1. \A s \in Snapshots' : s \in Snapshots \/ s = <<>>
  BY <1>0, WriterStores
<1>2. ASSUME NotKept(job.entry.id) PROVE NotKept(job.entry.id)'
  BY <1>0, <1>1, <1>2, EmptyOK DEF NotKept
<1>3. ASSUME chan' = chan, receipt' = receipt PROVE FlushInv'
  BY <1>0, <1>2, <1>3 DEF FlushInv
<1>4. ASSUME chan # <<>>, chan' = Tail(chan),
             receipt' = receipt
               \/ (chan[1].heard /\ receipt' \in {"ok", "err"}
                     /\ (receipt' = "ok" => HandleSaveAndFlush))
      PROVE  FlushInv'
  <2>1. /\ 1 \in DOMAIN chan
        /\ Len(chan) \in Nat /\ Len(chan') = Len(chan) - 1 /\ DOMAIN chan = 1..Len(chan)
        /\ DOMAIN chan' = 1..(Len(chan) - 1) /\ Head(chan) = chan[1]
        /\ \A i \in DOMAIN chan' : i + 1 \in DOMAIN chan /\ chan'[i] = chan[i + 1]
    BY <1>0, <1>4, PopChan
  <2>2. job'.at # "persist" => receipt' = "none" /\ \A i \in DOMAIN chan' : ~chan'[i].heard
    BY <1>0, <1>4, <2>1 DEF FlushInv
  <2>3. \A i \in DOMAIN chan' : chan'[i].heard => chan'[i].command = "SaveAndFlush"
    BY <2>1 DEF FlushInv
  <2>4. ASSUME job.at = "persist", NEW i \in DOMAIN chan', chan'[i].heard, NEW j \in i..Len(chan')
        PROVE  job'.entry.id \notin Ids(chan'[j].snapshot)
    <3>1. /\ i + 1 \in DOMAIN chan /\ chan[i + 1].heard /\ j \in DOMAIN chan'
          /\ j + 1 \in (i + 1)..Len(chan) /\ chan'[j] = chan[j + 1]
      BY <2>1, <2>4
    <3> QED
      BY <1>0, <2>4, <3>1 DEF FlushInv
  <2>5. ASSUME job.at = "persist", receipt' = "ok" PROVE NotKept(job.entry.id)'
    <3>1. CASE receipt = "ok"
      BY <1>2, <2>5, <3>1 DEF FlushInv
    <3>2. CASE receipt # "ok"
      <4>1. chan[1].heard /\ HandleSaveAndFlush
        BY <1>4, <2>5, <3>2
      <4>2. waiting' = Nothing /\ file' = chan[1].snapshot /\ disk' = {file'}
        BY <2>1, <4>1 DEF HandleSaveAndFlush
      <4>3. \A j \in 1..Len(chan) : job.entry.id \notin Ids(chan[j].snapshot)
        BY <2>1, <2>5, <4>1 DEF FlushInv
      <4>4. \A s \in Snapshots' : \E j \in 1..Len(chan) : s = chan[j].snapshot
        BY <2>1, <4>2 DEF Snapshots
      <4> QED
        BY <1>0, <4>3, <4>4 DEF NotKept
    <3> QED
      BY <3>1, <3>2
  <2>6. job'.at = "publish" => NotKept(job.entry.id)'
    BY <1>0, <1>2 DEF FlushInv
  <2> QED
    BY <1>0, <2>2, <2>3, <2>4, <2>5, <2>6 DEF FlushInv
<1>5. CASE HandleSave
  BY <1>4, <1>5 DEF HandleSave
<1>6. CASE HandleSaveAndFlush
  <2>1. chan # <<>> /\ Head(chan) = chan[1]
    BY <1>0, <1>6 DEF HandleSaveAndFlush
  <2> QED
    BY <1>4, <1>6, <2>1 DEF HandleSaveAndFlush, Answer
<1>7. CASE SaveAndFlushFails
  <2>1. chan # <<>> /\ Head(chan) = chan[1]
    BY <1>0, <1>7 DEF SaveAndFlushFails
  <2> QED
    BY <1>4, <1>7, <2>1 DEF SaveAndFlushFails, Answer
<1>8. CASE WriteJson \/ WriteJsonFails
  BY <1>3, <1>8 DEF WriteJson, WriteJsonFails
<1> QED
  BY <1>0, <1>5, <1>6, <1>7, <1>8 DEF Writer, WriterFails

LEMMA FlushStep ==
  ASSUME TaskInv, ReservationInv, RemovalInv, KidsInv, ResumeInv, [Next]_vars
  PROVE  FlushInv'
<1>0. FlushInv /\ GoneInv /\ HandlerInv
  BY DEF RemovalInv, ReservationInv
<1>1. ASSUME job' = job, UNCHANGED writer PROVE FlushInv'
  BY <1>0, <1>1 DEF FlushInv, NotKept, Snapshots, writer
<1>2. ASSUME job.at # "persist", job'.at \notin {"persist", "publish"}, UNCHANGED writer
      PROVE  FlushInv'
  BY <1>0, <1>2 DEF FlushInv, writer
<1>3. ASSUME job' = NoJob, DropReceipt PROVE FlushInv'
  BY <1>0, <1>3, JobFields, FlushDropped
<1>4. ASSUME NEW t \in Tasks,
             Delete(t) \/ (ExpireDurable(t) /\ target) \/ (RetryDelete /\ target)
      PROVE  FlushInv'
  <2>1. JobInv' /\ job'.at = "persist" /\ job.at = "loop" /\ EnqueueSaveAndFlush(tasks')
    BY <1>0, <1>4, RemovalJob
  <2>2. job'.entry.id \notin Ids(tasks')
    BY <2>1 DEF JobInv, Removing
  <2>3. tasks' \in Seq(Entry)
    BY <1>0, TasksStep DEF ListOK
  <2> QED
    BY <1>0, <2>1, <2>2, <2>3, FlushBegins
<1>5. ASSUME NEW t \in Tasks, Command(t) PROVE FlushInv'
  BY <1>1, <1>4, <1>5 DEF Command, Create, Update
<1>6. ASSUME NEW t \in Tasks, Fire(t) PROVE FlushInv'
  <2>1. CASE FireLoop(t)
    <3>1. job.at = "loop" /\ job'.at \in {"query", "spawn"} /\ UNCHANGED writer
      BY <2>1 DEF FireLoop, Chosen, Idle, NoJob
    <3> QED
      BY <1>2, <3>1
  <2>2. CASE ExpireDurable(t) /\ ~target
    BY <1>1, <2>2 DEF ExpireDurable
  <2>3. CASE ExpirePlain(t) \/ FireOneShot(t) \/ FireForeground(t)
    BY <1>1, <2>3 DEF ExpirePlain, FireOneShot, FireForeground
  <2> QED
    BY <1>4, <1>6, <2>1, <2>2, <2>3 DEF Fire
<1>7. ASSUME NEW t \in Tasks, ComesDue(t) \/ Expires(t) PROVE FlushInv'
  BY <1>1, <1>7 DEF ComesDue, Expires
<1>8. CASE RetryDelete
  <2>1. CASE target
    <3>1. pending.id \in Tasks
      BY <1>8 DEF RetryDelete, TaskInv, JobInv, PlainInv
    <3> QED
      BY <1>4, <1>8, <2>1, <3>1
  <2>2. CASE ~target
    BY <1>1, <1>8, <2>2 DEF RetryDelete
  <2> QED
    BY <2>1, <2>2
<1>9. ASSUME job.at \in {"query", "unit"}, Skip PROVE FlushInv'
  BY <1>2, <1>9, JobFields DEF Skip, Return
<1>10. CASE Answered
  <2>1. CASE Persisted
    <3>1. /\ job.at = "persist" /\ receipt = "ok" /\ DropReceipt
          /\ job' = [job EXCEPT !.at = "publish"]
      BY <2>1 DEF Persisted
    <3>2. job'.at = "publish" /\ job'.entry = job.entry
      BY <3>1
    <3> QED
      BY <1>0, <3>1, <3>2, FlushDropped
  <2>2. CASE NotPersisted
    BY <1>3, <2>2 DEF NotPersisted, Return
  <2>3. CASE Published
    BY <1>2, <2>3, JobFields DEF Published, Return
  <2>4. CASE GuardQuery
    <3>1. job.at = "query"
      BY <2>4 DEF GuardQuery
    <3>2. PICK seen : Skip \/ (job' = [job EXCEPT !.at = "unit", !.seen = seen] /\ UNCHANGED writer)
      BY <2>4, Zenon DEF GuardQuery
    <3>3. CASE job' = [job EXCEPT !.at = "unit", !.seen = seen] /\ UNCHANGED writer
      BY <1>2, <3>1, <3>3
    <3> QED
      BY <1>9, <3>1, <3>2, <3>3
  <2>5. CASE GuardUnit
    <3>1. job.at = "unit"
      BY <2>5 DEF GuardUnit
    <3>2. Skip \/ (job' = [job EXCEPT !.at = "spawn"] /\ UNCHANGED writer)
      BY <2>5, Zenon DEF GuardUnit
    <3>3. CASE job' = [job EXCEPT !.at = "spawn"] /\ UNCHANGED writer
      BY <1>2, <3>1, <3>3
    <3> QED
      BY <1>9, <3>1, <3>2, <3>3
  <2> QED
    BY <1>10, <2>1, <2>2, <2>3, <2>4, <2>5 DEF Answered
<1>11. CASE Alone
  <2>1. CASE Startup \/ SpawnIteration \/ SpawnUnsent \/ NotPublished
    BY <1>2, <2>1, JobFields DEF Startup, SpawnIteration, SpawnUnsent, NotPublished, Return
  <2>2. CASE PersistTimeout
    BY <1>3, <2>2 DEF PersistTimeout, Return
  <2>3. CASE GuardUnanswered
    BY <1>9, <2>3 DEF GuardUnanswered
  <2> QED
    BY <1>11, <2>1, <2>2, <2>3 DEF Alone
<1>12. ASSUME NEW n \in Iterations, Watcher(n) \/ Coordinator(n) PROVE FlushInv'
  BY <1>1, <1>12 DEF Watcher, Coordinator, IterationEnds, DescendantStarts, DescendantEnds,
                     IterationForgotten, Others, sched
<1>13. CASE TargetCloses \/ CoordinatorCloses \/ UNCHANGED vars
  BY <1>1, <1>13 DEF TargetCloses, CoordinatorCloses, sched, vars
<1>14. CASE Shutdown
  <2>1. DropReceipt /\ job'.at = "stopped"
    BY <1>14, JobFields DEF Shutdown
  <2> QED
    BY <1>0, <2>1, FlushDropped
<1>15. CASE ProcessDies \/ PowerLoss
  <2>1. chan' = <<>> /\ receipt' = "none" /\ job'.at = "stopped"
    BY <1>15, JobFields DEF ProcessDies, PowerLoss, KillWriter, PowerOff, LoseWriter
  <2>2. DOMAIN chan' = {}
    BY <2>1
  <2> QED
    BY <2>1, <2>2 DEF FlushInv
<1>16. CASE Restart
  BY <1>2, <1>16, JobFields DEF Restart
<1> QED
  BY <1>0, <1>5, <1>6, <1>7, <1>8, <1>10, <1>11, <1>12, <1>13, <1>14, <1>15, <1>16,
     FlushToolSave, FlushWriter DEF Next

\* What is gone stays gone, and what goes is gone everywhere.
LEMMA GoneStep ==
  ASSUME TaskInv, ReservationInv, RemovalInv, KidsInv, ResumeInv, [Next]_vars
  PROVE  GoneInv'
<1>0. FlushInv /\ GoneInv /\ HandlerInv /\ deleted \subseteq used
  BY DEF RemovalInv, ReservationInv, TaskInv, PlainInv
<1>1. ASSUME NEW t \in deleted
      PROVE  t \notin Ids(tasks') /\ NotKept(t)' /\ \A shown \in logDisk' : t \notin shown
  <2>1. t \notin Ids(tasks) /\ NotKept(t) /\ \A shown \in logDisk : t \notin shown
    BY <1>0 DEF GoneInv
  <2>2. t \notin Ids(tasks')
    BY <1>0, <2>1, TasksStep DEF NotKept, Snapshots
  <2>3. NotKept(t)'
    BY <1>0, <2>1, <2>2, StoresStep, EmptyOK DEF NotKept
  <2>4. \A shown \in logDisk' : t \notin shown
    BY <1>0, <2>1, LogStep
  <2> QED
    BY <2>2, <2>3, <2>4
<1>2. ASSUME Published
      PROVE  /\ job.entry.id \notin Ids(tasks') /\ NotKept(job.entry.id)
             /\ Snapshots' = Snapshots /\ \A shown \in logDisk' : job.entry.id \notin shown
  <2>1. /\ job.at = "publish" /\ tasks' = tasks /\ UNCHANGED writer
        /\ log' = log \ {job.entry.id} /\ logDisk' = {log'}
    BY <1>2 DEF Published, Tombstone
  <2> QED
    BY <1>0, <2>1 DEF FlushInv, TaskInv, JobInv, Removing, Snapshots, writer
<1>3. ASSUME NEW t \in deleted', t \notin deleted
      PROVE  t \notin Ids(tasks') /\ NotKept(t)' /\ \A shown \in logDisk' : t \notin shown
  <2>1. Published /\ t = job.entry.id
    BY <1>3, DeletedStep
  <2> QED
    BY <1>2, <2>1 DEF NotKept
<1> QED
  BY <1>1, <1>3 DEF GoneInv

------------------------------------------------------------------------------
(* What a client is shown *)

LEMMA ShownStep ==
  ASSUME TaskInv, ReservationInv, GoneInv, ShownInv, KidsInv, ResumeInv, [Next]_vars
  PROVE  ShownInv'
<1>0. HandlerInv
  BY DEF ReservationInv
<1>1. ASSUME job'.at \in {"start", "stopped"} PROVE ShownInv'
  BY <1>1 DEF ShownInv
<1>2. ASSUME job' = job, log' = log, Ids(tasks') = Ids(tasks) PROVE ShownInv'
  BY <1>2 DEF ShownInv
<1>3. ASSUME job.at \notin {"start", "stopped"},
             job'.at # "persist" \/ job'.why # "expiry" \/ job'.entry.id \in log',
             Ids(tasks') \cap Recurring \cap log \subseteq log',
             \A x \in Ids(tasks') : x \in Ids(tasks) \cup log'
      PROVE  ShownInv'
  BY <1>3 DEF ShownInv
<1>4. ASSUME job.at \notin {"start", "stopped"}, job'.at # "persist", tasks' = tasks,
             log' = log \/ \E ids : log' = log \cup ids
      PROVE  ShownInv'
  BY <1>3, <1>4
<1>5. ASSUME NEW t \in Ids(tasks), tasks' = Without(tasks, Position(t)), log' = log \ {t},
             job' = job, job.at = "loop"
      PROVE  ShownInv'
  BY <1>3, <1>5, RemovedTasks
<1>6. ASSUME NEW t \in Tasks, Command(t) PROVE ShownInv'
  <2>1. CASE Create(t)
    <3>1. job' = job /\ job.at = "loop" /\ log' = log \cup {t}
      BY <2>1 DEF Create, Idle, SendCreated
    <3> QED
      BY <1>3, <2>1, <3>1, CreateTasks
  <2>2. CASE Update(t)
    <3>1. job' = job /\ job.at = "loop" /\ log' = log \cup {t}
      BY <2>2 DEF Update, Idle, SendCreated
    <3> QED
      BY <1>3, <2>2, <3>1, UpdateTasks
  <2>3. CASE Delete(t)
    <3>1. /\ job'.why = "delete" /\ job.at = "loop" /\ log' = log /\ t \in Ids(tasks)
          /\ tasks' = Without(tasks, Position(t))
      BY <2>3, PersistFields DEF Delete, Idle, replay
    <3> QED
      BY <1>3, <3>1, RemovedTasks
  <2> QED
    BY <1>6, <2>1, <2>2, <2>3 DEF Command
<1>7. ASSUME NEW t \in Tasks, Fire(t) PROVE ShownInv'
  <2>0. job.at = "loop" /\ t \in Ids(tasks)
    BY <1>7 DEF Fire, ExpireDurable, ExpirePlain, FireOneShot, FireForeground, FireLoop, Chosen, Idle
  <2>1. CASE ExpireDurable(t) /\ target
    <3>1. /\ t \in Recurring /\ log' = log /\ tasks' = Without(tasks, Position(t))
          /\ job'.entry = Task(t)
      BY <2>1, PersistFields DEF ExpireDurable, Expired, replay
    <3>2. Task(t).id = t /\ Ids(tasks') = Ids(tasks) \ {t}
      BY <2>0, <3>1, RemovedTasks
    <3>3. t \in log
      BY <2>0, <3>1 DEF ShownInv
    <3> QED
      BY <1>3, <2>0, <3>1, <3>2, <3>3
  <2>2. CASE ExpireDurable(t) /\ ~target
    BY <1>2, <2>2 DEF ExpireDurable, replay
  <2>3. CASE ExpirePlain(t) \/ FireOneShot(t)
    BY <1>5, <2>0, <2>3 DEF ExpirePlain, FireOneShot, SendRemoved
  <2>4. CASE FireForeground(t)
    BY <1>2, <2>4 DEF FireForeground, replay
  <2>5. CASE FireLoop(t)
    <3>1. job'.at \in {"query", "spawn"} /\ log' = log /\ tasks' = tasks
      BY <2>5 DEF FireLoop, NoJob, replay
    <3> QED
      BY <1>4, <2>0, <3>1
  <2> QED
    BY <1>7, <2>1, <2>2, <2>3, <2>4, <2>5 DEF Fire
<1>8. ASSUME NEW t \in Tasks, ComesDue(t) \/ Expires(t) PROVE ShownInv'
  BY <1>2, <1>8 DEF ComesDue, Expires, replay
<1>9. CASE RetryDelete
  <2>1. CASE target
    <3>1. job'.why = "delete" /\ job.at = "loop" /\ log' = log /\ tasks' = tasks
      BY <1>9, <2>1, PersistFields DEF RetryDelete, Idle, replay
    <3> QED
      BY <1>3, <3>1
  <2>2. CASE ~target
    BY <1>2, <1>9, <2>2 DEF RetryDelete, replay
  <2> QED
    BY <2>1, <2>2
<1>10. ASSUME job.at \in {"query", "unit"}, Skip PROVE ShownInv'
  BY <1>4, <1>10, JobFields DEF Skip, Return, SendCreated
<1>11. ASSUME job.at = "publish", job' = NoJob, tasks' = tasks,
              log' = log \/ log' = log \ {job.entry.id}
       PROVE  ShownInv'
  <2>1. job.entry.id \notin Ids(tasks)
    BY <1>11 DEF TaskInv, JobInv, Removing
  <2> QED
    BY <1>3, <1>11, <2>1, JobFields
<1>12. CASE Answered
  <2>1. CASE Persisted
    <3>1. job.at = "persist" /\ job'.at = "publish" /\ tasks' = tasks /\ log' = log
      BY <2>1 DEF Persisted, replay
    <3> QED
      BY <1>4, <3>1
  <2>2. CASE NotPersisted
    <3>1. job.at = "persist" /\ job'.at = "loop" /\ log' = log
      BY <2>2, JobFields DEF NotPersisted, Return, replay
    <3>2. CASE job.why # "expiry"
      BY <1>0, <1>4, <2>2, <3>1, <3>2, PutBackTasks
    <3>3. CASE job.why = "expiry"
      <4>1. Ids(tasks') = Ids(tasks) \cup {job.entry.id}
        BY <1>0, <2>2, <3>3, PutBackTasks
      <4>2. job.entry.id \in log
        BY <3>1, <3>3 DEF ShownInv
      <4> QED
        BY <1>3, <3>1, <4>1, <4>2
    <3> QED
      BY <3>2, <3>3
  <2>3. CASE Published
    BY <1>11, <2>3 DEF Published, Return, Tombstone
  <2>4. CASE GuardQuery
    <3>1. job.at = "query"
      BY <2>4 DEF GuardQuery
    <3>2. PICK seen : \/ Skip
                      \/ /\ job' = [job EXCEPT !.at = "unit", !.seen = seen]
                         /\ tasks' = tasks /\ UNCHANGED replay
      BY <2>4, Zenon DEF GuardQuery
    <3>3. CASE /\ job' = [job EXCEPT !.at = "unit", !.seen = seen]
               /\ tasks' = tasks /\ UNCHANGED replay
      BY <1>4, <3>1, <3>3 DEF replay
    <3> QED
      BY <1>10, <3>1, <3>2, <3>3
  <2>5. CASE GuardUnit
    <3>1. job.at = "unit"
      BY <2>5 DEF GuardUnit
    <3>2. Skip \/ (job' = [job EXCEPT !.at = "spawn"] /\ tasks' = tasks /\ UNCHANGED replay)
      BY <2>5, Zenon DEF GuardUnit
    <3>3. CASE job' = [job EXCEPT !.at = "spawn"] /\ tasks' = tasks /\ UNCHANGED replay
      BY <1>4, <3>1, <3>3 DEF replay
    <3> QED
      BY <1>10, <3>1, <3>2, <3>3
  <2> QED
    BY <1>12, <2>1, <2>2, <2>3, <2>4, <2>5 DEF Answered
<1>13. CASE Alone
  <2>1. CASE Startup
    <3>1. /\ job'.at = "loop" /\ tasks' = tasks
          /\ log' = log \cup (Ids(tasks) \cap (Recurring \cup (Tasks \ due)))
      BY <2>1, JobFields DEF Startup, Return, SendCreated
    <3> QED
      BY <3>1 DEF ShownInv
  <2>2. CASE SpawnIteration
    <3>1. job.at = "spawn" /\ job'.at = "loop" /\ log' = log
      BY <2>2, JobFields DEF SpawnIteration, Return, replay
    <3> QED
      BY <1>3, <2>2, <3>1, SpawnTasks
  <2>3. CASE SpawnUnsent
    <3>1. job.at = "spawn" /\ job'.at = "loop" /\ log' = log
      BY <2>3, JobFields DEF SpawnUnsent, Return, replay
    <3> QED
      BY <1>3, <2>3, <3>1, UnsentTasks
  <2>4. CASE PersistTimeout
    BY <1>4, <2>4, JobFields DEF PersistTimeout, Return, replay
  <2>5. CASE NotPublished
    BY <1>11, <2>5 DEF NotPublished, Return, SendRemoved, replay
  <2>6. CASE GuardUnanswered
    BY <1>10, <2>6 DEF GuardUnanswered
  <2> QED
    BY <1>13, <2>1, <2>2, <2>3, <2>4, <2>5, <2>6 DEF Alone
<1>14. ASSUME NEW n \in Iterations, Watcher(n) PROVE ShownInv'
  BY <1>2, <1>14, WatcherTasks DEF Watcher, replay
<1>15. ASSUME NEW n \in Iterations, Coordinator(n) PROVE ShownInv'
  BY <1>2, <1>15 DEF Coordinator, IterationEnds, DescendantStarts, DescendantEnds,
                     IterationForgotten, Others, sched, replay
<1>16. CASE WriterStep \/ ToolSave \/ TargetCloses \/ CoordinatorCloses \/ UNCHANGED vars
  BY <1>2, <1>16 DEF WriterStep, ToolSave, TargetCloses, CoordinatorCloses, vars, sched, replay
<1>17. CASE Shutdown \/ ProcessDies \/ PowerLoss \/ Restart
  BY <1>1, <1>17, JobFields DEF Shutdown, ProcessDies, PowerLoss, Restart
<1> QED
  BY <1>6, <1>7, <1>8, <1>9, <1>12, <1>13, <1>14, <1>15, <1>16, <1>17 DEF Next

------------------------------------------------------------------------------
(* Iterations side by side *)

LEMMA QuietKept ==
  ASSUME NEW k, NEW k2, Calmer(k, k2), NEW t, NEW a, QuietBut(k, t, a)
  PROVE  QuietBut(k2, t, a)
BY DEF Calmer, QuietBut

LEMMA DisjointKept ==
  ASSUME IterationsDisjoint, Calmer(kids, kids')
  PROVE  IterationsDisjoint'
<1> SUFFICES ASSUME NEW m \in Iterations, NEW n \in Iterations, m # n, kids'[n].status = "live",
                    kids'[m].task = kids'[n].task
             PROVE  Quiet(kids', m)
  BY DEF IterationsDisjoint, Quiet
<1>1. kids[n].status = "live" /\ kids[m].task = kids[n].task
  BY DEF Calmer
<1>2. Quiet(kids, m)
  BY <1>1 DEF IterationsDisjoint, Quiet
<1> QED
  BY <1>2 DEF Calmer

LEMMA LoopAround ==
  ASSUME LoopInv, Calmer(kids, kids'),
         \A i \in DOMAIN tasks' : \E j \in DOMAIN tasks :
            tasks'[i].id = tasks[j].id /\ tasks'[i].anchor = tasks[j].anchor,
         \/ job'.at \notin Removing \cup {"spawn"}
         \/ /\ job'.entry = job.entry /\ job'.why = job.why
            /\ job'.at \in Removing => job.at \in Removing
            /\ job'.at = "spawn" => job.at = "spawn"
  PROVE  LoopInv'
<1>1. \A i \in DOMAIN tasks' : QuietBut(kids', tasks'[i].id, tasks'[i].anchor)
  <2> SUFFICES ASSUME NEW i \in DOMAIN tasks'
               PROVE  QuietBut(kids', tasks'[i].id, tasks'[i].anchor)
    OBVIOUS
  <2>1. PICK j \in DOMAIN tasks : tasks'[i].id = tasks[j].id /\ tasks'[i].anchor = tasks[j].anchor
    OBVIOUS
  <2>2. QuietBut(kids, tasks[j].id, tasks[j].anchor)
    BY DEF LoopInv
  <2> QED
    BY <2>1, <2>2, QuietKept
<1>2. job'.at \in Removing /\ job'.why = "expiry" =>
        QuietBut(kids', job'.entry.id, job'.entry.anchor)
  BY QuietKept DEF LoopInv
<1>3. job'.at = "spawn" => QuietBut(kids', job'.entry.id, None)
  BY QuietKept DEF LoopInv
<1>4. IterationsDisjoint'
  BY DisjointKept DEF LoopInv
<1> QED
  BY <1>1, <1>2, <1>3, <1>4 DEF LoopInv, QuietBut, Quiet

\* A step that leaves the iterations alone and puts the handler at an entry of the list.
LEMMA LoopTakes ==
  ASSUME LoopInv, kids' = kids, NEW e, QuietBut(kids, e.id, e.anchor),
         \A i \in DOMAIN tasks' : tasks'[i] = e \/ \E j \in DOMAIN tasks : tasks'[i] = tasks[j],
         \/ job'.at \notin Removing \cup {"spawn"}
         \/ job'.entry = e /\ (job'.at = "spawn" => e.anchor = None)
         \/ job'.at \in Removing /\ job'.why # "expiry"
  PROVE  LoopInv'
<1>1. \A i \in DOMAIN tasks' : QuietBut(kids', tasks'[i].id, tasks'[i].anchor)
  BY DEF LoopInv
<1>2. job'.at \in Removing /\ job'.why = "expiry" =>
        QuietBut(kids', job'.entry.id, job'.entry.anchor)
  BY DEF Removing
<1>3. job'.at = "spawn" => QuietBut(kids', job'.entry.id, None)
  BY DEF Removing
<1>4. IterationsDisjoint'
  BY DEF LoopInv, IterationsDisjoint
<1> QED
  BY <1>1, <1>2, <1>3, <1>4 DEF LoopInv, QuietBut, Quiet

\* An iteration starts when nothing of its task runs but what failed runs have left.
LEMMA LoopSpawn ==
  ASSUME TaskInv, LoopInv, KidsInv, ResumeInv, SpawnIteration
  PROVE  LoopInv'
<1> DEFINE ni == NextIteration
           id == job.entry.id
<1>1. /\ ni \in Iterations
      /\ \A m \in Iterations \ {ni} : kids'[m] = kids[m]
      /\ kids'[ni].task = id
  BY SpawnKids DEF UnusedIn
<1>2. /\ DOMAIN tasks' = DOMAIN tasks
      /\ \A i \in DOMAIN tasks :
            \/ tasks'[i].id = id /\ tasks'[i].anchor = ni
            \/ tasks[i].id # id /\ tasks'[i] = tasks[i]
  BY SpawnTasks
<1>3. QuietBut(kids, id, None)
  BY DEF SpawnIteration, LoopInv
<1>4. job'.at = "loop"
  BY JobFields DEF SpawnIteration, Return
<1> HIDE DEF ni, id
<1>5. \A n \in Iterations : kids[n].task = id => Quiet(kids, n)
  BY <1>3 DEF QuietBut, None, Iterations
<1>6. \A n \in Iterations \ {ni} : Quiet(kids, n) => Quiet(kids', n)
  BY <1>1 DEF Quiet
<1>7. ASSUME NEW i \in DOMAIN tasks' PROVE QuietBut(kids', tasks'[i].id, tasks'[i].anchor)
  <2>1. CASE tasks'[i].id = id /\ tasks'[i].anchor = ni
    BY <1>1, <1>5, <1>6, <2>1 DEF QuietBut
  <2>2. CASE tasks[i].id # id /\ tasks'[i] = tasks[i]
    <3>1. QuietBut(kids, tasks[i].id, tasks[i].anchor)
      BY <1>2 DEF LoopInv
    <3> QED
      BY <1>1, <1>6, <2>2, <3>1 DEF QuietBut
  <2> QED
    BY <1>2, <2>1, <2>2
<1>8. IterationsDisjoint'
  <2> SUFFICES ASSUME NEW m \in Iterations, NEW n \in Iterations, m # n, kids'[n].status = "live",
                      kids'[m].task = kids'[n].task
               PROVE  Quiet(kids', m)
    BY DEF IterationsDisjoint, Quiet
  <2>1. CASE n = ni
    BY <1>1, <1>5, <1>6, <2>1
  <2>2. CASE n # ni /\ m = ni
    <3>1. kids[n].task = id /\ kids[n].status = "live"
      BY <1>1, <2>2
    <3> QED
      BY <1>5, <3>1 DEF Quiet
  <2>3. CASE n # ni /\ m # ni
    <3>1. Quiet(kids, m)
      BY <1>1, <2>3 DEF LoopInv, IterationsDisjoint, Quiet
    <3> QED
      BY <1>6, <2>3, <3>1
  <2> QED
    BY <2>1, <2>2, <2>3
<1> QED
  BY <1>4, <1>7, <1>8 DEF LoopInv, Removing, QuietBut, Quiet

LEMMA LoopStep ==
  ASSUME TaskInv, ReservationInv, GoneInv, LoopInv, KidsInv, ResumeInv, [Next]_vars
  PROVE  LoopInv'
<1>0. HandlerInv /\ (SpawnIteration \/ Calmer(kids, kids'))
  BY EvolvesStep DEF ReservationInv
<1>1. ASSUME kids' = kids PROVE Calmer(kids, kids')
  BY <1>1 DEF Calmer
<1>2. ASSUME Calmer(kids, kids'), tasks' = tasks,
             job' = job \/ job'.at \notin Removing \cup {"spawn"}
      PROVE  LoopInv'
  BY <1>2, LoopAround
<1>3. ASSUME kids' = kids, NEW t \in Ids(tasks), tasks' = Without(tasks, Position(t)),
             job' = job \/ (job'.at \in Removing /\ job'.entry = Task(t))
      PROVE  LoopInv'
  <2>1. Position(t) \in DOMAIN tasks /\ Task(t) = tasks[Position(t)]
    BY PositionIs
  <2>2. \A i \in DOMAIN tasks' : \E j \in DOMAIN tasks : tasks'[i] = tasks[j]
    BY <1>3, RemovedTasks
  <2>3. QuietBut(kids, Task(t).id, Task(t).anchor)
    BY <2>1 DEF LoopInv
  <2>4. CASE job' = job
    BY <1>1, <1>3, <2>2, <2>4, LoopAround
  <2>5. CASE job'.at \in Removing /\ job'.entry = Task(t)
    BY <1>3, <2>2, <2>3, <2>5, LoopTakes DEF Removing
  <2> QED
    BY <1>3, <2>4, <2>5
<1>4. ASSUME NEW t \in Tasks, Command(t) PROVE LoopInv'
  <2>1. CASE Create(t)
    <3>1. job' = job /\ job.at = "loop" /\ kids' = kids
      BY <2>1 DEF Create, Idle, outside
    <3>2. NewTask(t).id = t /\ NewTask(t).anchor = None /\ t \notin used
      BY <2>1 DEF NewTask, Create
    <3>3. QuietBut(kids, NewTask(t).id, NewTask(t).anchor)
      BY <3>2 DEF QuietBut, Quiet, KidsInv
    <3> HIDE DEF NewTask
    <3> QED
      BY <2>1, <3>1, <3>3, CreateTasks, LoopTakes DEF Removing
  <2>2. CASE Update(t)
    <3>1. job' = job /\ kids' = kids
      BY <2>2 DEF Update, outside
    <3> QED
      BY <1>1, <2>2, <3>1, UpdateTasks, LoopAround
  <2>3. CASE Delete(t)
    <3>1. /\ job'.at = "persist" /\ job'.entry = Task(t) /\ kids' = kids /\ t \in Ids(tasks)
          /\ tasks' = Without(tasks, Position(t))
      BY <2>3, PersistFields DEF Delete, outside
    <3> QED
      BY <1>3, <3>1 DEF Removing
  <2> QED
    BY <1>4, <2>1, <2>2, <2>3 DEF Command
<1>5. ASSUME NEW t \in Tasks, Fire(t) PROVE LoopInv'
  <2>0. t \in Ids(tasks) /\ kids' = kids
    BY <1>5 DEF Fire, ExpireDurable, ExpirePlain, FireOneShot, FireForeground, FireLoop, Chosen,
                outside
  <2>1. CASE ExpireDurable(t) /\ target
    <3>1. /\ job'.at = "persist" /\ job'.entry = Task(t)
          /\ tasks' = Without(tasks, Position(t))
      BY <2>1, PersistFields DEF ExpireDurable
    <3> QED
      BY <1>3, <2>0, <3>1 DEF Removing
  <2>2. CASE ExpireDurable(t) /\ ~target
    BY <1>1, <1>2, <2>0, <2>2 DEF ExpireDurable
  <2>3. CASE ExpirePlain(t) \/ FireOneShot(t)
    BY <1>3, <2>0, <2>3 DEF ExpirePlain, FireOneShot
  <2>4. CASE FireForeground(t)
    BY <1>1, <1>2, <2>0, <2>4 DEF FireForeground
  <2>5. CASE Unused # {} /\ FireLoop(t)
    <3>1. /\ job'.entry = Task(t) /\ Task(t) = tasks[Position(t)] /\ Position(t) \in DOMAIN tasks
          /\ job'.at = "spawn" => Task(t).anchor = None
      BY <2>5, FireLoopJob
    <3>2. tasks' = tasks
      BY <2>5 DEF FireLoop
    <3>3. QuietBut(kids, Task(t).id, Task(t).anchor)
      BY <3>1 DEF LoopInv
    <3> QED
      BY <2>0, <3>1, <3>2, <3>3, LoopTakes
  <2> QED
    BY <1>5, <2>1, <2>2, <2>3, <2>4, <2>5 DEF Fire
<1>6. ASSUME NEW t \in Tasks, ComesDue(t) \/ Expires(t) PROVE LoopInv'
  BY <1>1, <1>2, <1>6 DEF ComesDue, Expires, outside
<1>7. CASE RetryDelete
  <2>1. tasks' = tasks /\ kids' = kids
    BY <1>7 DEF RetryDelete, outside
  <2>2. CASE target
    <3>1. job'.at = "persist" /\ job'.why = "delete"
      BY <1>7, <2>2, PersistFields DEF RetryDelete
    <3>2. IterationsDisjoint'
      BY <1>1, <2>1, DisjointKept DEF LoopInv
    <3>3. \A i \in DOMAIN tasks' : QuietBut(kids', tasks'[i].id, tasks'[i].anchor)
      BY <2>1 DEF LoopInv
    <3> QED
      BY <3>1, <3>2, <3>3 DEF LoopInv, QuietBut, Quiet
  <2>3. CASE ~target
    BY <1>1, <1>2, <1>7, <2>1, <2>3 DEF RetryDelete
  <2> QED
    BY <2>2, <2>3
<1>8. ASSUME job' = NoJob, tasks' = tasks, kids' = kids PROVE LoopInv'
  BY <1>1, <1>2, <1>8, JobFields DEF Removing
<1>9. ASSUME Skip PROVE LoopInv'
  BY <1>8, <1>9 DEF Skip, Return, outside
<1>10. CASE Answered
  <2>1. CASE Persisted
    <3>1. /\ job.at = "persist" /\ tasks' = tasks /\ kids' = kids
          /\ job' = [job EXCEPT !.at = "publish"]
      BY <2>1 DEF Persisted, outside
    <3>2. job'.at = "publish" /\ job'.entry = job.entry /\ job'.why = job.why
      BY <3>1
    <3> QED
      BY <1>1, <3>1, <3>2, LoopAround DEF Removing
  <2>2. CASE NotPersisted
    <3>1. job.at = "persist" /\ job'.at = "loop" /\ job' = NoJob /\ kids' = kids
      BY <2>2, JobFields DEF NotPersisted, Return, outside
    <3>2. CASE job.why # "expiry"
      BY <1>0, <1>8, <2>2, <3>1, <3>2, PutBackTasks
    <3>3. CASE job.why = "expiry"
      <4>1. \A i \in DOMAIN tasks' :
               tasks'[i] = job.entry \/ \E j \in DOMAIN tasks : tasks'[i] = tasks[j]
        BY <1>0, <2>2, <3>3, PutBackTasks
      <4>2. QuietBut(kids, job.entry.id, job.entry.anchor)
        BY <3>1, <3>3 DEF LoopInv, Removing
      <4> QED
        BY <3>1, <4>1, <4>2, LoopTakes DEF Removing
    <3> QED
      BY <3>2, <3>3
  <2>3. CASE Published
    BY <1>8, <2>3 DEF Published, Return, outside
  <2>4. CASE GuardQuery
    <3>1. PICK seen : \/ Skip
                      \/ /\ job' = [job EXCEPT !.at = "unit", !.seen = seen]
                         /\ tasks' = tasks /\ UNCHANGED outside
      BY <2>4, Zenon DEF GuardQuery
    <3>2. CASE /\ job' = [job EXCEPT !.at = "unit", !.seen = seen]
               /\ tasks' = tasks /\ UNCHANGED outside
      <4>1. job'.at = "unit" /\ kids' = kids
        BY <3>2 DEF outside
      <4> QED
        BY <1>1, <1>2, <3>2, <4>1 DEF Removing
    <3> QED
      BY <1>9, <3>1, <3>2
  <2>5. CASE GuardUnit
    <3>1. \/ Skip
          \/ /\ job' = [job EXCEPT !.at = "spawn"] /\ ~UnitActive(job.entry.id)
             /\ tasks' = tasks /\ UNCHANGED outside
      BY <2>5, Zenon DEF GuardUnit
    <3>2. CASE /\ job' = [job EXCEPT !.at = "spawn"] /\ ~UnitActive(job.entry.id)
               /\ tasks' = tasks /\ UNCHANGED outside
      <4>1. job'.at = "spawn" /\ job'.entry = job.entry /\ kids' = kids
        BY <3>2 DEF outside
      <4>2. QuietBut(kids, job.entry.id, None)
        BY <3>2 DEF QuietBut, Quiet, UnitActive
      <4>3. IterationsDisjoint'
        BY <1>1, <4>1, DisjointKept DEF LoopInv
      <4>4. \A i \in DOMAIN tasks' : QuietBut(kids', tasks'[i].id, tasks'[i].anchor)
        BY <3>2, <4>1 DEF LoopInv
      <4> QED
        BY <4>1, <4>2, <4>3, <4>4 DEF LoopInv, QuietBut, Quiet, Removing
    <3> QED
      BY <1>9, <3>1, <3>2
  <2> QED
    BY <1>10, <2>1, <2>2, <2>3, <2>4, <2>5 DEF Answered
<1>11. CASE Alone
  <2>1. CASE Startup \/ PersistTimeout \/ NotPublished
    BY <1>8, <2>1 DEF Startup, PersistTimeout, NotPublished, Return, outside
  <2>2. CASE GuardUnanswered
    BY <1>9, <2>2 DEF GuardUnanswered
  <2>3. CASE SpawnUnsent
    <3>1. job.at = "spawn" /\ job'.at = "loop" /\ kids' = kids
      BY <2>3, JobFields DEF SpawnUnsent, Return, outside
    <3>2. QuietBut(kids, job.entry.id, job.entry.anchor)
      BY <3>1 DEF LoopInv, QuietBut, None, Iterations
    <3>3. \A i \in DOMAIN tasks' :
             tasks'[i] = job.entry \/ \E j \in DOMAIN tasks : tasks'[i] = tasks[j]
      BY <2>3, UnsentTasks
    <3> QED
      BY <3>1, <3>2, <3>3, LoopTakes DEF Removing
  <2> QED
    BY <1>11, <2>1, <2>2, <2>3, LoopSpawn DEF Alone
<1>12. ASSUME NEW n \in Iterations, Watcher(n) PROVE LoopInv'
  <2>1. Calmer(kids, kids') /\ job' = job /\ Quiet(kids, n)
    BY <1>12, CoordinatorKids DEF Watcher, KidsInv, Quiet
  <2>2. ASSUME NEW i \in DOMAIN tasks' PROVE QuietBut(kids', tasks'[i].id, tasks'[i].anchor)
    <3>1. /\ i \in DOMAIN tasks /\ tasks'[i].id = tasks[i].id
          /\ tasks[i].anchor = n \/ tasks'[i].anchor = tasks[i].anchor
      BY <1>12, <2>2, WatcherTasks
    <3>2. QuietBut(kids, tasks[i].id, tasks[i].anchor)
      BY <3>1 DEF LoopInv
    <3>3. QuietBut(kids, tasks[i].id, tasks'[i].anchor)
      BY <2>1, <3>1, <3>2 DEF QuietBut
    <3> QED
      BY <2>1, <3>1, <3>3, QuietKept
  <2>3. /\ job'.at \in Removing /\ job'.why = "expiry" =>
             QuietBut(kids', job'.entry.id, job'.entry.anchor)
        /\ job'.at = "spawn" => QuietBut(kids', job'.entry.id, None)
    BY <2>1, QuietKept DEF LoopInv
  <2>4. IterationsDisjoint'
    BY <2>1, DisjointKept DEF LoopInv
  <2> QED
    BY <2>2, <2>3, <2>4 DEF LoopInv, QuietBut, Quiet
<1>13. ASSUME NEW n \in Iterations, Coordinator(n) PROVE LoopInv'
  <2>1. tasks' = tasks /\ job' = job
    BY <1>13 DEF Coordinator, IterationEnds, DescendantStarts, DescendantEnds,
                 IterationForgotten, Others, sched
  <2> QED
    BY <1>2, <1>13, <2>1, CoordinatorKids
<1>14. CASE CoordinatorCloses
  BY <1>2, <1>14, OrphanedKids DEF CoordinatorCloses, sched
<1>15. CASE WriterStep \/ ToolSave \/ TargetCloses \/ UNCHANGED vars
  BY <1>1, <1>2, <1>15 DEF WriterStep, ToolSave, TargetCloses, vars, sched, outside
<1>16. CASE Shutdown \/ ProcessDies \/ PowerLoss
  <2>1. tasks' = tasks /\ kids' = kids /\ job'.at = "stopped"
    BY <1>16, JobFields DEF Shutdown, ProcessDies, PowerLoss, outside
  <2> QED
    BY <1>1, <1>2, <2>1 DEF Removing
<1>17. CASE Restart
  <2>1. Calmer(kids, kids') /\ \A n \in Iterations : Quiet(kids', n)
    BY <1>17, OrphanedKids
  <2>2. job'.at = "start"
    BY <1>17, JobFields DEF Restart
  <2>3. IterationsDisjoint'
    BY <2>1, DisjointKept DEF LoopInv
  <2>4. \A t, a : QuietBut(kids', t, a)
    BY <2>1 DEF QuietBut
  <2>5. \A i \in DOMAIN tasks' : QuietBut(kids', tasks'[i].id, tasks'[i].anchor)
    BY <2>4
  <2>6. ~(job'.at \in Removing) /\ job'.at # "spawn"
    BY <2>2 DEF Removing
  <2> QED
    BY <2>3, <2>5, <2>6 DEF LoopInv, QuietBut, Quiet
<1> QED
  BY <1>4, <1>5, <1>6, <1>7, <1>10, <1>11, <1>12, <1>13, <1>14, <1>15, <1>16, <1>17 DEF Next

------------------------------------------------------------------------------
(* The theorems *)

Inv ==
  /\ ReservationInv /\ TaskInv /\ RemovalInv /\ ShownInv
  /\ KidsInv /\ ResumeInv /\ LoopInv

LEMMA InitInv == Init => Inv
<1> SUFFICES ASSUME Init PROVE Inv
  OBVIOUS
<1>1. /\ chan = <<>> /\ waiting = Nothing /\ file = <<>> /\ disk = {<<>>} /\ receipt = "none"
      /\ tasks = <<>> /\ due = {} /\ overage = {} /\ clock = <<0, 0>> /\ pending = NoRemoval
      /\ blocked = {} /\ job.at = "start" /\ kids = [n \in Iterations |-> NoKid]
      /\ log = {} /\ logDisk = {{}} /\ used = {} /\ deleted = {}
  BY JobFields DEF Init, PersistenceInit, Blank
<1>2. chan \in Seq(Message) /\ DOMAIN chan = {} /\ DOMAIN tasks = {}
  BY <1>1
<1>3. Snapshots = {<<>>}
  BY <1>1, <1>2 DEF Snapshots
<1>4. ListInv
  BY <1>1, <1>2, <1>3, EmptyOK DEF ListInv
<1>5. JobInv
  BY <1>1 DEF JobInv, Removing, Firing
<1>6. PlainInv
  BY <1>1, SchedulerAssumption DEF PlainInv
<1>7. RemovalInv
  BY <1>1, <1>2 DEF RemovalInv, FlushInv, GoneInv
<1>8. ShownInv
  BY <1>1 DEF ShownInv
<1>9. /\ NoKid \in Kid /\ NoKid.status = "unused" /\ NoKid.descendant = FALSE
      /\ NoKid.watched = FALSE /\ NoKid.resume = None
  BY SchedulerAssumption DEF NoKid, Kid
<1> HIDE DEF NoKid
<1>10. KidsInv /\ ResumeInv
  BY <1>1, <1>9 DEF KidsInv, ResumeInv
<1>11. LoopInv
  BY <1>1, <1>2, <1>9 DEF LoopInv, IterationsDisjoint, Removing
<1> QED
  BY <1>4, <1>5, <1>6, <1>7, <1>8, <1>10, <1>11, InitReservation DEF Inv, TaskInv

LEMMA NextInv ==
  ASSUME Inv, [Next]_vars
  PROVE  Inv'
<1>1. HandlerInv /\ GoneInv
  BY DEF Inv, ReservationInv, RemovalInv
<1>2. TaskInv'
  BY <1>1, ListStep, JobStep, PlainStep DEF Inv, TaskInv
<1>3. RemovalInv'
  BY FlushStep, GoneStep DEF Inv, RemovalInv
<1>4. ShownInv' /\ LoopInv'
  BY <1>1, ShownStep, LoopStep DEF Inv
<1>5. ReservationInv' /\ KidsInv' /\ ResumeInv'
  BY NextReservation, EvolvesStep DEF Inv
<1> QED
  BY <1>2, <1>3, <1>4, <1>5 DEF Inv

\* Everything above together: the parts need each other, and none is inductive alone.
THEOREM InvHolds == Spec => []Inv
BY InitInv, NextInv, PTL DEF Spec

\* The list is bounded, holds a task once and holds good entries, and so does whatever
\* the file or the disk may give back to the next session; the revision of the clock
\* stays within its width whatever is reserved, a whole shutdown included.
THEOREM SchedulerTypeCorrect == Spec => []TypeOK
<1>1. Inv => TypeOK
  <2> SUFFICES ASSUME Inv PROVE TypeOK
    OBVIOUS
  <2>1. ASSUME NEW l \in disk \cup {tasks, file}
        PROVE  /\ Len(l) <= MAX_SCHEDULED_TASKS
               /\ \A i \in DOMAIN l :
                     l[i] \in Entry /\ \A j \in DOMAIN l : l[i].id = l[j].id => i = j
    <3>1. ListOK(l, kids, used)
      BY DEF Inv, TaskInv, ListInv, Snapshots
    <3> QED
      BY <3>1 DEF ListOK, EntryOK, Distinct
  <2>2. pending = NoRemoval \/ pending.id \in Tasks
    BY DEF Inv, TaskInv, JobInv, PlainInv
  <2> QED
    BY <2>1, <2>2 DEF Inv, TaskInv, ListInv, PlainInv, KidsInv, TypeOK
<1> QED
  BY <1>1, InvHolds, PTL

\* A task whose Delete was answered Ok(true) never comes back, in the actor's list, the
\* file, the log or a snapshot on its way: the flush that the handler waited for leaves
\* nothing older behind it, and the tombstone leaves nothing older in the log.
THEOREM DeletedCorrect == Spec => []DeletedStaysDeleted
<1>1. Inv => DeletedStaysDeleted
  BY DEF Inv, RemovalInv, GoneInv, NotKept, Snapshots, DeletedStaysDeleted
<1> QED
  BY <1>1, InvHolds, PTL

\* While the actor waits for commands, every recurring task on its list is one that the
\* log has announced and not taken back, also after a removal that failed half way.
THEOREM ShownCorrect == Spec => []ScheduledAreShown
<1>1. Inv => ScheduledAreShown
  BY DEF Inv, ShownInv, ScheduledAreShown
<1> QED
  BY <1>1, InvHolds, PTL

\* The in-flight guard of fire_as_loop_subagent: it asks about the anchor and about the
\* loop unit at two different awaits, and the watcher may clear the anchor in between or
\* after; still no two iterations of a task are live together.
THEOREM IterationsCorrect == Spec => []IterationsDisjoint
<1>1. Inv => IterationsDisjoint
  BY DEF Inv, LoopInv
<1> QED
  BY <1>1, InvHolds, PTL

\* A transcript is resumed only under the prompt it was made with: an anchor that an
\* Update has made stale is marked by `reset` in every copy of the entry, the ones that
\* a crash or a failed send brings back included.
THEOREM ResumeCorrect == Spec => []ResumesOwnPrompt
<1>1. Inv => ResumesOwnPrompt
  BY DEF Inv, ResumeInv, ResumesOwnPrompt
<1> QED
  BY <1>1, InvHolds, PTL

==============================================================================
