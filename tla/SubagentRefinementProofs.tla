---------------------- MODULE SubagentRefinementProofs -----------------------
(***************************************************************************)
(* SubagentCoordinator implements SubagentLifecycle, for any number of     *)
(* children, askers and sessions.  Steps are first sorted by what they do  *)
(* to the part of the state the refinement mapping sees; each sort is then *)
(* matched with one abstract action or a stutter.                          *)
(***************************************************************************)
EXTENDS SubagentRefinement, SubagentCoordinatorProofs, FiniteSetTheorems

\* What the mapping sees.
viewVars == <<Live, completed, request, killed, spawnReply, caller, status,
              waiterDelivered, surfaced, stopped>>

\* A spawn caller that still waits can be reached: its sender is in the record of
\* a live child.
CallerInv == \A i \in Ids : caller[i] = "waiting" => i \in Live /\ i \in spawnReply

LEMMA StepCases ==
    ASSUME Inv, [Next]_vars
    PROVE  \/ UNCHANGED viewVars
           \/ FlagsOnly
           \/ \E i \in Ids, req \in Requests : Spawn(i, req)
           \/ \E i \in Ids : CallerDrops(i)
           \/ \E kids \in SUBSET deadline, due \in SUBSET waiters : ProcessDeadlines(kids, due)
           \/ \E i \in Ids, st \in Statuses : Settle(i, st)
           \/ ~stopped /\ Shutdown
<1>1. ASSUME UNCHANGED <<registryVars, deliveryVars, killed, spawnReply, stopped>>
      PROVE  UNCHANGED viewVars
  BY <1>1 DEF registryVars, deliveryVars, viewVars, Live
<1>2. CASE Command
  BY <1>2, CommandCases DEF Inv, TypeOK
<1>3. ASSUME NEW i \in Ids, ReportStarted(i) \/ ForwardToolCancel(i)
      PROVE  UNCHANGED viewVars
  BY <1>1, <1>3 DEF ReportStarted, ForwardToolCancel, flagVars, lifeVars
<1>4. ASSUME NEW c \in Clients, ClientDrops(c)
      PROVE  UNCHANGED viewVars
  BY <1>1, <1>4 DEF ClientDrops, flagVars, lifeVars
<1>5. CASE CloseCommands
  BY <1>1, <1>5 DEF CloseCommands, flagVars
<1>6. CASE Abort \/ Exit
  BY <1>6 DEF Abort, Exit
<1>7. ASSUME NEW i \in Ids, HandleStarted(i)
      PROVE  UNCHANGED viewVars
  <2>1. /\ Live' = Live
        /\ UNCHANGED <<completed, request, killed, spawnReply, caller, status,
                       waiterDelivered, surfaced, stopped>>
    BY <1>7 DEF HandleStarted, Promotable, flagVars, deliveryVars, lifeVars, Live
  <2> QED
    BY <2>1 DEF viewVars
<1>8. ASSUME NEW c \in Clients, NEW i \in Ids, FinishProgress(c, i) \/ FinishListSlot(c, i)
      PROVE  UNCHANGED viewVars
  BY <1>1, <1>8 DEF FinishProgress, FinishListSlot, flagVars, lifeVars
<1>9. ASSUME NEW c \in Clients, FinishLookup(c)
      PROVE  UNCHANGED viewVars
  BY <1>1, <1>9 DEF FinishLookup, flagVars, lifeVars
<1>10. CASE UNCHANGED vars
  BY <1>1, <1>10 DEF vars, flagVars, lifeVars
<1>11. CASE Environment
  BY <1>3, <1>4, <1>5, <1>6, <1>11 DEF Environment
<1>12. CASE ActorStep
  <2>1. "ended" \in Statuses
    BY DEF Statuses
  <2> QED
    BY <1>6, <1>7, <1>8, <1>9, <1>12, <2>1 DEF ActorStep, FinishChild, FinishPanickedChild
<1> QED
  BY <1>2, <1>10, <1>11, <1>12 DEF Next, Terminated

------------------------------------------------------------------------------
(* The callers that wait *)

LEMMA CallerStep ==
    ASSUME Inv, CallerInv, [Next]_vars
    PROVE  CallerInv'
<1> USE DEF Inv, TypeOK, CoreTypeOK
<1>1. CASE UNCHANGED viewVars
  BY <1>1 DEF viewVars, CallerInv
<1>2. CASE FlagsOnly
  BY <1>2 DEF FlagsOnly, ReapAndCancel, Abandoned, registryVars, deliveryVars, Live, CallerInv
<1>3. ASSUME NEW i \in Ids, NEW req \in Requests, Spawn(i, req)
      PROVE  CallerInv'
  BY <1>3 DEF Spawn, Abandoned, Live, CallerInv
<1>4. ASSUME NEW i \in Ids, CallerDrops(i)
      PROVE  CallerInv'
  BY <1>4 DEF CallerDrops, registryVars, Live, CallerInv
<1>5. ASSUME NEW kids \in SUBSET deadline, NEW due \in SUBSET waiters,
             ProcessDeadlines(kids, due)
      PROVE  CallerInv'
  BY <1>5 DEF ProcessDeadlines, HandedOff, CallerReceives, Abandoned, registryVars, Live, CallerInv
<1>6. ASSUME NEW i \in Ids, NEW st \in Statuses, Settle(i, st)
      PROVE  CallerInv'
  <2>1. Live' = Live \ {i} /\ spawnReply' = spawnReply \ {i}
    BY <1>6 DEF Settle, CoreInv, Partition, Live
  <2>2. caller' = [caller EXCEPT ![i] = IF CallerReceives(i) THEN "result" ELSE @]
    BY <1>6 DEF Settle
  <2> QED
    BY <2>1, <2>2 DEF CallerReceives, CallerInv
<1>7. CASE Shutdown
  BY <1>7 DEF Shutdown, CallerReceives, Live, CallerInv
<1> QED
  BY <1>1, <1>2, <1>3, <1>4, <1>5, <1>6, <1>7, StepCases

------------------------------------------------------------------------------
(* Each sort of step is an abstract step *)

LEMMA QuietStep ==
    ASSUME UNCHANGED viewVars
    PROVE  UNCHANGED Lifecycle!vars
BY DEF viewVars, Lifecycle!vars, Kept, KeptWaiting, KeptOwed, KeptApart, KeptKilled,
       AllInformed, Informed

LEMMA FlagsStep ==
    ASSUME Inv, FlagsOnly
    PROVE  Lifecycle!Next \/ UNCHANGED Lifecycle!vars
<1>1. PICK targets \in SUBSET Live, kills \in SUBSET Live :
         kills \subseteq targets /\ ReapAndCancel(targets, kills)
  BY DEF FlagsOnly
<1>2. /\ Live' = Live
      /\ UNCHANGED <<completed, request, caller, status, waiterDelivered, surfaced, stopped>>
  BY DEF FlagsOnly, registryVars, deliveryVars, lifeVars, Live
<1>3. killed' = killed \cup kills
  BY <1>1 DEF ReapAndCancel
<1>4. /\ Kept' = Kept /\ KeptWaiting' = KeptWaiting /\ KeptOwed' = KeptOwed
      /\ KeptApart' = KeptApart /\ AllInformed' = AllInformed
  BY <1>2 DEF Kept, KeptWaiting, KeptOwed, KeptApart, AllInformed, Informed
<1>5. KeptKilled' = KeptKilled \cup (kills \cap Kept)
  BY <1>3, <1>4 DEF KeptKilled
<1>6. Lifecycle!Kill(kills \cap Kept)
  BY <1>2, <1>4, <1>5 DEF Lifecycle!Kill
<1> QED
  BY <1>6 DEF Lifecycle!Next

LEMMA SpawnStep ==
    ASSUME Inv, NEW i \in Ids, NEW req \in Requests, Spawn(i, req)
    PROVE  Lifecycle!Next
<1> USE DEF Inv, TypeOK, CoreTypeOK
<1>1. /\ i \notin Live \cup completed /\ ~stopped /\ ~stopped'
      /\ Live' = Live \cup {i}
      /\ request' = [request EXCEPT ![i] = ReRooted(req)]
      /\ killed' = killed \ {i}
      /\ caller' = [caller EXCEPT ![i] = "waiting"]
      /\ status' = [status EXCEPT ![i] = "none"]
      /\ waiterDelivered' = waiterDelivered \ {i} /\ surfaced' = surfaced \ {i}
      /\ UNCHANGED completed
  BY DEF Spawn, lifeVars, Live, CoreInv, Partition
<1>2. Kept = Live /\ Kept' = Kept \cup {i} /\ Live \subseteq Ids
  BY <1>1 DEF Kept, Live
<1>3. KeptWaiting' = KeptWaiting \cup {i}
  BY <1>1, <1>2 DEF KeptWaiting
<1>4. request'[i] = ReRooted(req) /\ \A j \in Live : request'[j] = request[j]
  BY <1>1, <1>2
<1>5. ReRooted(req).surface \in BOOLEAN /\ ReRooted(req).background \in BOOLEAN
  BY ReRootedType DEF RequestType
<1>6. KeptOwed' = IF ReRooted(req).surface THEN KeptOwed \cup {i} ELSE KeptOwed
  BY <1>2, <1>4, <1>5 DEF KeptOwed
<1>7. KeptApart' = IF ReRooted(req).background THEN KeptApart \cup {i} ELSE KeptApart
  BY <1>2, <1>4, <1>5 DEF KeptApart
<1>8. KeptKilled' = KeptKilled
  BY <1>1, <1>2 DEF KeptKilled
<1>9. AllInformed' = [AllInformed EXCEPT ![i] = {}]
  <2>1. Informed(i)' = {}
    BY <1>1 DEF Informed
  <2>2. ASSUME NEW j \in Ids, j # i PROVE Informed(j)' = Informed(j)
    BY <1>1, <2>2 DEF Informed
  <2> QED
    BY <2>1, <2>2 DEF AllInformed
<1>10. Lifecycle!Begin(i, ReRooted(req).surface, ReRooted(req).background)
  BY <1>1, <1>2, <1>3, <1>6, <1>7, <1>8, <1>9 DEF Lifecycle!Begin
<1> QED
  BY <1>5, <1>10 DEF Lifecycle!Next

LEMMA DropStep ==
    ASSUME Inv, NEW i \in Ids, CallerDrops(i)
    PROVE  Lifecycle!Next
<1> USE DEF Inv, TypeOK, CoreTypeOK
<1>1. /\ Live' = Live /\ caller[i] = "waiting"
      /\ caller' = [caller EXCEPT ![i] = "gone"]
      /\ UNCHANGED <<completed, request, killed, status, waiterDelivered, surfaced, stopped>>
  BY DEF CallerDrops, registryVars, lifeVars, Live
<1>2. /\ Kept' = Kept /\ KeptOwed' = KeptOwed /\ KeptApart' = KeptApart
      /\ KeptKilled' = KeptKilled
  BY <1>1 DEF Kept, KeptOwed, KeptApart, KeptKilled
<1>3. KeptWaiting' = KeptWaiting \ (KeptWaiting \cap {i})
  BY <1>1, <1>2 DEF KeptWaiting, Kept, Live
<1>4. AllInformed' = AllInformed
  <2>1. ASSUME NEW j \in Ids PROVE Informed(j)' = Informed(j)
    BY <1>1 DEF Informed
  <2> QED
    BY <2>1 DEF AllInformed
<1>5. Lifecycle!LetGo(KeptWaiting \cap {i})
  BY <1>1, <1>2, <1>3, <1>4 DEF Lifecycle!LetGo
<1> QED
  BY <1>5 DEF Lifecycle!Next

LEMMA DeadlineStep ==
    ASSUME Inv, NEW kids \in SUBSET deadline, NEW due \in SUBSET waiters,
           ProcessDeadlines(kids, due)
    PROVE  Lifecycle!Next
<1> USE DEF Inv, TypeOK, CoreTypeOK
<1> DEFINE late == {j \in Kept : caller[j] = "waiting" /\ caller'[j] # "waiting"}
<1>1. /\ Live' = Live
      /\ caller' = [j \in Ids |-> IF j \in HandedOff(kids) /\ CallerReceives(j) THEN "handoff"
                                  ELSE caller[j]]
      /\ UNCHANGED <<completed, request, killed, status, waiterDelivered, surfaced, stopped>>
  BY DEF ProcessDeadlines, registryVars, lifeVars, Live
<1>2. /\ Kept' = Kept /\ KeptOwed' = KeptOwed /\ KeptApart' = KeptApart
      /\ KeptKilled' = KeptKilled
  BY <1>1 DEF Kept, KeptOwed, KeptApart, KeptKilled
<1>3. KeptWaiting' = KeptWaiting \ late /\ late \subseteq KeptWaiting
  BY <1>1, <1>2 DEF KeptWaiting, Kept, Live
<1>4. AllInformed' = AllInformed
  <2>1. ASSUME NEW j \in Ids PROVE Informed(j)' = Informed(j)
    BY <1>1 DEF Informed, CallerReceives
  <2> QED
    BY <2>1 DEF AllInformed
<1>5. Lifecycle!LetGo(late)
  BY <1>1, <1>2, <1>3, <1>4 DEF Lifecycle!LetGo
<1> QED
  BY <1>3, <1>5 DEF Lifecycle!Next

LEMMA StopStep ==
    ASSUME Inv, Shutdown
    PROVE  Lifecycle!Next
<1> USE DEF Inv, TypeOK, CoreTypeOK
<1>1. /\ stopped'
      /\ caller' = [i \in Ids |-> IF CallerReceives(i) THEN "lost" ELSE caller[i]]
      /\ UNCHANGED <<completed, status, waiterDelivered, surfaced>>
  BY DEF Shutdown
<1>2. Kept' = {}
  BY <1>1 DEF Kept
<1>3. KeptWaiting' = {} /\ KeptOwed' = {} /\ KeptApart' = {} /\ KeptKilled' = {}
  BY <1>2 DEF KeptWaiting, KeptOwed, KeptApart, KeptKilled
<1>4. AllInformed' = AllInformed
  <2>1. ASSUME NEW j \in Ids PROVE Informed(j)' = Informed(j)
    BY <1>1 DEF Informed, CallerReceives
  <2> QED
    BY <2>1 DEF AllInformed
<1>5. Lifecycle!Stop
  BY <1>1, <1>2, <1>3, <1>4 DEF Lifecycle!Stop
<1> QED
  BY <1>5 DEF Lifecycle!Next

\* The eviction loop never drops the child that has just settled: the cap is not 0.
LEMMA RememberKeepsNewest ==
    ASSUME Inv, NEW i \in Ids, i \notin completed, Remember(i)
    PROVE  i \in completed'
<1> USE DEF Inv, TypeOK, CoreTypeOK
<1> DEFINE order == Append(completedOrder, i)
<1>1. CASE completedOrder = <<>>
  <2>1. completed = {}
    BY <1>1 DEF OrderInv
  <2>2. Cardinality({i}) = 1
    BY FS_Singleton
  <2>3. ~(Cardinality(completed \cup {i}) > MaxCompleted)
    BY <2>1, <2>2, BoundsAssumption
  <2> QED
    BY <2>3 DEF Remember
<1>2. CASE completedOrder # <<>>
  <2>1. Head(order) = completedOrder[1] /\ 1 \in DOMAIN completedOrder
    BY <1>2
  <2>2. Head(order) # i
    BY <2>1 DEF OrderInv
  <2> QED
    BY <2>2 DEF Remember
<1> QED
  BY <1>1, <1>2

LEMMA SettleStep ==
    ASSUME Inv, CallerInv, NEW i \in Ids, NEW st \in Statuses, Settle(i, st)
    PROVE  Lifecycle!Next
<1> USE DEF Inv, TypeOK, CoreTypeOK
<1> DEFINE asked == Seen(i) # {}
           forgotten == completed \ completed'
<1>1. /\ ~stopped /\ ~stopped' /\ i \in Live /\ Live' = Live \ {i} /\ i \notin completed
      /\ UNCHANGED <<request, killed>>
  BY DEF Settle, CoreInv, Partition, Live, lifeVars
<1>2. /\ status' = [status EXCEPT ![i] = st]
      /\ caller' = [caller EXCEPT ![i] = IF CallerReceives(i) THEN "result" ELSE @]
      /\ waiterDelivered' = IF Seen(i) # {} THEN waiterDelivered \cup {i} ELSE waiterDelivered
      /\ surfaced' = IF ShouldSurface(i, st) THEN surfaced \cup {i} ELSE surfaced
  BY DEF Settle
<1>3. Kept = Live /\ Kept' = Kept \ {i} /\ Live \subseteq Ids /\ i \in Kept
  BY <1>1 DEF Kept, Live
<1>4. KeptWaiting' = KeptWaiting \ {i}
  BY <1>2, <1>3 DEF KeptWaiting
<1>5. /\ KeptOwed' = KeptOwed \ {i} /\ KeptApart' = KeptApart \ {i}
      /\ KeptKilled' = KeptKilled \ {i}
  BY <1>1, <1>3 DEF KeptOwed, KeptApart, KeptKilled
<1>6. completed' = (completed \cup {i}) \ forgotten /\ forgotten \in SUBSET completed
  <2>1. completed' \subseteq completed \cup {i}
    BY RememberTypes DEF Settle
  <2>2. i \in completed'
    BY <1>1, RememberKeepsNewest DEF Settle
  <2> QED
    BY <1>1, <2>1, <2>2
<1>7. Informed(i)' = Lifecycle!Told(i, st, asked)
  <2>1. i \in KeptWaiting <=> CallerReceives(i)
    BY <1>3 DEF KeptWaiting, CallerReceives, CallerInv
  <2>2. caller'[i] = "result" <=> i \in KeptWaiting
    BY <1>1, <1>2, <2>1 DEF CoreInv, LiveInv
  <2>3. i \in waiterDelivered' <=> asked
    BY <1>1, <1>2 DEF CoreInv, LiveInv
  <2>4. i \in surfaced' <=> ShouldSurface(i, st)
    BY <1>1, <1>2 DEF CoreInv, LiveInv
  <2>5. Backgrounded(i) <=> i \in KeptApart \/ i \notin KeptWaiting
    BY <1>1, <1>3, <2>1 DEF Backgrounded, CallerReceives, CoreInv, LiveInv, KeptApart
  <2>6. ShouldSurface(i, st) <=> /\ i \in KeptOwed \ KeptKilled /\ st = "ended" /\ ~asked
                                 /\ i \in KeptApart \/ i \notin KeptWaiting
    BY <1>3, <2>5 DEF ShouldSurface, KeptOwed, KeptKilled, Statuses
  <2> QED
    BY <2>2, <2>3, <2>4, <2>6 DEF Informed, Lifecycle!Told, Lifecycle!Audience
<1>8. AllInformed' = [AllInformed EXCEPT ![i] = Lifecycle!Told(i, st, asked)]
  <2>1. ASSUME NEW j \in Ids, j # i PROVE Informed(j)' = Informed(j)
    BY <1>2, <2>1 DEF Informed
  <2> QED
    BY <1>7, <2>1 DEF AllInformed
<1>9. Lifecycle!Settle(i, st, asked, forgotten)
  BY <1>2, <1>3, <1>4, <1>5, <1>6, <1>8 DEF Lifecycle!Settle
<1>10. asked \in BOOLEAN /\ st \in {"ended", "cancelled"}
  BY DEF Statuses
<1> QED
  BY <1>3, <1>6, <1>9, <1>10 DEF Lifecycle!Next

------------------------------------------------------------------------------
(* The refinement *)

LEMMA StepSimulation ==
    ASSUME Inv, CallerInv, [Next]_vars
    PROVE  [Lifecycle!Next]_(Lifecycle!vars)
BY StepCases, QuietStep, FlagsStep, SpawnStep, DropStep, DeadlineStep, SettleStep, StopStep

LEMMA InitSimulation ==
    ASSUME Init
    PROVE  Lifecycle!Init /\ CallerInv
<1>1. Live = {} /\ completed = {}
  BY DEF Init, Live
<1>2. Kept = {} /\ KeptWaiting = {} /\ KeptOwed = {} /\ KeptApart = {} /\ KeptKilled = {}
  BY <1>1 DEF Kept, KeptWaiting, KeptOwed, KeptApart, KeptKilled
<1>3. \A i \in Ids : Informed(i) = {} /\ caller[i] = "none"
  BY DEF Init, Informed
<1>4. AllInformed = [i \in Ids |-> {}]
  BY <1>3 DEF AllInformed
<1>5. status = [i \in Ids |-> "none"]
  BY DEF Init
<1> QED
  BY <1>1, <1>2, <1>3, <1>4, <1>5 DEF Lifecycle!Init, CallerInv

\* The coordinator implements SubagentLifecycle: every branch of its select!,
\* every drop of a receiver and its own end is a step of the abstract lifecycle or
\* leaves it alone, so each result is told once and to the right audience.
THEOREM LifecycleImplemented == Spec => ImplementsLifecycle
<1>1. Init => Lifecycle!Init /\ CallerInv
  BY InitSimulation
<1>2. Inv /\ CallerInv /\ [Next]_vars => CallerInv'
  BY CallerStep
<1>3. Inv /\ CallerInv /\ [Next]_vars => [Lifecycle!Next]_(Lifecycle!vars)
  BY StepSimulation
<1> QED
  BY <1>1, <1>2, <1>3, Invariance, PTL DEF Spec, ImplementsLifecycle, Lifecycle!Spec
==============================================================================
