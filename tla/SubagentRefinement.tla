------------------------- MODULE SubagentRefinement --------------------------
(***************************************************************************)
(* SubagentCoordinator implements SubagentLifecycle: the registry, the     *)
(* flags and the reply channels, seen through what they mean to callers.   *)
(***************************************************************************)
EXTENDS SubagentCoordinator

\* The children the coordinator still looks after.
Kept == {i \in Live : ~stopped}

KeptWaiting == {i \in Kept : caller[i] = "waiting"}
KeptOwed    == {i \in Kept : request[i].surface}
KeptApart   == {i \in Kept : request[i].background}
KeptKilled  == {i \in Kept : i \in killed}

\* Who has a child's result: its receiver fired, a waiter was answered, or the
\* completion was surfaced.
Informed(i) ==
    {a \in {"caller", "asker", "parent"} :
        \/ a = "caller" /\ caller[i] = "result"
        \/ a = "asker" /\ i \in waiterDelivered
        \/ a = "parent" /\ i \in surfaced}

AllInformed == [i \in Ids |-> Informed(i)]

Lifecycle == INSTANCE SubagentLifecycle WITH
    live <- Kept, done <- completed, waiting <- KeptWaiting, owed <- KeptOwed,
    apart <- KeptApart, killed <- KeptKilled, result <- status, told <- AllInformed

\* The coordinator keeps the promise of SubagentLifecycle: whatever the order of
\* promotions, kills, deadlines, dropped receivers, evictions and shutdowns, each
\* result is told once, when its child settles, to exactly the right audience.
ImplementsLifecycle == Lifecycle!Spec
==============================================================================
