-------------------------- MODULE SubagentLifecycle --------------------------
(***************************************************************************)
(* What the subagent coordinator promises to those who start children,     *)
(* without its maps, channels, timers and flags.  A child is begun, lives, *)
(* and settles once; at that moment, and at no other, its result is told:  *)
(* to the spawn caller if it still listens, to whoever is blocked on it,   *)
(* and to the parent exactly when the parent is owed it and nobody else    *)
(* has it.  Telling is never repeated, withdrawn, or done for a child that *)
(* is killed, cancelled, or lost with the coordinator.                     *)
(***************************************************************************)
CONSTANT Ids

VARIABLES
    live, done,   \* children begun and not settled; settled and still known
    waiting,      \* live children whose spawn caller listens
    owed,         \* live children whose result the parent asked to see
    apart,        \* live children begun in the background
    killed,       \* live children somebody explicitly killed
    result,       \* how each child ended
    told          \* who has been told each child's result

vars == <<live, done, waiting, owed, apart, killed, result, told>>

Audience == {"caller", "asker", "parent"}

Init ==
    /\ live = {} /\ done = {} /\ waiting = {} /\ owed = {} /\ apart = {} /\ killed = {}
    /\ result = [i \in Ids |-> "none"]
    /\ told = [i \in Ids |-> {}]

Begin(i, shown, background) ==
    /\ i \notin live \cup done
    /\ live' = live \cup {i}
    /\ waiting' = waiting \cup {i}
    /\ owed' = IF shown THEN owed \cup {i} ELSE owed
    /\ apart' = IF background THEN apart \cup {i} ELSE apart
    /\ result' = [result EXCEPT ![i] = "none"]
    /\ told' = [told EXCEPT ![i] = {}]
    /\ UNCHANGED <<done, killed>>

\* Callers stop listening: they went away, or were handed off at their deadline.
LetGo(callers) ==
    /\ callers \subseteq waiting
    /\ waiting' = waiting \ callers
    /\ UNCHANGED <<live, done, owed, apart, killed, result, told>>

Kill(kids) ==
    /\ kids \subseteq live
    /\ killed' = killed \cup kids
    /\ UNCHANGED <<live, done, waiting, owed, apart, result, told>>

\* Who is told that i has ended, when `asked` says that somebody blocks on it.
Told(i, st, asked) ==
    {a \in Audience :
        \/ a = "caller" /\ i \in waiting
        \/ a = "asker" /\ asked
        \/ /\ a = "parent"
           /\ i \in owed \ killed /\ st = "ended" /\ ~asked
           /\ i \in apart \/ i \notin waiting}

\* i settles; the registry may forget other settled children.
Settle(i, st, asked, forgotten) ==
    /\ i \in live
    /\ forgotten \subseteq done
    /\ live' = live \ {i}
    /\ done' = (done \cup {i}) \ forgotten
    /\ waiting' = waiting \ {i} /\ owed' = owed \ {i}
    /\ apart' = apart \ {i} /\ killed' = killed \ {i}
    /\ result' = [result EXCEPT ![i] = st]
    /\ told' = [told EXCEPT ![i] = Told(i, st, asked)]

\* The coordinator is gone: nobody is told anything any more.
Stop ==
    /\ live' = {} /\ waiting' = {} /\ owed' = {} /\ apart' = {} /\ killed' = {}
    /\ UNCHANGED <<done, result, told>>

Next ==
    \/ \E i \in Ids, shown, background \in BOOLEAN : Begin(i, shown, background)
    \/ \E callers \in SUBSET waiting : LetGo(callers)
    \/ \E kids \in SUBSET live : Kill(kids)
    \/ \E i \in live, st \in {"ended", "cancelled"}, asked \in BOOLEAN, forgotten \in SUBSET done :
          Settle(i, st, asked, forgotten)
    \/ Stop

Spec == Init /\ [][Next]_vars
==============================================================================
