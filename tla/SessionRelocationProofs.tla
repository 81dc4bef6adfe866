---------------------- MODULE SessionRelocationProofs -----------------------
(***************************************************************************)
(* Proofs about SessionRelocation, for any number of faults.               *)
(*                                                                         *)
(* SurvivesPowerLoss speaks of every mixture of directory contents that a  *)
(* power loss may reveal; it is not inductive, because it does not say how *)
(* far the procedure at `pc` has come.  The inductive invariant adds what  *)
(* each phase that may be on disk implies about the directories            *)
(* (DiskInv) and what each step has already made durable (StageInv,        *)
(* CommitInv, RollbackInv, WriteInv).                                      *)
(***************************************************************************)
EXTENDS SessionRelocation, TLAPS

Empty == [staging |-> "absent", session |-> "absent"]
Staging(d) == [staging |-> d, session |-> "absent"]
Published == [staging |-> "absent", session |-> "valid"]

\* The phases that may still be on disk while the journal reads j.
Before(j) ==
  CASE j = "Prepared" -> {"none", "RolledBack", "Prepared"}
    [] j = "Staged" -> {"Prepared", "Staged"}
    [] j = "TargetPublished" -> {"Staged", "TargetPublished"}
    [] j = "Ready" -> {"TargetPublished", "Ready"}
    [] j = "Committed" -> {"Ready", "Committed"}
    [] j = "RolledBack" -> {"Prepared", "Staged", "TargetPublished", "RolledBack"}
    [] j = "none" -> {"none", "Committed", "RolledBack"}

\* What a phase that may be on disk implies.
DiskInv ==
  /\ journalDisk \subseteq Before(journal)
  /\ "none" \in journalDisk =>
       \/ sourceDisk = {"valid"} /\ targetDisk = {Empty} /\ "Committed" \notin journalDisk
       \/ /\ sourceDisk = {"absent"} /\ targetDisk = {Published}
          /\ journalDisk \subseteq {"none", "Committed"}
  /\ journalDisk \cap {"Prepared", "Staged", "TargetPublished", "RolledBack"} # {} =>
       sourceDisk = {"valid"}
  /\ "Prepared" \in journalDisk => \A t \in targetDisk : t.session = "absent"
  /\ "RolledBack" \in journalDisk => targetDisk = {Empty}
  /\ journalDisk \cap {"Ready", "Committed"} # {} => targetDisk = {Published}
  /\ "Committed" \in journalDisk => sourceDisk = {"absent"}

StageInv ==
  /\ pc \in {"copy", "copying", "rewrite", "syncStaged"} =>
       phase = "Prepared" /\ journalDisk = {"Prepared"}
  /\ pc = "rewrite" => targetDisk = {Staging("copied")}
  /\ pc = "syncStaged" => target = Staging("valid")
  /\ pc \in {"publish", "syncPublished"} => phase = "Staged" /\ journalDisk = {"Staged"}
  /\ pc = "publish" => targetDisk = {Staging("valid")}
  /\ pc = "syncPublished" => target = Published
  /\ pc = "staged" =>
       phase = "TargetPublished" /\ journalDisk = {"TargetPublished"}
         /\ targetDisk = {Published}

CommitInv ==
  /\ pc \in {"commit", "checkTarget", "removeSource", "syncSource", "removeStaging",
             "syncStaging"} => phase = journal /\ journal \in {"Ready", "Committed"}
  /\ pc \in {"checkTarget", "removeSource", "syncSource", "removeStaging", "syncStaging"} =>
       journalDisk = {journal}
  /\ pc = "syncSource" => source = "absent"
  /\ pc \in {"removeStaging", "syncStaging"} => sourceDisk = {"absent"}

RollbackInv ==
  /\ pc = "recover" => phase = journal
  /\ pc \in {"rollback", "discardStaging", "syncDiscard", "checkDiscard", "discardTarget",
             "syncTarget"} =>
       /\ phase = journal /\ journalDisk = {journal}
       /\ journal \in {"Prepared", "Staged", "TargetPublished", "RolledBack"}
  /\ pc = "syncDiscard" => target.staging = "absent"
  /\ pc \in {"checkDiscard", "discardTarget"} => \A t \in targetDisk : t.staging = "absent"
  /\ pc = "syncTarget" => target = Empty
  /\ pc = "terminal" =>
       phase \in {"Committed", "RolledBack"} /\ verdict = phase /\ journalDisk = {phase}
  /\ pc = "finalSync" => journal = "none" /\ verdict \in {"Committed", "RolledBack"}

WriteInv ==
  /\ pc = "write" =>
       \/ /\ phase = "Prepared" /\ journal = "none" /\ verdict = "none"
          /\ sourceDisk = {"valid"}
       \/ phase = "Staged" /\ journalDisk = {"Prepared"} /\ targetDisk = {Staging("valid")}
       \/ phase = "TargetPublished" /\ journalDisk = {"Staged"} /\ targetDisk = {Published}
       \/ phase = "Ready" /\ journalDisk = {"TargetPublished"} /\ targetDisk = {Published}
       \/ phase = "Committed" /\ journalDisk = {"Ready"} /\ sourceDisk = {"absent"}
       \/ /\ phase = "RolledBack" /\ targetDisk = {Empty} /\ journalDisk = {journal}
          /\ journal \in {"Prepared", "Staged", "TargetPublished"}
  /\ pc = "barrier" =>
       /\ journal = phase
       /\ phase = "Staged" => targetDisk = {Staging("valid")}
       /\ phase = "TargetPublished" => targetDisk = {Published}

Inv == TypeOK /\ DiskInv /\ StageInv /\ CommitInv /\ RollbackInv /\ WriteInv /\ VerdictIsFinal

-----------------------------------------------------------------------------
(***************************************************************************)
(* Every action preserves Inv.                                             *)
(***************************************************************************)

USE DEF Phases, Dirs, TargetParents, Steps,
        Inv, TypeOK, DiskInv, StageInv, CommitInv, RollbackInv, WriteInv, VerdictIsFinal,
        Before, Empty, Staging, Published

\* Writing the journal and finalising it.
LEMMA JournalPreserves ==
  ASSUME Inv, WriteJournal \/ JournalBarrier \/ FinalizeTerminal \/ FinalBarrier
  PROVE  Inv'
<1>1. CASE WriteJournal
  BY <1>1 DEF WriteJournal, PutJournal, Goto
<1>2. CASE JournalBarrier
  <2> USE <1>2 DEF JournalBarrier, SyncJournal
  <2>1. CASE phase \in {"Prepared", "Staged", "Ready"}
    <3> USE <2>1 DEF Goto
    <3>1. TypeOK'
      <4>1. pc' \in {"copy", "publish", "commit"} /\ UNCHANGED <<phase, verdict, token, faults>>
        OBVIOUS
      <4>2. /\ journalDisk' = {journal} /\ journal' = journal
            /\ UNCHANGED <<source, target, sourceDisk, targetDisk>>
        OBVIOUS
      <4> QED BY <4>1, <4>2
    <3>2. DiskInv'
      OBVIOUS
    <3>3. StageInv'
      OBVIOUS
    <3>4. CommitInv'
      OBVIOUS
    <3>5. RollbackInv'
      OBVIOUS
    <3>6. WriteInv'
      OBVIOUS
    <3>7. VerdictIsFinal'
      OBVIOUS
    <3> QED BY <3>1, <3>2, <3>3, <3>4, <3>5, <3>6, <3>7
  <2>2. CASE phase = "TargetPublished"
    BY <2>2 DEF ReturnToken
  <2>3. CASE phase \in {"Committed", "RolledBack"}
    <3> USE <2>3 DEF Prove
    <3>1. TypeOK'
      OBVIOUS
    <3>2. DiskInv'
      OBVIOUS
    <3>3. StageInv'
      OBVIOUS
    <3>4. CommitInv'
      OBVIOUS
    <3>5. RollbackInv'
      OBVIOUS
    <3>6. WriteInv'
      OBVIOUS
    <3>7. VerdictIsFinal'
      <4>1. journal = phase /\ journal \in journalDisk /\ journalDisk' = {journal}
        OBVIOUS
      <4>2. CASE phase = "Committed"
        <5>1. sourceDisk = {"absent"}
          BY <4>1, <4>2
        <5> QED BY <4>1, <4>2, <5>1
      <4>3. CASE phase = "RolledBack"
        <5>1. targetDisk = {Empty}
          BY <4>1, <4>3
        <5> QED BY <4>1, <4>3, <5>1
      <4> QED BY <4>2, <4>3, <2>3
    <3> QED BY <3>1, <3>2, <3>3, <3>4, <3>5, <3>6, <3>7
  <2> QED BY <2>1, <2>2, <2>3
<1>3. CASE FinalizeTerminal
  BY <1>3 DEF FinalizeTerminal, PutJournal, Goto, disk
<1>4. CASE FinalBarrier
  BY <1>4 DEF FinalBarrier, SyncJournal, Goto
<1> QED BY <1>1, <1>2, <1>3, <1>4

\* stage_and_publish.
LEMMA StagePreserves ==
  ASSUME Inv, StageAndPublish \/ CopyBegins \/ CopyEnds \/ RewriteStagedSummary \/ StagedBarrier \/ Publish \/ PublishedBarrier
  PROVE  Inv'
<1>1. CASE StageAndPublish
  BY <1>1 DEF StageAndPublish, disk, SourceMatches
<1>2. CASE CopyBegins
  BY <1>2 DEF CopyBegins, PutTarget, Goto
<1>3. CASE CopyEnds
  BY <1>3 DEF CopyEnds, Goto
<1>4. CASE RewriteStagedSummary
  BY <1>4 DEF RewriteStagedSummary, PutTarget, Goto
<1>5. CASE StagedBarrier
  BY <1>5 DEF StagedBarrier, SyncTarget, SetPhase
<1>6. CASE Publish
  BY <1>6 DEF Publish, PutTarget, Goto
<1>7. CASE PublishedBarrier
  BY <1>7 DEF PublishedBarrier, SyncTarget, SetPhase
<1> QED BY <1>1, <1>2, <1>3, <1>4, <1>5, <1>6, <1>7

\* The owner decides, or recovery does.
LEMMA DecisionPreserves ==
  ASSUME Inv, MarkReadyAndCommit \/ RetryCommit \/ Rollback \/ Recover \/ RecoverBarrier
  PROVE  Inv'
<1>1. CASE MarkReadyAndCommit
  BY <1>1 DEF MarkReadyAndCommit, SetPhase, Goto, disk, TargetMatches
<1>2. CASE RetryCommit
  BY <1>2 DEF RetryCommit, disk, has_target_authority
<1>3. CASE Rollback
  BY <1>3 DEF Rollback, Goto, disk
<1>4. CASE Recover
  BY <1>4 DEF Recover, disk
<1>5. CASE RecoverBarrier
  BY <1>5 DEF RecoverBarrier, SyncJournal, Goto, recovery_action, has_target_authority
<1> QED BY <1>1, <1>2, <1>3, <1>4, <1>5

\* finish_commit.
LEMMA CommitPreserves ==
  ASSUME Inv, CommitBarrier \/ CommitCheck \/ RemoveSource \/ SourceBarrier \/ RemoveStaging \/ CommitEnds
  PROVE  Inv'
<1>1. CASE CommitBarrier
  BY <1>1 DEF CommitBarrier, SyncJournal, Goto
<1>2. CASE CommitCheck
  BY <1>2 DEF CommitCheck, Goto, disk, TargetMatches
<1>3. CASE RemoveSource
  BY <1>3 DEF RemoveSource, PutSource, Goto, Torn
<1>4. CASE SourceBarrier
  BY <1>4 DEF SourceBarrier, SyncSource, Goto
<1>5. CASE RemoveStaging
  BY <1>5 DEF RemoveStaging, PutTarget, Goto
<1>6. CASE CommitEnds
  BY <1>6 DEF CommitEnds, SyncTarget, SetPhase, Prove
<1> QED BY <1>1, <1>2, <1>3, <1>4, <1>5, <1>6

\* finish_rollback.
LEMMA RollbackPreserves ==
  ASSUME Inv, RollbackCheck \/ DiscardStaging \/ DiscardBarrier \/ DiscardCheck \/ DiscardTarget \/ RollbackEnds
  PROVE  Inv'
<1>1. CASE RollbackCheck
  BY <1>1 DEF RollbackCheck, Goto, disk, SourceMatches
<1>2. CASE DiscardStaging
  BY <1>2 DEF DiscardStaging, PutTarget, Goto, Torn
<1>3. CASE DiscardBarrier
  BY <1>3 DEF DiscardBarrier, SyncTarget, Goto
<1>4. CASE DiscardCheck
  BY <1>4 DEF DiscardCheck, Goto, disk, TargetMatches
<1>5. CASE DiscardTarget
  BY <1>5 DEF DiscardTarget, PutTarget, Goto, Torn
<1>6. CASE RollbackEnds
  BY <1>6 DEF RollbackEnds, SyncTarget, SetPhase, Prove
<1> QED BY <1>1, <1>2, <1>3, <1>4, <1>5, <1>6

\* Faults: only a power loss changes a directory, and to what DiskInv allows.
LEMMA FaultPreserves ==
  ASSUME Inv, IOError \/ ProcessDies \/ PowerLoss
  PROVE  Inv'
<1>1. faults' \in 0..MaxFaults
  BY FaultsAssumption DEF IOError, ProcessDies, PowerLoss, Budget
<1>2. CASE IOError
  <2> USE <1>1, <1>2 DEF IOError, StageSteps, OtherCalls, disk
  <2>1. TypeOK'
    OBVIOUS
  <2>2. DiskInv'
    OBVIOUS
  <2>3. StageInv'
    OBVIOUS
  <2>4. CommitInv'
    OBVIOUS
  <2>5. RollbackInv'
    OBVIOUS
  <2>6. WriteInv'
    OBVIOUS
  <2>7. VerdictIsFinal'
    OBVIOUS
  <2> QED BY <2>1, <2>2, <2>3, <2>4, <2>5, <2>6, <2>7
<1>3. CASE ProcessDies
  <2> USE <1>1, <1>3 DEF ProcessDies, disk
  <2>1. TypeOK'
    OBVIOUS
  <2>2. DiskInv'
    OBVIOUS
  <2>3. StageInv'
    OBVIOUS
  <2>4. CommitInv'
    OBVIOUS
  <2>5. RollbackInv'
    OBVIOUS
  <2>6. WriteInv'
    OBVIOUS
  <2>7. VerdictIsFinal'
    OBVIOUS
  <2> QED BY <2>1, <2>2, <2>3, <2>4, <2>5, <2>6, <2>7
<1>4. CASE PowerLoss
  <2> USE <1>1, <1>4 DEF PowerLoss
  <2>1. TypeOK'
    <3>1. journal' \in journalDisk' /\ journalDisk' \subseteq Phases \cup {"none"}
      OBVIOUS
    <3>2. source' \in sourceDisk' /\ sourceDisk' \subseteq Dirs
      OBVIOUS
    <3>3. target' \in targetDisk' /\ targetDisk' \subseteq TargetParents
      OBVIOUS
    <3>4. pc' \in Steps /\ phase' \in Phases /\ verdict' \in {"none", "Committed", "RolledBack"}
      OBVIOUS
    <3>5. token' \in BOOLEAN /\ faults' \in 0..MaxFaults
      OBVIOUS
    <3> QED BY <3>1, <3>2, <3>3, <3>4, <3>5
  <2>2. DiskInv'
    OBVIOUS
  <2>3. StageInv'
    OBVIOUS
  <2>4. CommitInv'
    OBVIOUS
  <2>5. RollbackInv'
    OBVIOUS
  <2>6. WriteInv'
    OBVIOUS
  <2>7. VerdictIsFinal'
    OBVIOUS
  <2> QED BY <2>1, <2>2, <2>3, <2>4, <2>5, <2>6, <2>7
<1> QED BY <1>2, <1>3, <1>4

-----------------------------------------------------------------------------

LEMMA InitInv == Init => Inv
<1> SUFFICES ASSUME Init PROVE Inv
  OBVIOUS
<1> USE FaultsAssumption DEF Init
<1>1. TypeOK
  <2>1. journal \in journalDisk /\ journalDisk \subseteq Phases \cup {"none"}
    OBVIOUS
  <2>2. source \in sourceDisk /\ sourceDisk \subseteq Dirs
    OBVIOUS
  <2>3. target \in TargetParents /\ targetDisk = {target}
    OBVIOUS
  <2>4. pc \in Steps /\ phase \in Phases /\ verdict \in {"none", "Committed", "RolledBack"}
    OBVIOUS
  <2>5. token \in BOOLEAN
    BY Zenon
  <2>6. faults \in 0..MaxFaults
    OBVIOUS
  <2> QED BY <2>1, <2>2, <2>3, <2>4, <2>5, <2>6
<1>2. DiskInv
  OBVIOUS
<1>3. StageInv
  OBVIOUS
<1>4. CommitInv
  OBVIOUS
<1>5. RollbackInv
  OBVIOUS
<1>6. WriteInv
  OBVIOUS
<1>7. VerdictIsFinal
  OBVIOUS
<1> QED BY <1>1, <1>2, <1>3, <1>4, <1>5, <1>6, <1>7

LEMMA NextInv == Inv /\ [Next]_vars => Inv'
<1> SUFFICES ASSUME Inv, [Next]_vars PROVE Inv'
  OBVIOUS
<1>1. CASE UNCHANGED vars
  BY <1>1 DEF vars
<1>2. CASE Next
  BY <1>2, JournalPreserves, StagePreserves, DecisionPreserves, CommitPreserves,
     RollbackPreserves, FaultPreserves DEF Next, Proceed, Fault
<1> QED BY <1>1, <1>2

HIDE DEF Inv, TypeOK, VerdictIsFinal

LEMMA InvCorrect == Spec => []Inv
BY InitInv, NextInv, PTL DEF Spec

\* The type invariant: what a process sees is always among what may be on
\* disk, and the published session directory is never one whose summary was
\* not rewritten.
THEOREM TypeCorrect == Spec => []TypeOK
<1>1. Inv => TypeOK BY DEF Inv
<1> QED BY <1>1, InvCorrect, PTL

\* No sequence of I/O errors, process deaths and power losses, however long,
\* leaves the journal pointing to a copy that is missing or torn.
THEOREM PowerLossCorrect == Spec => []SurvivesPowerLoss
<1>1. Inv => SurvivesPowerLoss
  BY DEF Inv, TypeOK, SurvivesPowerLoss, ChosenIsWhole, has_target_authority
<1> QED BY <1>1, InvCorrect, PTL

\* A Committed or RolledBack proof returned by mark_ready_and_commit,
\* rollback or recover is never contradicted by what a later power loss
\* reveals.
THEOREM VerdictCorrect == Spec => []VerdictIsFinal
<1>1. Inv => VerdictIsFinal BY DEF Inv
<1> QED BY <1>1, InvCorrect, PTL

\* Whenever no journal is left and the lease is free, there is one session
\* directory and no staging copy.
THEOREM NoLitterCorrect == Spec => []NoLitter
<1>1. Inv => NoLitter
  BY DEF Inv, TypeOK, NoLitter
<1> QED BY <1>1, InvCorrect, PTL

=============================================================================
