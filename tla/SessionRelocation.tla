-------------------------- MODULE SessionRelocation --------------------------
(***************************************************************************)
(* The durable relocation of one dormant session directory from the        *)
(* directory of its old cwd (the source) to that of its new cwd (the       *)
(* target): xai-grok-shell, session/storage/relocation.  A journal file    *)
(* names the phase of the transaction, and the phase names the copy that   *)
(* counts.  Every procedure runs under the session's file lock, so at most *)
(* one process is inside them: `pc` is where the lease holder stands, and  *)
(* "free" when nobody holds the lease.                                     *)
(*                                                                         *)
(* The file system is three directories: the one of the journal, the       *)
(* parent of the source, the parent of the target and of its staging copy. *)
(* A change is visible at once and durable when its directory is synced:   *)
(* journalDisk, sourceDisk and targetDisk are the sets of contents that a  *)
(* power loss may reveal.  A rename is atomic; a recursive removal is not. *)
(* Any I/O call may fail, the process may die and the power may go between *)
(* any two of them; `faults` counts those events up to MaxFaults.          *)
(* Definitions whose names end in _bug are faulty variants of the          *)
(* definition that follows them; nothing uses them but mutation runs.      *)
(***************************************************************************)
EXTENDS Naturals

CONSTANT MaxFaults    \* bound on I/O errors, process deaths and power losses

ASSUME FaultsAssumption == MaxFaults \in Nat

VARIABLES
  journal, source, target,              \* what a process sees
  journalDisk, sourceDisk, targetDisk,  \* what may be found after a power loss
  pc,       \* the lease holder's next step
  phase,    \* journal.phase in the lease holder's memory
  verdict,  \* the terminal phase last proved to a caller, or "none"
  token,    \* a StagedRelocation of this transaction is in a live process
  faults

disk == <<journal, source, target, journalDisk, sourceDisk, targetDisk>>
vars == <<journal, source, target, journalDisk, sourceDisk, targetDisk,
          pc, phase, verdict, token, faults>>

Phases == {"Prepared", "Staged", "TargetPublished", "Ready", "Committed", "RolledBack"}

(***************************************************************************)
(* A session directory is "valid" (complete, with the summary that belongs *)
(* there), "gutted" (its summary is there, something else is missing),     *)
(* "headless" (the summary is missing) or "absent".  A staging copy is     *)
(* also "copied": complete, still with the source's summary.               *)
(***************************************************************************)
Dirs == {"valid", "gutted", "headless", "absent"}

\* What an interrupted remove_dir_all can leave of a directory.
Torn(d) == IF d \in {"valid", "copied"} THEN {"gutted", "headless"}
           ELSE IF d = "gutted" THEN {"headless"} ELSE {}

TargetParents == [staging : Dirs \cup {"copied"}, session : Dirs]

Steps == {"free", "write", "barrier", "copy", "copying", "rewrite", "syncStaged", "publish",
          "syncPublished", "staged", "recover", "commit", "checkTarget", "removeSource",
          "syncSource", "removeStaging", "syncStaging", "rollback", "discardStaging",
          "syncDiscard", "checkDiscard", "discardTarget", "syncTarget", "terminal", "finalSync"}

Init ==
  /\ journal = "none" /\ source = "valid"
  /\ target = [staging |-> "absent", session |-> "absent"]
  /\ journalDisk = {journal} /\ sourceDisk = {source} /\ targetDisk = {target}
  /\ pc = "free" /\ phase = "Prepared" /\ verdict = "none" /\ token = FALSE /\ faults = 0

has_target_authority(p) == p \in {"Ready", "Committed"}

-----------------------------------------------------------------------------
(***************************************************************************)
(* The shapes of a step: a change not yet durable, a directory sync, a     *)
(* decision.                                                               *)
(***************************************************************************)

Goto(step) == pc' = step /\ UNCHANGED <<phase, verdict, token, faults>>

PutJournal(p) ==
  /\ journal' = p /\ journalDisk' = journalDisk \cup {p}
  /\ UNCHANGED <<source, target, sourceDisk, targetDisk>>

PutSource(d) ==
  /\ source' = d /\ sourceDisk' = sourceDisk \cup {d}
  /\ UNCHANGED <<journal, target, journalDisk, targetDisk>>

PutTarget(dirs) ==
  /\ target' = dirs /\ targetDisk' = targetDisk \cup {dirs}
  /\ UNCHANGED <<journal, source, journalDisk, sourceDisk>>

SyncJournal ==
  /\ journalDisk' = {journal}
  /\ UNCHANGED <<journal, source, target, sourceDisk, targetDisk>>

SyncSource ==
  /\ sourceDisk' = {source}
  /\ UNCHANGED <<journal, source, target, journalDisk, targetDisk>>

SyncTarget ==
  /\ targetDisk' = {target}
  /\ UNCHANGED <<journal, source, target, journalDisk, sourceDisk>>

\* journal.phase = p, and on to write_journal.
SetPhase(p) == phase' = p /\ pc' = "write" /\ UNCHANGED <<verdict, token, faults>>

\* validate_source_summary and validate_target read the summary only.
SourceMatches == source \in {"valid", "gutted"}
TargetMatches == target.session \in {"valid", "gutted"}

-----------------------------------------------------------------------------
(***************************************************************************)
(* write_journal: the rename publishes the phase, the sync makes it        *)
(* durable.                                                                *)
(***************************************************************************)

WriteJournal ==
  /\ pc = "write"
  /\ PutJournal(phase)
  /\ Goto("barrier")

\* A terminal phase is on disk: the caller gets its proof.
Prove == pc' = "terminal" /\ verdict' = phase /\ UNCHANGED <<phase, token, faults>>

\* stage_and_publish returns its transaction; the lease is still held.
ReturnToken == pc' = "staged" /\ token' = TRUE /\ UNCHANGED <<phase, verdict, faults>>

JournalBarrier ==
  /\ pc = "barrier"
  /\ SyncJournal
  /\ CASE phase = "Prepared" -> Goto("copy")
       [] phase = "Staged" -> Goto("publish")
       [] phase = "TargetPublished" -> ReturnToken
       [] phase = "Ready" -> Goto("commit")
       [] phase \in {"Committed", "RolledBack"} -> Prove

-----------------------------------------------------------------------------
(***************************************************************************)
(* stage_and_publish.                                                      *)
(***************************************************************************)

\* Take the lease; refuse unless the source matches, there is no journal and
\* both names at the target are free.
StageAndPublish ==
  /\ pc = "free"
  /\ journal = "none"
  /\ SourceMatches
  /\ target = [staging |-> "absent", session |-> "absent"]
  /\ phase' = "Prepared" /\ pc' = "write" /\ verdict' = "none" /\ token' = FALSE
  /\ UNCHANGED <<disk, faults>>

CopyBegins ==
  /\ pc = "copy"
  /\ PutTarget([target EXCEPT !.staging = "headless"])
  /\ Goto("copying")

\* Every file and directory of the copy has been synced.
CopyEnds ==
  /\ pc = "copying"
  /\ target' = [target EXCEPT !.staging = "copied"]
  /\ targetDisk' = {target'}
  /\ UNCHANGED <<journal, source, journalDisk, sourceDisk>>
  /\ Goto("rewrite")

RewriteStagedSummary_bug ==
  /\ pc = "rewrite"
  /\ Goto("syncStaged")
  /\ UNCHANGED disk

RewriteStagedSummary ==
  /\ pc = "rewrite"
  /\ PutTarget([target EXCEPT !.staging = "valid"])
  /\ Goto("syncStaged")

StagedBarrier ==
  /\ pc = "syncStaged"
  /\ SyncTarget
  /\ SetPhase("Staged")

\* rename_no_replace(staging, target)
Publish ==
  /\ pc = "publish"
  /\ PutTarget([staging |-> "absent", session |-> target.staging])
  /\ Goto("syncPublished")

PublishedBarrier ==
  /\ pc = "syncPublished"
  /\ SyncTarget
  /\ SetPhase("TargetPublished")

-----------------------------------------------------------------------------
(***************************************************************************)
(* mark_ready_and_commit, rollback and recover.                            *)
(***************************************************************************)

MarkReadyAndCommit ==
  /\ pc = "staged"
  /\ IF TargetMatches THEN SetPhase("Ready") ELSE Goto("free")
  /\ UNCHANGED disk

\* The owner got RecoveryRequired and calls mark_ready_and_commit again: a
\* journal that is Ready or Committed sends it straight to finish_commit.
RetryCommit ==
  /\ pc = "free"
  /\ token
  /\ has_target_authority(journal)
  /\ phase' = journal /\ pc' = "commit"
  /\ UNCHANGED <<disk, verdict, token, faults>>

Rollback ==
  /\ pc = "staged"
  /\ Goto("rollback")
  /\ UNCHANGED disk

\* recover_all finds a journal whose lease is free.
Recover ==
  /\ pc = "free"
  /\ journal # "none"
  /\ phase' = journal /\ pc' = "recover"
  /\ UNCHANGED <<disk, verdict, token, faults>>

\* Source wins through TargetPublished; target wins from Ready onward.
recovery_action(p) == IF has_target_authority(p) THEN "commit" ELSE "rollback"

RecoverBarrier ==
  /\ pc = "recover"
  /\ SyncJournal
  /\ Goto(recovery_action(phase))

(***************************************************************************)
(* finish_commit.                                                          *)
(***************************************************************************)

CommitBarrier_bug ==
  /\ pc = "commit"
  /\ Goto("checkTarget")
  /\ UNCHANGED disk

\* sync_journal_namespace: whatever wrote Ready, it is durable from here on.
CommitBarrier ==
  /\ pc = "commit"
  /\ SyncJournal
  /\ Goto("checkTarget")

CommitCheck ==
  /\ pc = "checkTarget"
  /\ Goto(IF TargetMatches THEN "removeSource" ELSE "free")
  /\ UNCHANGED disk

\* remove_dir_all takes entries away one by one and the directory last.
RemoveSource ==
  /\ pc = "removeSource"
  /\ \/ (\E d \in Torn(source) : PutSource(d)) /\ Goto("removeSource")
     \/ PutSource("absent") /\ Goto("syncSource")

SourceBarrier_bug ==
  /\ pc = "syncSource"
  /\ Goto("removeStaging")
  /\ UNCHANGED disk

SourceBarrier ==
  /\ pc = "syncSource"
  /\ SyncSource
  /\ Goto("removeStaging")

RemoveStaging ==
  /\ pc = "removeStaging"
  /\ PutTarget([target EXCEPT !.staging = "absent"])
  /\ Goto("syncStaging")

CommitEnds ==
  /\ pc = "syncStaging"
  /\ SyncTarget
  /\ IF phase # "Committed" THEN SetPhase("Committed") ELSE Prove

(***************************************************************************)
(* finish_rollback.                                                        *)
(***************************************************************************)

RollbackCheck ==
  /\ pc = "rollback"
  /\ Goto(IF SourceMatches THEN "discardStaging" ELSE "free")
  /\ UNCHANGED disk

DiscardStaging_bug ==
  /\ pc = "discardStaging"
  /\ Goto("syncDiscard")
  /\ UNCHANGED disk

DiscardStaging ==
  /\ pc = "discardStaging"
  /\ \/ /\ \E d \in Torn(target.staging) : PutTarget([target EXCEPT !.staging = d])
        /\ Goto("discardStaging")
     \/ PutTarget([target EXCEPT !.staging = "absent"]) /\ Goto("syncDiscard")

DiscardBarrier ==
  /\ pc = "syncDiscard"
  /\ SyncTarget
  /\ Goto("checkDiscard")

\* if target.exists() { validate_target }
DiscardCheck ==
  /\ pc = "checkDiscard"
  /\ Goto(IF target.session = "absent" \/ TargetMatches THEN "discardTarget" ELSE "free")
  /\ UNCHANGED disk

DiscardTarget ==
  /\ pc = "discardTarget"
  /\ \/ /\ \E d \in Torn(target.session) : PutTarget([target EXCEPT !.session = d])
        /\ Goto("discardTarget")
     \/ PutTarget([target EXCEPT !.session = "absent"]) /\ Goto("syncTarget")

RollbackEnds ==
  /\ pc = "syncTarget"
  /\ SyncTarget
  /\ IF phase # "RolledBack" THEN SetPhase("RolledBack") ELSE Prove

(***************************************************************************)
(* finalize_terminal: the journal still equals the proof, and goes; when   *)
(* it is gone already, its removal is made durable.                        *)
(***************************************************************************)

FinalizeTerminal_bug ==
  /\ pc = "terminal"
  /\ IF journal = "Committed" THEN PutJournal("none") /\ Goto("finalSync")
                               ELSE Goto("free") /\ UNCHANGED disk

FinalizeTerminal ==
  /\ pc = "terminal"
  /\ CASE journal = phase -> PutJournal("none") /\ Goto("finalSync")
       [] journal = "none" -> Goto("finalSync") /\ UNCHANGED disk
       [] OTHER -> Goto("free") /\ UNCHANGED disk

FinalBarrier ==
  /\ pc = "finalSync"
  /\ SyncJournal
  /\ Goto("free")

-----------------------------------------------------------------------------
(***************************************************************************)
(* Faults.                                                                 *)
(***************************************************************************)

Budget == faults < MaxFaults /\ faults' = faults + 1

\* Where an error rolls the half-made stage back (rollback_failed_stage).
StageSteps == {"copy", "copying", "rewrite", "syncStaged", "publish"}

\* Where an error is RecoveryRequired, or is passed on: the lease goes.
OtherCalls == Steps \ (StageSteps \cup {"free", "write", "staged"})

\* The call at pc fails.  A write that is NotCommitted leaves the old phase
\* in place; only the one to Staged is undone on the spot.
IOError ==
  /\ Budget
  /\ UNCHANGED <<disk, verdict, token>>
  /\ \/ pc \in StageSteps /\ pc' = "rollback" /\ UNCHANGED phase
     \/ pc = "write" /\ phase = "Staged" /\ pc' = "rollback" /\ phase' = "Prepared"
     \/ pc = "write" /\ phase # "Staged" /\ pc' = "free" /\ UNCHANGED phase
     \/ pc \in OtherCalls /\ pc' = "free" /\ UNCHANGED phase

\* The lease holder dies, or drops the lease; the kernel keeps the files.
ProcessDies ==
  /\ Budget
  /\ pc # "free"
  /\ pc' = "free" /\ token' = FALSE
  /\ UNCHANGED <<disk, phase, verdict>>

\* The machine comes back with one of the contents each directory may have.
PowerLoss ==
  /\ Budget
  /\ pc' = "free" /\ token' = FALSE
  /\ journal' \in journalDisk /\ source' \in sourceDisk /\ target' \in targetDisk
  /\ journalDisk' = {journal'} /\ sourceDisk' = {source'} /\ targetDisk' = {target'}
  /\ UNCHANGED <<phase, verdict>>

-----------------------------------------------------------------------------

\* One step of the procedure the lease holder is in.
Proceed ==
  \/ WriteJournal \/ JournalBarrier
  \/ CopyBegins \/ CopyEnds \/ RewriteStagedSummary \/ StagedBarrier
  \/ Publish \/ PublishedBarrier
  \/ RecoverBarrier
  \/ CommitBarrier \/ CommitCheck \/ RemoveSource \/ SourceBarrier
  \/ RemoveStaging \/ CommitEnds
  \/ RollbackCheck \/ DiscardStaging \/ DiscardBarrier \/ DiscardCheck
  \/ DiscardTarget \/ RollbackEnds
  \/ FinalizeTerminal \/ FinalBarrier

Fault == IOError \/ ProcessDies \/ PowerLoss

Next ==
  \/ StageAndPublish \/ MarkReadyAndCommit \/ RetryCommit \/ Rollback \/ Recover
  \/ Proceed
  \/ Fault

Spec == Init /\ [][Next]_vars

(***************************************************************************)
(* A process that is inside a procedure runs on, and recover_all is called *)
(* again and again (every listing of the sessions calls it).  Nothing      *)
(* makes the owner of a staged relocation decide, and faults are finitely  *)
(* many because of their bound.                                            *)
(***************************************************************************)
FairSpec == Spec /\ WF_vars(Proceed) /\ WF_vars(Recover)

-----------------------------------------------------------------------------
(***************************************************************************)
(* Properties.                                                             *)
(***************************************************************************)

\* Type correctness; what is visible is among what may be on disk.
TypeOK ==
  /\ journal \in journalDisk /\ journalDisk \subseteq Phases \cup {"none"}
  /\ source \in sourceDisk /\ sourceDisk \subseteq Dirs
  /\ target \in targetDisk /\ targetDisk \subseteq TargetParents
  /\ pc \in Steps /\ phase \in Phases /\ verdict \in {"none", "Committed", "RolledBack"}
  /\ token \in BOOLEAN /\ faults \in 0..MaxFaults

\* The copy that RelocationView and recover_all would choose from a journal
\* and the directories: the journal's, and without one the only one there.
ChosenIsWhole(j, s, t) ==
  IF has_target_authority(j) THEN t = "valid"
  ELSE IF j # "none" THEN s = "valid"
  ELSE {s, t} = {"valid", "absent"}

\* The conversation is never lost or torn: for every mixture of old and new
\* directory contents that a power loss at this moment may leave, the copy
\* the journal points to is complete.  This is what the order of barriers
\* is for: sync the staged copy before Staged, publish before
\* TargetPublished, the journal before the source goes, and so on.
SurvivesPowerLoss ==
  \A j \in journalDisk, s \in sourceDisk, t \in targetDisk : ChosenIsWhole(j, s, t.session)

\* A proof handed to a caller is final: after Committed no power loss brings
\* the source back, after RolledBack none brings the target back.
VerdictIsFinal ==
  /\ verdict = "Committed" =>
       /\ journalDisk \subseteq {"Committed", "none"}
       /\ sourceDisk = {"absent"}
  /\ verdict = "RolledBack" =>
       /\ journalDisk \subseteq {"RolledBack", "none"}
       /\ \A t \in targetDisk : t.session = "absent"

\* When no transaction is on record and nobody is working on one, nothing of
\* an earlier one is left behind: no staging copy and a single session
\* directory (two would make RelocationView drop the session).
NoLitter ==
  (journal = "none" /\ pc = "free") =>
    target.staging = "absent" /\ {source, target.session} = {"valid", "absent"}

\* recover_all_finalizes_every_phase, as the test of that name has it: a
\* journal whose lease is free is eventually resolved and removed.
RecoveryConverges == (pc = "free" /\ journal # "none") ~> (journal = "none")

\* What holds of it: recovery ends unless it met a target whose summary an
\* interrupted rollback had already removed.
RecoveryConvergesUnlessHeadless ==
  (pc = "free" /\ journal # "none") ~> (journal = "none" \/ target.session = "headless")

=============================================================================
