------------------------ MODULE RelocationViewProofs ------------------------
(***************************************************************************)
(* Proofs about RelocationView: what a load that takes no lease may answer *)
(* while a relocation of the session runs, fails or is recovered beside    *)
(* it, for any number of faults.                                           *)
(*                                                                         *)
(* The three properties speak of the answer only.  The inductive invariant *)
(* adds what the reader's notes say about the disk while the load is on    *)
(* its way: LoadInv for a load that the relocation overtakes, QuietInv for *)
(* one during which the disk stood still, TargetInv for one that has read  *)
(* a journal with target authority.  All of them rest on the invariant of  *)
(* the relocation itself (SessionRelocationProofs).                        *)
(***************************************************************************)
EXTENDS RelocationView, SessionRelocationProofs, FiniteSetTheorems

allVars == <<vars, view>>

Loading == view.at \in {"journal", "dirs"}

\* What the reader's fields hold.
ViewTypes ==
  /\ view \in [at : {"idle", "journal", "dirs", "done"}, listed : BOOLEAN,
               seen : Phases \cup {"none"}, unread : SUBSET Sides,
               looking : Sides \cup {"none"}, all : SUBSET Sides, persisted : SUBSET Sides,
               asked : Sides \cup {"any"}, answer : Sides \cup {"none", "error"},
               changed : BOOLEAN, counted : SUBSET Sides]
  /\ view.persisted \subseteq view.all
  /\ view.looking # "none" => view.at = "dirs" /\ view.looking \in view.all
  /\ view.at = "journal" => view.unread = Sides /\ view.all = {} /\ view.seen = "none"
  /\ view.at = "dirs" => view.listed = (view.seen # "none")
  /\ view.unread \cap view.all = {}

\* A load in progress has counted the copy that counts now.  Without a
\* journal it saw the source only if the source has counted; and as long as
\* the target has not counted the source is whole, so it is found.
LoadInv ==
  /\ Loading => Authority \in view.counted
  /\ Loading /\ ~view.listed /\ (source # "absent" \/ "source" \in view.all) =>
       "source" \in view.counted
  /\ view.at = "dirs" /\ view.seen # "none" => authoritative_cwd(view.seen) \in view.counted
  /\ Loading /\ "target" \notin view.counted =>
       \/ "source" \in view.unread
       \/ "source" \in view.all /\ (view.looking = "source" \/ "source" \in view.persisted)

\* The target has won for good.
TargetWon ==
  /\ target.session = "valid"
  /\ has_target_authority(journal) \/ (journal = "none" /\ source = "absent")

\* Once a journal with target authority was read, the target stays and is found.
TargetInv ==
  view.at \in {"dirs", "done"} /\ has_target_authority(view.seen) =>
    /\ TargetWon
    /\ view.at = "dirs" /\ "target" \notin view.unread => "target" \in view.all

\* While the disk stands still the notes agree with it.
QuietInv ==
  view.at # "idle" /\ ~view.changed =>
    /\ view.listed = (journal # "none")
    /\ view.at \in {"dirs", "done"} => view.seen = journal
    /\ view.at = "dirs" => \A side \in Sides \ view.unread :
         /\ side \in view.all <=> Dir(side) # "absent"
         /\ side \in view.persisted <=> (side # view.looking /\ Dir(side) \in {"valid", "gutted"})

ViewInv ==
  /\ Inv /\ ViewTypes /\ LoadInv /\ TargetInv /\ QuietInv
  /\ QuietViewIsExact /\ ViewIsRegular /\ TargetAuthorityIsStable

-----------------------------------------------------------------------------
(***************************************************************************)
(* What the relocation guarantees to a reader.                             *)
(***************************************************************************)

\* The copy that counts is whole, and without a journal the other is absent.
LEMMA AuthorityIsWhole ==
  ASSUME Inv
  PROVE  /\ Authority \in Sides
         /\ Dir(Authority) = "valid"
         /\ journal = "none" => {source, target.session} = {"valid", "absent"}
         /\ journal # "none" => Authority = authoritative_cwd(journal)
         /\ source \in Dirs /\ target.session \in Dirs /\ journal \in Phases \cup {"none"}
BY DEF Inv, TypeOK, DiskInv, Authority, Dir, Sides, has_target_authority, authoritative_cwd,
       Phases, Dirs, TargetParents, Empty, Published, Before

\* Short of a power loss a source that is gone stays gone.
LEMMA SourceNeverReturns ==
  ASSUME Inv, RelocationStep, source = "absent"
  PROVE  source' = "absent"
BY DEF RelocationStep, Proceed, StageAndPublish, MarkReadyAndCommit, RetryCommit, Rollback,
       Recover, IOError, ProcessDies, WriteJournal, JournalBarrier, CopyBegins, CopyEnds,
       RewriteStagedSummary, StagedBarrier, Publish, PublishedBarrier, RecoverBarrier,
       CommitBarrier, CommitCheck, RemoveSource, SourceBarrier, RemoveStaging, CommitEnds,
       RollbackCheck, DiscardStaging, DiscardBarrier, DiscardCheck, DiscardTarget,
       RollbackEnds, FinalizeTerminal, FinalBarrier, PutJournal, PutSource, PutTarget,
       SyncJournal, SyncSource, SyncTarget, disk, Torn

\* Short of a power loss a target that has won stays whole, with its journal
\* or alone.
LEMMA TargetWinsForGood ==
  ASSUME Inv, RelocationStep, TargetWon
  PROVE  TargetWon'
<1> USE DEF Inv, TypeOK, DiskInv, Before, Empty, Staging, Published, TargetWon,
            has_target_authority, Phases, Dirs, TargetParents
<1>1. CASE UNCHANGED <<journal, source, target>>
  BY <1>1
<1>2. CASE WriteJournal \/ FinalizeTerminal
  BY <1>2 DEF WriteJournal, FinalizeTerminal, PutJournal, Goto, disk, WriteInv, RollbackInv
<1>3. CASE CopyBegins \/ CopyEnds \/ RewriteStagedSummary \/ Publish
  BY <1>3 DEF CopyBegins, CopyEnds, RewriteStagedSummary, Publish, PutTarget, StageInv
<1>4. CASE RemoveSource \/ RemoveStaging
  BY <1>4 DEF RemoveSource, RemoveStaging, PutSource, PutTarget, Torn, CommitInv
<1>5. CASE DiscardStaging \/ DiscardTarget
  BY <1>5 DEF DiscardStaging, DiscardTarget, PutTarget, RollbackInv
<1>6. \/ UNCHANGED <<journal, source, target>>
      \/ WriteJournal \/ FinalizeTerminal \/ CopyBegins \/ CopyEnds \/ RewriteStagedSummary
      \/ Publish \/ RemoveSource \/ RemoveStaging \/ DiscardStaging \/ DiscardTarget
  BY DEF RelocationStep, Proceed, StageAndPublish, MarkReadyAndCommit, RetryCommit, Rollback,
         Recover, IOError, ProcessDies, JournalBarrier, StagedBarrier, PublishedBarrier,
         RecoverBarrier, CommitBarrier, CommitCheck, SourceBarrier, CommitEnds, RollbackCheck,
         DiscardBarrier, DiscardCheck, RollbackEnds, FinalBarrier, SyncJournal, SyncSource,
         SyncTarget, disk
<1> QED BY <1>1, <1>2, <1>3, <1>4, <1>5, <1>6

-----------------------------------------------------------------------------
(***************************************************************************)
(* The reader's steps.  The disk stands still during each of them.         *)
(***************************************************************************)

\* The parts of the invariant that speak of the load and its answer.
ReaderInv ==
  /\ ViewTypes /\ LoadInv /\ TargetInv /\ QuietInv
  /\ QuietViewIsExact /\ ViewIsRegular /\ TargetAuthorityIsStable

LEMMA LoadBeginsPreserves ==
  ASSUME Inv, LoadBegins, UNCHANGED vars
  PROVE  ReaderInv'
<1> DEFINE found == (journal # "none")
<1>1. view' = [at |-> "journal", listed |-> found, seen |-> "none", unread |-> Sides,
               looking |-> "none", all |-> {}, persisted |-> {}, asked |-> "any",
               answer |-> "none", changed |-> FALSE, counted |-> {Authority}]
  BY DEF LoadBegins, Idle
<1>f. found \in BOOLEAN /\ Authority' = Authority /\ (found <=> journal # "none")
  BY DEF Authority, vars
<1> HIDE DEF found
<1> USE AuthorityIsWhole, <1>f DEF vars, Sides, Loading, Phases
<1>2. ViewTypes'
  BY <1>1 DEF ViewTypes
<1>3. LoadInv'
  BY <1>1 DEF LoadInv, Authority, has_target_authority
<1>4. TargetInv'
  BY <1>1 DEF TargetInv
<1>5. QuietInv'
  BY <1>1 DEF QuietInv
<1>6. QuietViewIsExact' /\ ViewIsRegular' /\ TargetAuthorityIsStable'
  BY <1>1 DEF QuietViewIsExact, ViewIsRegular, TargetAuthorityIsStable
<1> QED BY <1>2, <1>3, <1>4, <1>5, <1>6 DEF ReaderInv

LEMMA ReadJournalPreserves ==
  ASSUME Inv, ReaderInv, ReadJournal, UNCHANGED vars
  PROVE  ReaderInv'
<1> USE AuthorityIsWhole DEF ReadJournal, vars, Sides, Loading, ReaderInv, ViewTypes
<1>0. Authority' = Authority
  BY DEF Authority
<1>1. ViewTypes'
  OBVIOUS
<1>2. LoadInv'
  BY <1>0 DEF LoadInv
<1>3. TargetInv'
  BY DEF TargetInv, TargetWon, Authority, Dir, has_target_authority, authoritative_cwd
<1>4. QuietInv'
  BY DEF QuietInv, Dir
<1>5. QuietViewIsExact'
  BY <1>0 DEF QuietViewIsExact, QuietInv
<1>6. ViewIsRegular' /\ TargetAuthorityIsStable'
  BY <1>0 DEF ViewIsRegular, TargetAuthorityIsStable, has_target_authority
<1> QED BY <1>1, <1>2, <1>3, <1>4, <1>5, <1>6

LEMMA ListCwdDirPreserves ==
  ASSUME Inv, ReaderInv, NEW side \in Sides, ListCwdDir(side), UNCHANGED vars
  PROVE  ReaderInv'
<1> USE AuthorityIsWhole DEF ListCwdDir, vars, Sides, Loading, ReaderInv, ViewTypes
<1>0. Authority' = Authority /\ (TargetWon' <=> TargetWon) /\ \A s : Dir(s)' = Dir(s)
  BY DEF Authority, TargetWon, Dir
<1>1. ViewTypes'
  OBVIOUS
<1>2. LoadInv'
  BY <1>0 DEF LoadInv, Dir
<1>3. TargetInv'
  BY <1>0 DEF TargetInv, TargetWon, Dir
<1>4. QuietInv'
  BY <1>0 DEF QuietInv
<1>5. QuietViewIsExact' /\ ViewIsRegular' /\ TargetAuthorityIsStable'
  BY <1>0 DEF QuietViewIsExact, ViewIsRegular, TargetAuthorityIsStable
<1> QED BY <1>1, <1>2, <1>3, <1>4, <1>5

LEMMA LookForSummaryPreserves ==
  ASSUME Inv, ReaderInv, LookForSummary, UNCHANGED vars
  PROVE  ReaderInv'
<1> USE AuthorityIsWhole DEF LookForSummary, vars, Sides, Loading, ReaderInv, ViewTypes
<1>0. Authority' = Authority /\ (TargetWon' <=> TargetWon) /\ \A s : Dir(s)' = Dir(s)
  BY DEF Authority, TargetWon, Dir
<1>1. ViewTypes'
  OBVIOUS
<1>2. LoadInv'
  BY <1>0 DEF LoadInv, Dir
<1>3. TargetInv'
  BY <1>0 DEF TargetInv
<1>4. QuietInv'
  BY <1>0 DEF QuietInv
<1>5. QuietViewIsExact' /\ ViewIsRegular' /\ TargetAuthorityIsStable'
  BY <1>0 DEF QuietViewIsExact, ViewIsRegular, TargetAuthorityIsStable
<1> QED BY <1>1, <1>2, <1>3, <1>4, <1>5

\* select without a journal: the only candidate, if there is just one.
LEMMA SelectOnly ==
  ASSUME view.seen = "none", NEW paths \in SUBSET Sides
  PROVE  /\ \A side \in Sides : paths = {side} => Select(paths) = side
         /\ Select(paths) \in Sides => paths = {Select(paths)}
         /\ Select(paths) \in Sides \cup {"none"}
<1>1. IsFiniteSet(paths)
  <2>1. Sides = {"source"} \cup {"target"}
    BY DEF Sides
  <2>2. IsFiniteSet(Sides)
    <3>1. IsFiniteSet({"source"})
      BY FS_Singleton
    <3> QED BY <2>1, <3>1, FS_AddElement
  <2> QED BY <2>2, FS_Subset
<1>2. Cardinality(paths) = 1 <=> \E side \in paths : paths = {side}
  BY <1>1, FS_Singleton, Zenon
<1>3. ASSUME NEW side \in Sides, paths = {side}
      PROVE  (CHOOSE s \in paths : TRUE) = side
  BY <1>3
<1> QED BY <1>2, <1>3 DEF Select, Sides

\* What select answers once every directory was read.
LEMMA SelectAnswers ==
  ASSUME Inv, ReaderInv, Loaded, NEW paths \in {view.persisted, view.all}
  PROVE  /\ Select(paths) \in Sides \cup {"none", "error"}
         /\ Select(paths) \in Sides => Select(paths) \in view.counted
         /\ ~view.changed => Select(paths) = Authority
         /\ has_target_authority(view.seen) => Select(paths) = "target"
<1> USE AuthorityIsWhole DEF Loaded, ReaderInv, ViewTypes, Sides, Loading
<1>1. CASE view.seen = "none"
  <2>1. paths \in SUBSET Sides
    OBVIOUS
  <2>2. /\ Select(paths) \in Sides => paths = {Select(paths)}
        /\ Select(paths) \in Sides \cup {"none"}
        /\ \A side \in Sides : paths = {side} => Select(paths) = side
    BY <1>1, <2>1, SelectOnly
  <2>3. Select(paths) \in Sides => Select(paths) \in view.counted
    BY <1>1, <2>2 DEF LoadInv
  <2>4. ~view.changed => paths = {Authority}
    BY <1>1 DEF QuietInv, Dir, Authority, has_target_authority
  <2> QED BY <1>1, <2>2, <2>3, <2>4 DEF has_target_authority
<1>2. CASE view.seen # "none"
  <2>1. authoritative_cwd(view.seen) \in Sides /\ authoritative_cwd(view.seen) \in view.counted
    BY <1>2 DEF LoadInv, authoritative_cwd
  <2>2. ~view.changed => authoritative_cwd(view.seen) = Authority /\ Authority \in view.all
                           /\ Validates(Authority)
    BY <1>2 DEF QuietInv, Dir, Validates, SourceMatches, TargetMatches
  <2>3. has_target_authority(view.seen) =>
          authoritative_cwd(view.seen) = "target" /\ "target" \in view.all /\ Validates("target")
    BY <1>2 DEF TargetInv, TargetWon, authoritative_cwd, Validates, TargetMatches
  <2> QED BY <1>2, <2>1, <2>2, <2>3 DEF Select
<1> QED BY <1>1, <1>2

\* Ending the load with a right answer.
LEMMA AnswerPreserves ==
  ASSUME Inv, ReaderInv, Loaded, UNCHANGED vars,
         NEW cwd \in Sides \cup {"any"}, NEW a \in Sides \cup {"none", "error"},
         Answer(cwd, a),
         a \in Sides => a \in view.counted,
         ~view.changed => a = Expected(cwd),
         has_target_authority(view.seen) /\ cwd # "source" => a = "target"
  PROVE  ReaderInv'
<1> USE AuthorityIsWhole DEF Answer, Loaded, vars, Sides, Loading, ReaderInv, ViewTypes
<1>0. /\ Authority' = Authority /\ (TargetWon' <=> TargetWon)
      /\ \A s : Dir(s)' = Dir(s) /\ Expected(s)' = Expected(s)
  BY DEF Authority, TargetWon, Dir, Expected
<1>1. ViewTypes'
  OBVIOUS
<1>2. LoadInv'
  BY <1>0 DEF LoadInv
<1>3. TargetInv'
  BY <1>0 DEF TargetInv
<1>4. QuietInv'
  BY <1>0 DEF QuietInv
<1>5. QuietViewIsExact'
  BY <1>0 DEF QuietViewIsExact, Expected
<1>6. ViewIsRegular'
  BY <1>0 DEF ViewIsRegular
<1>7. TargetAuthorityIsStable'
  BY <1>0 DEF TargetAuthorityIsStable, TargetInv, TargetWon
<1> QED BY <1>1, <1>2, <1>3, <1>4, <1>5, <1>6, <1>7

LEMMA FindPreserves ==
  ASSUME Inv, ReaderInv, FindSessionDir, UNCHANGED vars
  PROVE  ReaderInv'
<1>1. PICK paths \in {view.persisted, view.all} : Answer("any", Select(paths))
  BY DEF FindSessionDir
<1>2. Loaded
  BY DEF FindSessionDir
<1> QED BY <1>1, <1>2, SelectAnswers, AnswerPreserves DEF Expected

LEMMA SessionDirsPreserves ==
  ASSUME Inv, ReaderInv, NEW cwd \in Sides, SessionDirs(cwd), UNCHANGED vars
  PROVE  ReaderInv'
<1> DEFINE s == Select(view.persisted)
           a == IF view.seen # "none"
                  THEN IF authoritative_cwd(view.seen) = cwd THEN s ELSE "none"
                  ELSE IF s = cwd THEN cwd ELSE "none"
<1>1. Loaded /\ Answer(cwd, a)
  BY DEF SessionDirs
<1>2. /\ s \in Sides \cup {"none", "error"}
      /\ s \in Sides => s \in view.counted
      /\ ~view.changed => s = Authority
      /\ has_target_authority(view.seen) => s = "target"
  BY <1>1, SelectAnswers
<1>3. ~view.changed /\ view.seen # "none" => authoritative_cwd(view.seen) = Authority
  BY <1>1, AuthorityIsWhole DEF ReaderInv, QuietInv, Loaded
<1> HIDE DEF s
<1>4. a \in Sides \cup {"none", "error"} /\ (a \in Sides => a \in view.counted)
  BY <1>2 DEF Sides
<1>5. ~view.changed => a = Expected(cwd)
  BY <1>2, <1>3, AuthorityIsWhole DEF Expected, Sides
<1>6. has_target_authority(view.seen) /\ cwd # "source" => a = "target"
  BY <1>2 DEF has_target_authority, authoritative_cwd, Sides
<1> HIDE DEF a
<1> QED BY <1>1, <1>4, <1>5, <1>6, AnswerPreserves

-----------------------------------------------------------------------------
(***************************************************************************)
(* The relocation's steps, seen from the reader, and the theorems.         *)
(***************************************************************************)

LEMMA WitnessedPreserves ==
  ASSUME Inv, Inv', ReaderInv, RelocationStep, Witnessed
  PROVE  ReaderInv'
<1> DEFINE moved == <<journal, source, target>>' # <<journal, source, target>>
<1>w. /\ Authority \in Sides /\ Dir(Authority) = "valid"
      /\ Authority' \in Sides /\ Dir(Authority)' = "valid"
      /\ source = "absent" => source' = "absent"
      /\ TargetWon => TargetWon'
  <2>1. (/\ Authority \in Sides
         /\ Dir(Authority) = "valid")'
    BY AuthorityIsWhole, PTL
  <2> QED BY <2>1, AuthorityIsWhole, SourceNeverReturns, TargetWinsForGood
<1> DEFINE flag == view.changed \/ moved
<1>m. ~flag => /\ journal' = journal /\ source' = source /\ target' = target
               /\ Authority' = Authority /\ ~view.changed
               /\ \A s : Dir(s)' = Dir(s) /\ Expected(s)' = Expected(s)
  <2>1. ~flag => journal' = journal /\ source' = source /\ target' = target /\ ~view.changed
    OBVIOUS
  <2> HIDE DEF flag
  <2>2. ~flag => Authority' = Authority
    BY <2>1 DEF Authority
  <2> QED BY <2>1, <2>2 DEF Dir, Expected
<1>v. view' = [view EXCEPT
                 !.changed = flag,
                 !.counted = IF view.at \in {"journal", "dirs"} THEN @ \cup {Authority'} ELSE @]
  BY DEF Witnessed
<1>b. flag \in BOOLEAN
  BY Zenon
<1> HIDE DEF flag
<1> USE <1>w, <1>m, <1>v, <1>b DEF Sides, Loading, ReaderInv, ViewTypes
<1>1. ViewTypes'
  <2>1. view'.counted \in SUBSET Sides /\ view'.changed \in BOOLEAN
    OBVIOUS
  <2>2. /\ view'.at = view.at /\ view'.listed = view.listed /\ view'.seen = view.seen
        /\ view'.unread = view.unread /\ view'.looking = view.looking /\ view'.all = view.all
        /\ view'.persisted = view.persisted /\ view'.asked = view.asked
        /\ view'.answer = view.answer
    OBVIOUS
  <2> QED BY <2>1, <2>2
<1>2. LoadInv'
  BY DEF LoadInv, Dir
<1>3. TargetInv'
  BY DEF TargetInv
<1>4. QuietInv'
  BY DEF QuietInv
<1>5. QuietViewIsExact'
  BY DEF QuietViewIsExact
<1>6. ViewIsRegular'
  BY DEF ViewIsRegular
<1>7. TargetAuthorityIsStable'
  BY DEF TargetAuthorityIsStable, TargetInv, TargetWon
<1> QED BY <1>1, <1>2, <1>3, <1>4, <1>5, <1>6, <1>7

LEMMA ReaderStepPreserves ==
  ASSUME Inv, ReaderInv, ReaderStep, UNCHANGED vars
  PROVE  ReaderInv'
BY LoadBeginsPreserves, ReadJournalPreserves, ListCwdDirPreserves, LookForSummaryPreserves,
   FindPreserves, SessionDirsPreserves DEF ReaderStep

LEMMA IdleIsGood == view = Idle => ReaderInv
BY DEF Idle, ReaderInv, ViewTypes, LoadInv, TargetInv, QuietInv, QuietViewIsExact,
       ViewIsRegular, TargetAuthorityIsStable, Loading, Sides, Phases

\* A step of the composition is a step of the relocation, or none.
LEMMA ViewStepIsNext == ViewNext => [Next]_vars
BY DEF ViewNext, Next, RelocationStep, Fault

LEMMA ViewNextInv == ViewInv /\ [ViewNext]_allVars => ViewInv'
<1> SUFFICES ASSUME Inv, ReaderInv, [ViewNext]_allVars PROVE Inv' /\ ReaderInv'
  BY DEF ViewInv, ReaderInv
<1>1. CASE ViewNext
  <2>1. Inv'
    BY <1>1, ViewStepIsNext, NextInv
  <2>2. CASE RelocationStep /\ Witnessed
    BY <2>1, <2>2, WitnessedPreserves
  <2>3. CASE view' = Idle
    <3>1. (view = Idle => ReaderInv)'
      BY IdleIsGood, PTL
    <3> QED BY <2>1, <2>3, <3>1 DEF Idle
  <2>4. CASE ReaderStep /\ UNCHANGED vars
    BY <2>1, <2>4, ReaderStepPreserves
  <2> QED BY <1>1, <2>2, <2>3, <2>4 DEF ViewNext
<1>2. CASE UNCHANGED allVars
  <2>1. Inv'
    BY <1>2, NextInv DEF allVars
  <2>2. view' = view /\ journal' = journal /\ source' = source /\ target' = target
    BY <1>2 DEF allVars, vars
  <2>3. Authority' = Authority /\ \A s : Dir(s)' = Dir(s)
    BY <2>2 DEF Authority, Dir
  <2>4. ViewTypes' /\ LoadInv' /\ ViewIsRegular'
    BY <2>2, <2>3 DEF ReaderInv, ViewTypes, LoadInv, ViewIsRegular, Loading
  <2>5. TargetInv' /\ TargetAuthorityIsStable'
    BY <2>2 DEF ReaderInv, TargetInv, TargetAuthorityIsStable, TargetWon
  <2>6. QuietInv' /\ QuietViewIsExact'
    BY <2>2, <2>3 DEF ReaderInv, QuietInv, QuietViewIsExact, Expected
  <2> QED BY <2>1, <2>4, <2>5, <2>6 DEF ReaderInv
<1> QED BY <1>1, <1>2

LEMMA ViewInvCorrect == ViewSpec => []ViewInv
<1>1. ViewInit => ViewInv
  BY InitInv, IdleIsGood DEF ViewInit, ViewInv, ReaderInv
<1> QED BY <1>1, ViewNextInv, PTL DEF ViewSpec, allVars

\* A load that ends while the disk is as it was when the load began returns
\* the copy that counts, whole, whatever crash, power loss or half-finished
\* recovery came before: no error, no empty answer, not the other copy.
THEOREM QuietViewCorrect == ViewSpec => []QuietViewIsExact
<1>1. ViewInv => QuietViewIsExact BY DEF ViewInv
<1> QED BY <1>1, ViewInvCorrect, PTL

\* A load that the relocation overtakes, at any of its steps, returns only a
\* directory that was the copy that counts at some moment of the load.
THEOREM ViewRegularCorrect == ViewSpec => []ViewIsRegular
<1>1. ViewInv => ViewIsRegular BY DEF ViewInv
<1> QED BY <1>1, ViewInvCorrect, PTL

\* A load that has read Ready or Committed ends with the target, whole.
THEOREM TargetStableCorrect == ViewSpec => []TargetAuthorityIsStable
<1>1. ViewInv => TargetAuthorityIsStable BY DEF ViewInv
<1> QED BY <1>1, ViewInvCorrect, PTL

\* The relocation beside a reader is still the relocation: the reader takes
\* no lease and changes no file.
THEOREM ReaderIsHarmless == ViewSpec => Spec
<1>1. ViewInit => Init BY DEF ViewInit
<1>2. [ViewNext]_<<vars, view>> => [Next]_vars
  BY ViewStepIsNext
<1> QED BY <1>1, <1>2, PTL DEF ViewSpec, Spec

=============================================================================
