--------------------------- MODULE RelocationView ---------------------------
(***************************************************************************)
(* The reader of session storage (relocation/view.rs) beside a relocation  *)
(* of the session it looks for.  A load takes no lease: it lists the       *)
(* journals, reads them, lists the directory of each cwd in turn and looks *)
(* for a summary in each session directory, and the relocation may move on *)
(* between any two of these steps.  The choice is made from what was read. *)
(* `changed` and `counted` are history: whether the disk changed since the *)
(* load began, and the copies that counted at some moment of the load.     *)
(* Definitions whose names end in _bug are faulty variants of the          *)
(* definition that follows them; nothing uses them but mutation runs.      *)
(***************************************************************************)
EXTENDS SessionRelocation, FiniteSets

VARIABLE view

Sides == {"source", "target"}

\* The copy that counts, by the journal and without one by what is there.
Authority ==
  CASE has_target_authority(journal) -> "target"
    [] journal \in Phases /\ ~has_target_authority(journal) -> "source"
    [] journal = "none" -> IF source = "absent" THEN "target" ELSE "source"

Dir(side) == IF side = "source" THEN source ELSE target.session

(***************************************************************************)
(* at       the reader's next step                                         *)
(* listed   the journal's name was in the listing of the journals          *)
(* seen     the journal's phase as read                                    *)
(* unread   the cwd directories not listed yet                             *)
(* looking  the session directory whose summary is looked for next         *)
(* all, persisted   all_candidates and persisted_candidates                *)
(* asked    the cwd of the question, or "any"                              *)
(* answer   a side, "none" for Ok(None), "error" for Err                   *)
(***************************************************************************)
Idle == [at |-> "idle", listed |-> FALSE, seen |-> "none", unread |-> {}, looking |-> "none",
         all |-> {}, persisted |-> {}, asked |-> "any", answer |-> "none",
         changed |-> FALSE, counted |-> {}]

ViewInit == Init /\ view = Idle

-----------------------------------------------------------------------------

\* load_journals lists the directory of the journals.
LoadBegins ==
  /\ view.at \in {"idle", "done"}
  /\ view' = [Idle EXCEPT !.at = "journal", !.listed = (journal # "none"), !.unread = Sides,
                          !.counted = {Authority}]

\* journal::read; a journal that was finalized meanwhile is an error.
ReadJournal ==
  /\ view.at = "journal"
  /\ view' = IF view.listed /\ journal = "none"
               THEN [view EXCEPT !.at = "done", !.answer = "error"]
               ELSE [view EXCEPT !.at = "dirs", !.seen = IF view.listed THEN journal ELSE "none"]

\* load_candidates comes to a cwd directory, in the order of read_dir.  A
\* staging directory's name starts with a dot and is passed over.
ListCwdDir(side) ==
  /\ view.at = "dirs"
  /\ side \in view.unread
  /\ view.looking = "none"
  /\ view' = IF Dir(side) = "absent"
               THEN [view EXCEPT !.unread = @ \ {side}]
               ELSE [view EXCEPT !.unread = @ \ {side}, !.all = @ \cup {side}, !.looking = side]

\* symlink_metadata of its summary.json
LookForSummary ==
  /\ view.looking # "none"
  /\ view' = [view EXCEPT !.looking = "none",
                !.persisted = IF Dir(view.looking) \in {"valid", "gutted"}
                                THEN @ \cup {view.looking} ELSE @]

authoritative_cwd_early_bug(p) == IF p \in {"TargetPublished", "Ready", "Committed"} THEN "target" ELSE "source"

authoritative_cwd_late_bug(p) == IF p = "Committed" THEN "target" ELSE "source"

authoritative_cwd(p) == IF has_target_authority(p) THEN "target" ELSE "source"

\* validate_authoritative_dir reads the summary again.
Validates(side) == IF side = "source" THEN SourceMatches ELSE TargetMatches

Select_bug(paths) == IF Cardinality(paths) = 1 THEN CHOOSE side \in paths : TRUE ELSE "none"

Select(paths) ==
  IF view.seen # "none"
    THEN LET expected == authoritative_cwd(view.seen) IN
         IF expected \in view.all /\ Validates(expected) THEN expected ELSE "error"
    ELSE IF Cardinality(paths) = 1 THEN CHOOSE side \in paths : TRUE ELSE "none"

Loaded == view.at = "dirs" /\ view.unread = {} /\ view.looking = "none"

Answer(asked, a) == view' = [view EXCEPT !.at = "done", !.asked = asked, !.answer = a]

\* find_persisted_session_dir and find_any_session_dir
FindSessionDir ==
  /\ Loaded
  /\ \E paths \in {view.persisted, view.all} : Answer("any", Select(paths))

\* session_dirs(Some(cwd)): sessions of other cwds are not even validated.
SessionDirs(cwd) ==
  /\ Loaded
  /\ IF view.seen # "none"
       THEN Answer(cwd, IF authoritative_cwd(view.seen) = cwd THEN Select(view.persisted) ELSE "none")
       ELSE Answer(cwd, IF Select(view.persisted) = cwd THEN cwd ELSE "none")

ReaderStep ==
  \/ LoadBegins \/ ReadJournal \/ LookForSummary \/ FindSessionDir
  \/ \E side \in Sides : ListCwdDir(side) \/ SessionDirs(side)

-----------------------------------------------------------------------------
(***************************************************************************)
(* The composition.  The reader dies with the machine, and only then.      *)
(***************************************************************************)

\* A step of the relocation: what it means for the load, or the answer, at hand.
Witnessed ==
  view' = [view EXCEPT
             !.changed = @ \/ <<journal, source, target>>' # <<journal, source, target>>,
             !.counted = IF view.at \in {"journal", "dirs"} THEN @ \cup {Authority'} ELSE @]

RelocationStep ==
  \/ StageAndPublish \/ MarkReadyAndCommit \/ RetryCommit \/ Rollback \/ Recover
  \/ Proceed \/ IOError \/ ProcessDies

ViewNext ==
  \/ RelocationStep /\ Witnessed
  \/ PowerLoss /\ view' = Idle
  \/ ReaderStep /\ UNCHANGED vars

\* Fairness of the relocation only: nobody has to look.
ViewSpec ==
  /\ ViewInit /\ [][ViewNext]_<<vars, view>>
  /\ WF_vars(Proceed /\ Witnessed) /\ WF_vars(Recover /\ Witnessed)

-----------------------------------------------------------------------------
(***************************************************************************)
(* Properties.                                                             *)
(***************************************************************************)

\* The right answer about the disk as it is.
Expected(asked) == IF asked \in {"any", Authority} THEN Authority ELSE "none"

\* As long as the disk has not changed since a load began, its answer is the
\* copy that counts, whole, whatever an earlier crash or half-finished
\* recovery left there; it never reports an error, no session, or the other
\* copy (select, authoritative_cwd, validate_authoritative_dir).
QuietViewIsExact ==
  (view.at = "done" /\ ~view.changed) =>
    /\ view.answer = Expected(view.asked)
    /\ view.answer \in Sides => Dir(view.answer) = "valid"

\* However the relocation moves during the load, a directory that is returned
\* was the copy that counts at some moment of the load: never a target that
\* was then rolled back, never a source that was superseded before the load
\* began.
ViewIsRegular == (view.at = "done" /\ view.answer \in Sides) => view.answer \in view.counted

\* Once a load has read a journal that gives the target authority it cannot
\* fail any more: it ends with the target, and the target is whole.
TargetAuthorityIsStable ==
  (view.at = "done" /\ has_target_authority(view.seen) /\ view.asked # "source") =>
    view.answer = "target" /\ target.session = "valid"

=============================================================================
