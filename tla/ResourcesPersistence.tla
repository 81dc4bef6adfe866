------------------------ MODULE ResourcesPersistence ------------------------
(***************************************************************************)
(* The writer of a toolset's resources file (xai-grok-tools,               *)
(* persistence.rs): a task that reads commands from a channel.  Save       *)
(* leaves a snapshot to be written at the next tick of a debounce timer,   *)
(* by a rename that is not synced; SaveAndFlush discards what is waiting,  *)
(* writes its own snapshot durably and acknowledges the result.            *)
(* A snapshot is any value; the callers say what is in it.                 *)
(* `file` is what a process reads, `disk` the set of contents that a power *)
(* loss may reveal.                                                        *)
(***************************************************************************)
EXTENDS Naturals, Sequences

CONSTANTS
  Nothing,   \* no snapshot
  MaxChan    \* bound on the commands in the channel when one is sent

ASSUME ChanAssumption == MaxChan \in Nat

VARIABLES
  chan,      \* the command channel
  waiting,   \* the writer's `pending` snapshot
  file, disk,
  receipt    \* the answer in the oneshot of the last SaveAndFlush

writer == <<chan, waiting, file, disk, receipt>>

\* What a toolset starts from when there is no file, or one that it cannot parse.
Blank == <<>>

PersistenceInit ==
  /\ chan = <<>> /\ waiting = Nothing
  /\ file = Blank /\ disk = {Blank} /\ receipt = "none"

-----------------------------------------------------------------------------
(***************************************************************************)
(* The callers' side.                                                      *)
(***************************************************************************)

\* save: the snapshot is taken and sent under the lock of the resources.
Save(snapshot) ==
  /\ Len(chan) < MaxChan
  /\ chan' = Append(chan, [command |-> "Save", snapshot |-> snapshot, heard |-> FALSE])
  /\ UNCHANGED <<waiting, file, disk, receipt>>

\* enqueue_save_and_flush; `heard` as long as the caller keeps the receiver.
EnqueueSaveAndFlush(snapshot) ==
  /\ Len(chan) <= MaxChan
  /\ chan' = Append(chan, [command |-> "SaveAndFlush", snapshot |-> snapshot, heard |-> TRUE])
  /\ receipt' = "none"
  /\ UNCHANGED <<waiting, file, disk>>

\* The caller drops its receiver: a late answer goes nowhere.
DropReceipt ==
  /\ chan' = [i \in DOMAIN chan |-> [chan[i] EXCEPT !.heard = FALSE]]
  /\ receipt' = "none"
  /\ UNCHANGED <<waiting, file, disk>>

-----------------------------------------------------------------------------
(***************************************************************************)
(* writer_loop.                                                            *)
(***************************************************************************)

Answer(m, result) == receipt' = IF m.heard THEN result ELSE receipt

HandleSave ==
  /\ chan # <<>> /\ Head(chan).command = "Save"
  /\ waiting' = Head(chan).snapshot
  /\ chan' = Tail(chan)
  /\ UNCHANGED <<file, disk, receipt>>

HandleSaveAndFlush_bug ==
  /\ chan # <<>> /\ Head(chan).command = "SaveAndFlush"
  /\ chan' = Tail(chan)
  /\ file' = Head(chan).snapshot /\ disk' = {file'}
  /\ Answer(Head(chan), "ok")
  /\ UNCHANGED waiting

\* write_json_durable: the file is synced, renamed, and its directory synced.
HandleSaveAndFlush ==
  /\ chan # <<>> /\ Head(chan).command = "SaveAndFlush"
  /\ chan' = Tail(chan)
  /\ waiting' = Nothing
  /\ file' = Head(chan).snapshot /\ disk' = {file'}
  /\ Answer(Head(chan), "ok")

\* It fails before the rename, or after it when the directory is synced.
SaveAndFlushFails ==
  /\ chan # <<>> /\ Head(chan).command = "SaveAndFlush"
  /\ chan' = Tail(chan)
  /\ waiting' = Nothing
  /\ Answer(Head(chan), "err")
  /\ \/ UNCHANGED <<file, disk>>
     \/ file' = Head(chan).snapshot /\ disk' = disk \cup {file'}

\* The debounce tick, or the flush of a graceful shutdown.  The rename may
\* reach the disk before the data does.
WriteJson ==
  /\ waiting # Nothing
  /\ file' = waiting /\ disk' = disk \cup {waiting, Blank}
  /\ waiting' = Nothing
  /\ UNCHANGED <<chan, receipt>>

WriteJsonFails ==
  /\ waiting # Nothing
  /\ waiting' = Nothing
  /\ UNCHANGED <<chan, file, disk, receipt>>

Writer == HandleSave \/ HandleSaveAndFlush \/ WriteJson
WriterFails == SaveAndFlushFails \/ WriteJsonFails

\* The process ends: what the writer has not written is lost.
LoseWriter == chan' = <<>> /\ waiting' = Nothing /\ receipt' = "none"

KillWriter == LoseWriter /\ UNCHANGED <<file, disk>>

PowerOff == LoseWriter /\ file' \in disk /\ disk' = {file'}

=============================================================================
