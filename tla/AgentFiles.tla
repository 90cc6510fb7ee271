------------------------------ MODULE AgentFiles ------------------------------
(***************************************************************************)
(* A file the agent's tools write and delete, the checkpoints taken before *)
(* they do, and the commands that go back to them                          *)
(* (src/agent/checkpoint.ts, src/agent/tools.ts).                          *)
(*                                                                         *)
(* A content is a number: 0 is no file, 2 the content the session found,   *)
(* 3, 4, ... what the tools wrote.  Checkpoints are read as UTF-8; 1 is    *)
(* what that makes of a first content that is not UTF-8 (binary).          *)
(* Checkpoints are found on disk when they have left the list of the last  *)
(* 50, so one sequence stands for both.  Every operation is one step: the  *)
(* code calls the synchronous functions of node:fs, and a write that fails *)
(* is taken to leave its file as it was.                                   *)
(***************************************************************************)
EXTENDS Naturals, Sequences, SequencesExt

CONSTANT Binary  \* what `binary' may be in the beginning

ASSUME BinaryAssumption == Binary \subseteq BOOLEAN

VARIABLES
  file,      \* the file's content, 0 when there is none
  binary,    \* whether the first content is something else than UTF-8
  written,   \* the last content there has been
  saved,     \* the checkpoints' contents, the newest last
  redo,      \* redo_<id>: what the undo of a checkpoint replaced, 0 when nothing
  unsaved,   \* history: contents replaced after the failure to save them
  spoiled    \* history: a rewind, or a second undo of one checkpoint

fileVars == <<file, binary, written, saved, redo, unsaved, spoiled>>

FilesTypeOK ==
  /\ written \in Nat /\ written >= 2
  /\ file \in 0 .. written /\ binary \in BOOLEAN
  /\ saved \in Seq(1 .. written) /\ redo \in Seq(0 .. written) /\ Len(redo) = Len(saved)
  /\ unsaved \subseteq 1 .. written /\ spoiled \in BOOLEAN

FilesInit ==
  /\ file = 2 /\ binary \in Binary /\ written = 2
  /\ saved = <<>> /\ redo = <<>>
  /\ unsaved = {} /\ spoiled = FALSE

\* readFileSync(path, "utf8"): bytes that are not UTF-8 are replaced.
Decoded(content) == IF content = 2 /\ binary THEN 1 ELSE content

Checkpoint == saved' = Append(saved, Decoded(file)) /\ redo' = Append(redo, 0)

\* snapshot: nothing is saved of an absent file, nor when the disk refuses (ok is FALSE).
Snapshot(ok) ==
  IF file # 0 /\ ok
  THEN Checkpoint /\ UNCHANGED unsaved
  ELSE unsaved' = unsaved \cup ({file} \ {0}) /\ UNCHANGED <<saved, redo>>

\* write_file, edit_file: the next content; an edit of an absent file fails.
WriteFile(ok) ==
  /\ Snapshot(ok)
  /\ written' = written + 1 /\ file' = written + 1
  /\ UNCHANGED <<binary, spoiled>>

\* delete_file; the unlink of an absent file throws.
DeleteFile(ok) ==
  /\ Snapshot(ok)
  /\ file' = 0
  /\ UNCHANGED <<binary, written, spoiled>>

\* The snapshot is taken, and the write or the unlink throws.
ChangeFails(ok) ==
  /\ IF file # 0 /\ ok THEN Checkpoint ELSE UNCHANGED <<saved, redo>>
  /\ UNCHANGED <<file, binary, written, unsaved, spoiled>>

Latest == Len(saved)

\* Mutant: no redo point is kept.
Undo_NoRedo(kept, restored) ==
  /\ saved # <<>>
  /\ spoiled' = (spoiled \/ redo[Latest] # 0)
  /\ file' = IF restored THEN saved[Latest] ELSE file
  /\ UNCHANGED <<binary, written, saved, redo, unsaved>>

\* undo: the latest checkpoint is restored, and stays the latest; what it replaces becomes
\* its redo point, in place of an earlier one.  Both writes may fail, and neither failure is
\* reported: without a redo point (~kept) the restore goes on, and may fail itself.
Undo(kept, restored) ==
  /\ saved # <<>>
  /\ IF file # 0 /\ kept
     THEN redo' = [redo EXCEPT ![Latest] = Decoded(file)] /\ spoiled' = (spoiled \/ redo[Latest] # 0)
     ELSE UNCHANGED <<redo, spoiled>>
  /\ IF restored
     THEN /\ file' = saved[Latest]
          /\ unsaved' = IF kept THEN unsaved ELSE unsaved \cup ({file} \ {0})
     ELSE UNCHANGED <<file, unsaved>>
  /\ UNCHANGED <<binary, written, saved>>

\* restore, by id, of a checkpoint or of a redo point; nothing is kept of what it replaces.
Rewind(i) ==
  /\ \E content \in {saved[i], redo[i]} \ {0} : file' = content
  /\ spoiled' = TRUE
  /\ UNCHANGED <<binary, written, saved, redo, unsaved>>

\* What the tools and the operator may do to the file, in any order and however often.
FilesNext ==
  \/ \E ok \in BOOLEAN : WriteFile(ok) \/ DeleteFile(ok) \/ ChangeFails(ok)
  \/ \E kept, restored \in BOOLEAN : Undo(kept, restored)
  \/ \E i \in DOMAIN saved : Rewind(i)

FilesSpec == FilesInit /\ [][FilesNext]_fileVars

-----------------------------------------------------------------------------
\* The text the tools overwrote, deleted or created can be had back, through any sequence
\* of changes and undos.  Lost are only: a content replaced although its snapshot or its
\* redo point could not be saved (both failures are swallowed), what a rewind or the second
\* undo of one checkpoint replaces, and bytes that are not UTF-8, whose checkpoint is not
\* what the file held (checkpoint.ts:28-55, 58-68, 79-96).
NothingIsLost ==
  spoiled \/ \A c \in 2 .. written :
               \/ c \in {file} \cup Range(saved) \cup Range(redo) \cup unsaved
               \/ c = 2 /\ binary
=============================================================================
