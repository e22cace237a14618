----------------------------- MODULE ClaimFiles -----------------------------
(***************************************************************************)
(* The files of a claim: rows of claim_files on one side, files of the     *)
(* upload directory on the other, and the two handlers that change both,   *)
(* upload and delete.  Nothing makes the two changes one transaction: the  *)
(* upload writes the file first and takes it back when anything raises,    *)
(* the delete commits first and unlinks afterwards.  A commit may fail, or *)
(* be done and have its answer lost; the process may die at any step.      *)
(***************************************************************************)
EXTENDS FiniteSets

CONSTANTS Handlers,  \* requests that can be in progress at the same time
          Files,     \* storage paths (a fresh uuid for each upload)
          NoFile

ASSUME NoFileAssumption == NoFile \notin Files

VARIABLES disk,     \* Files -> "absent", "partial" (being written) or "whole"
          fileRows, \* the paths of the committed rows
          handler,  \* Handlers -> [step, file]
          fresh,    \* paths no upload has drawn yet
          unsure,   \* paths whose insert was committed though the commit raised
          leftover  \* paths whose handler died, or whose unlink failed

fileVars == <<disk, fileRows, handler, fresh, unsure, leftover>>

Steps == {"idle", "writing", "saved", "inserted",   \* upload
          "found", "removed", "deleted"}            \* delete

Waiting == [step |-> "idle", file |-> NoFile]

FilesInit ==
  /\ disk = [f \in Files |-> "absent"]
  /\ fileRows = {} /\ unsure = {} /\ leftover = {}
  /\ handler = [h \in Handlers |-> Waiting]
  /\ fresh = Files

Goes(h, from, to) == handler[h].step = from /\ handler' = [handler EXCEPT ![h].step = to]
Ends(h) == handler' = [handler EXCEPT ![h] = Waiting]

\* _safe_unlink swallows an OSError: the file is gone or left over.
Unlink(f) ==
  \/ disk' = [disk EXCEPT ![f] = "absent"] /\ UNCHANGED leftover
  \/ disk' = disk /\ leftover' = leftover \cup {f}

(* -------------------------------- upload --------------------------------- *)
\* The target is opened (the role and the extension were accepted).
OpenUpload(h) ==
  /\ handler[h].step = "idle"
  /\ \E f \in fresh :
       /\ handler' = [handler EXCEPT ![h] = [step |-> "writing", file |-> f]]
       /\ fresh' = fresh \ {f}
       /\ disk' = [disk EXCEPT ![f] = "partial"]
  /\ UNCHANGED <<fileRows, unsure, leftover>>

\* Mutant: a file that is too large or empty stays where it was written.
WriteUploadKeeping(h) ==
  /\ handler[h].step = "writing"
  /\ Ends(h)
  /\ UNCHANGED <<disk, leftover, fileRows, fresh, unsure>>

\* The chunks are written, or the file is too large or empty and unlinked.
WriteUpload(h) ==
  LET f == handler[h].file
  IN  /\ \/ /\ Goes(h, "writing", "saved")
            /\ disk' = [disk EXCEPT ![f] = "whole"]
            /\ UNCHANGED leftover
         \/ handler[h].step = "writing" /\ Ends(h) /\ Unlink(f)
      /\ UNCHANGED <<fileRows, fresh, unsure>>

\* The row and its event are flushed, or the database refuses: the file is deleted.
InsertRow(h) ==
  /\ \/ Goes(h, "saved", "inserted") /\ UNCHANGED <<disk, leftover>>
     \/ handler[h].step = "saved" /\ Ends(h) /\ Unlink(handler[h].file)
  /\ UNCHANGED <<fileRows, fresh, unsure>>

\* The commit succeeds, fails, or succeeds with its answer lost; an exception
\* deletes the file in both of the last cases.
CommitUpload(h) ==
  LET f == handler[h].file
  IN  /\ handler[h].step = "inserted"
      /\ Ends(h)
      /\ \/ fileRows' = fileRows \cup {f} /\ UNCHANGED <<disk, leftover, unsure>>
         \/ Unlink(f) /\ UNCHANGED <<fileRows, unsure>>
         \/ Unlink(f) /\ fileRows' = fileRows \cup {f} /\ unsure' = unsure \cup {f}
      /\ UNCHANGED fresh

(* -------------------------------- delete --------------------------------- *)
\* The row is looked up; two requests may find the same one.
FindFile(h) ==
  /\ handler[h].step = "idle"
  /\ \E f \in fileRows : handler' = [handler EXCEPT ![h] = [step |-> "found", file |-> f]]
  /\ UNCHANGED <<disk, fileRows, fresh, unsure, leftover>>

\* The DELETE holds the row: a second one waits, then matches nothing and goes on.
RemoveRow(h) ==
  /\ Goes(h, "found", "removed")
  /\ ~\E o \in Handlers : handler[o] = [step |-> "removed", file |-> handler[h].file]
  /\ UNCHANGED <<disk, fileRows, fresh, unsure, leftover>>

\* Mutant: the file is unlinked before the commit.
CommitDeleteLate(h) ==
  LET f == handler[h].file
  IN  /\ \/ Goes(h, "removed", "deleted") /\ disk' = [disk EXCEPT ![f] = "absent"]
            /\ UNCHANGED fileRows
         \/ handler[h].step = "deleted" /\ Ends(h) /\ fileRows' = fileRows \ {f}
            /\ UNCHANGED disk
      /\ UNCHANGED <<fresh, unsure, leftover>>

CommitDelete(h) ==
  /\ Goes(h, "removed", "deleted")
  /\ fileRows' = fileRows \ {handler[h].file}
  /\ UNCHANGED <<disk, fresh, unsure, leftover>>

UnlinkDeleted(h) ==
  /\ handler[h].step = "deleted"
  /\ Ends(h)
  /\ Unlink(handler[h].file)
  /\ UNCHANGED <<fileRows, fresh, unsure>>

(* ------------------------------- failures -------------------------------- *)
\* The process dies under the handler: nothing is committed, nothing unlinked.
Die(h) ==
  /\ handler[h].step # "idle"
  /\ Ends(h)
  /\ leftover' = IF handler[h].step \in {"found", "removed"}
                 THEN leftover ELSE leftover \cup {handler[h].file}
  /\ UNCHANGED <<disk, fileRows, fresh, unsure>>

FilesNext ==
  \E h \in Handlers :
    \/ OpenUpload(h) \/ WriteUpload(h) \/ InsertRow(h) \/ CommitUpload(h)
    \/ FindFile(h) \/ RemoveRow(h) \/ CommitDelete(h) \/ UnlinkDeleted(h)
    \/ Die(h)

FilesSpec == FilesInit /\ [][FilesNext]_fileVars

(* ------------------------------ properties ------------------------------- *)
\* A committed row has its whole file, whatever died in between; the one exception
\* is a commit that took place and raised, after which the handler deletes the file.
RowHasFile == \A f \in fileRows \ unsure : disk[f] = "whole"

\* A file has a row or a handler at work on it; only a handler that died or a
\* failed unlink leaves a file nobody will ever delete.
NoOrphans ==
  \A f \in Files : disk[f] # "absent" =>
    f \in fileRows \cup leftover \cup {handler[h].file : h \in Handlers}
=============================================================================
