----------------------------- MODULE OutputFiles -----------------------------
(***************************************************************************)
(* What rsp1b_capture does to the file system, over several runs with the  *)
(* same --out: class ExistingFileRollback (src/src/output_file.cpp),       *)
(* openFile(), writeMetadataFile() and the order in which runCapture()     *)
(* (src/src/rsp1b_capture.cpp) calls them.  An operation on a file may     *)
(* fail, an exception may end a run, and the process may die at any point. *)
(* Runs do not overlap: README.md asks the operator to see to that.        *)
(*                                                                         *)
(* The receiver appears only as the outcomes runCapture() looks at, and    *)
(* the writer as an open file, which holds data or does not.               *)
(***************************************************************************)
EXTENDS Integers, FiniteSetsExt

CONSTANTS
  MaxSuffix,   \* kMaximumBackupSuffix
  MaxRuns      \* bound: runs of the program

ASSUME FilesAssumption == MaxSuffix \in Nat /\ MaxRuns \in Nat

IQ        == <<"iq", 0>>
Metadata  == <<"metadata", 0>>
Backup(n) == <<"backup", n>>
Suffixes  == 0 .. MaxSuffix
Paths     == {IQ, Metadata} \union {Backup(n) : n \in Suffixes}

\* run: the run that wrote a regular file, 0 for one that was there before;
\* data: it is not empty.
Absent          == [kind |-> "absent", run |-> 0, data |-> FALSE]
Special         == [kind |-> "special", run |-> 0, data |-> FALSE]
File(run, data) == [kind |-> "regular", run |-> run, data |-> data]
Files == {Absent, Special}
           \union {File(r, d) : r \in 0 .. MaxRuns, d \in BOOLEAN}

VARIABLES
  files,           \* the file at each path
  run,             \* the current or last run
  at,              \* what runCapture() is about to do
  force, outputExisted, success,
  active, backup,  \* ExistingFileRollback: active_, the suffix of backupPath_
  open,            \* the writer's stream is open on the IQ path
  initialised,     \* the receiver has been initialised
  committed, undoFailed, thrown,   \* history of the run
  outcome,         \* how the last run ended
  found,           \* history: the files as the run found them
  owed             \* history: IQ files found and not yet rightly replaced

locals  == <<force, outputExisted, success, initialised>>
history == <<committed, undoFailed, thrown, outcome, found>>
vars    == <<files, run, at, locals, active, backup, open, history, owed>>

\* A backup of the program's own is left behind by a run below, not here.
Init ==
  /\ files \in [Paths -> {Absent, Special, File(0, TRUE)}]
  /\ \A n \in Suffixes : files[Backup(n)] # File(0, TRUE)
  /\ run = 0 /\ at = "idle" /\ force = FALSE /\ outputExisted = FALSE
  /\ success = FALSE /\ active = FALSE /\ backup = 0 /\ open = FALSE
  /\ initialised = FALSE /\ committed = FALSE /\ undoFailed = FALSE
  /\ thrown = FALSE /\ outcome = "none" /\ found = files /\ owed = {}

-----------------------------------------------------------------------------
(* The file system.                                                        *)

Exists(path)    == files[path].kind # "absent"
IsRegular(path) == files[path].kind = "regular"

Put(path, file)  == files' = [files EXCEPT ![path] = file]
Remove(path)     == Put(path, Absent)
Rename(from, to) ==
  files' = [files EXCEPT ![to] = files[from], ![from] = Absent]

-----------------------------------------------------------------------------
(* Faulty variants: slips that would be easy to make in this code.  None   *)
(* is part of Next; substituting one for the operator of similar name      *)
(* shows that the property which is meant to catch it does.                *)

\* --force is taken to authorize anything.
MayWriteAnything(path) == ~Exists(path) \/ force

\* The search for a free name ends one suffix too late.
FreeSuffixesOffByOne ==
  {n \in 0 .. MaxSuffix + 1 : n > MaxSuffix \/ ~Exists(Backup(n))}

\* The plain backup name is used, whether or not it is in use.
FreeSuffixUnchecked == 0

\* Whether the metadata reached the disk is not looked at.
WriteMetadataUnchecked(ok) ==
  /\ at = "writeMetadata"
  /\ IF ok THEN Put(Metadata, File(run, TRUE)) ELSE UNCHANGED files
  /\ at' = "leave"
  /\ UNCHANGED <<run, locals, active, backup, open, history, owed>>

\* The rollback is destroyed before the writer.
LeaveUndoingFirst ==
  /\ at = "leave"
  /\ open' = (open /\ active)
  /\ at' = IF active THEN "undo" ELSE "exit"
  /\ UNCHANGED <<files, run, locals, active, backup, history, owed>>

\* A run that kept nothing aside leaves its empty file behind.
DiscardNothing(ok) ==
  /\ at = "discard"
  /\ at' = IF active THEN "restore" ELSE "leave"
  /\ UNCHANGED <<files, run, locals, active, backup, open, history, owed>>

-----------------------------------------------------------------------------
(* checkOutputPath(), which all writing goes through, and the backup name. *)

MayWrite(path) == Exists(path) => IsRegular(path) /\ force

\* The first suffix of the backup name that is not in use.
FreeSuffixes == {n \in Suffixes : ~Exists(Backup(n))}
FreeSuffix   == Min(FreeSuffixes)

-----------------------------------------------------------------------------
(* The start of a run: nothing is touched.                                 *)

Start(forced) ==
  /\ at = "idle" /\ run < MaxRuns
  /\ run' = run + 1 /\ force' = forced /\ at' = "check"
  /\ outputExisted' = FALSE /\ success' = FALSE /\ initialised' = FALSE
  /\ active' = FALSE /\ backup' = 0 /\ open' = FALSE
  /\ committed' = FALSE /\ undoFailed' = FALSE /\ thrown' = FALSE
  /\ outcome' = "none" /\ found' = files
  /\ owed' = IF IsRegular(IQ) THEN owed \union {files[IQ]} ELSE owed
  /\ UNCHANGED files

\* The checks refuse a path, the two paths are the same file, the directory
\* cannot be made, connect() or configure() fails, or a signal has arrived.
GiveUpEarly ==
  /\ at \in {"check", "preserve"} /\ at' = "leave"
  /\ UNCHANGED <<files, run, locals, active, backup, open, history, owed>>

CheckPaths ==
  /\ at = "check" /\ MayWrite(IQ) /\ MayWrite(Metadata)
  /\ outputExisted' = Exists(IQ)
  /\ at' = "preserve"
  /\ UNCHANGED <<files, run, force, success, initialised, active, backup,
                 open, history, owed>>

-----------------------------------------------------------------------------
(* preserve() and openFile().                                              *)

Preserve(ok) ==
  /\ at = "preserve" /\ outputExisted
  /\ IF ok /\ IsRegular(IQ) /\ FreeSuffixes # {}
     THEN /\ Rename(IQ, Backup(FreeSuffix))
          /\ backup' = FreeSuffix /\ active' = TRUE /\ at' = "open"
     ELSE at' = "leave" /\ UNCHANGED <<files, backup, active>>
  /\ UNCHANGED <<run, locals, open, history, owed>>

PreserveNothing ==
  /\ at = "preserve" /\ ~outputExisted /\ at' = "open"
  /\ UNCHANGED <<files, run, locals, active, backup, open, history, owed>>

OpenFile(ok) ==
  /\ at = "open"
  /\ IF ok /\ MayWrite(IQ)
     THEN Put(IQ, File(run, FALSE)) /\ open' = TRUE /\ at' = "ready"
     ELSE at' = "restore" /\ UNCHANGED <<files, open>>
  /\ UNCHANGED <<run, locals, active, backup, history, owed>>

-----------------------------------------------------------------------------
(* From initialise() on the writer may write; commit() gives up the backup.*)

Initialise(ok) ==
  /\ at = "ready"
  /\ initialised' = ok
  /\ at' = IF ok THEN "commit" ELSE "abandon"
  /\ UNCHANGED <<files, run, force, outputExisted, success, active, backup,
                 open, history, owed>>

WriteSamples ==
  /\ open /\ initialised /\ ~files[IQ].data
  /\ Put(IQ, File(run, TRUE))
  /\ UNCHANGED <<run, at, locals, active, backup, open, history, owed>>

Commit(ok) ==
  /\ at = "commit"
  /\ IF active /\ ok
     THEN /\ Remove(Backup(backup))
          /\ active' = FALSE
          /\ owed' = IF initialised THEN owed \ {files[Backup(backup)]}
                                    ELSE owed
     ELSE UNCHANGED <<files, active, owed>>
  /\ committed' = (active => ok)
  /\ at' = IF active => ok THEN "stream" ELSE "abandon"
  /\ UNCHANGED <<run, locals, backup, open, undoFailed, thrown, outcome,
                 found>>

-----------------------------------------------------------------------------
(* A run that gives up with the output open: the receiver is stopped, the  *)
(* writer finished, and discardUninitializedOutput() called.               *)

Abandon ==
  /\ at = "abandon"
  /\ open' = FALSE /\ at' = "discard"
  /\ UNCHANGED <<files, run, locals, active, backup, history, owed>>

\* Nothing was kept aside: removeEmptyCapture().
Discard(ok) ==
  /\ at = "discard"
  /\ IF active
     THEN at' = "restore" /\ UNCHANGED <<files, undoFailed>>
     ELSE /\ IF ok /\ ~files[IQ].data THEN Remove(IQ) ELSE UNCHANGED files
          /\ undoFailed' = ~ok
          /\ at' = "leave"
  /\ UNCHANGED <<run, locals, active, backup, open, committed, thrown, outcome,
                 found, owed>>

\* restore(), up to the removal of the replacement, and from there on.
Restore(ok) ==
  /\ at = "restore"
  /\ IF active /\ ok THEN Remove(IQ) /\ at' = "rename"
                     ELSE at' = "leave" /\ UNCHANGED files
  /\ UNCHANGED <<run, locals, active, backup, open, history, owed>>

RestoreRename(ok) ==
  /\ at = "rename" /\ at' = "leave"
  /\ active' = ~ok
  /\ IF ok THEN Rename(Backup(backup), IQ) ELSE UNCHANGED files
  /\ UNCHANGED <<run, locals, backup, open, history, owed>>

-----------------------------------------------------------------------------
(* The end of the recording, and writeMetadataFile().                      *)

\* ok: nothing that counts against the recording has happened.
Finish(ok) ==
  /\ at = "stream"
  /\ open' = FALSE /\ success' = ok /\ at' = "metadata"
  /\ UNCHANGED <<files, run, force, outputExisted, initialised, active, backup,
                 history, owed>>

OpenMetadata(ok) ==
  /\ at = "metadata"
  /\ IF ok /\ MayWrite(Metadata)
     THEN /\ Put(Metadata, File(run, FALSE))
          /\ at' = "writeMetadata" /\ UNCHANGED success
     ELSE success' = FALSE /\ at' = "leave" /\ UNCHANGED files
  /\ UNCHANGED <<run, force, outputExisted, initialised, active, backup, open,
                 history, owed>>

WriteMetadata(ok) ==
  /\ at = "writeMetadata"
  /\ IF ok THEN Put(Metadata, File(run, TRUE)) ELSE UNCHANGED files
  /\ success' = (success /\ ok)
  /\ at' = "leave"
  /\ UNCHANGED <<run, force, outputExisted, initialised, active, backup, open,
                 history, owed>>

-----------------------------------------------------------------------------
(* Leaving runCapture(), by a return or an exception: the session is       *)
(* destroyed, then the writer, and last the rollback.                      *)

Throw ==
  /\ at \in {"preserve", "open", "ready", "commit", "abandon", "discard",
             "restore", "rename", "stream", "metadata", "writeMetadata"}
  /\ thrown' = TRUE /\ success' = FALSE /\ at' = "leave"
  /\ UNCHANGED <<files, run, force, outputExisted, initialised, active, backup,
                 open, committed, undoFailed, outcome, found, owed>>

Leave ==
  /\ at = "leave"
  /\ open' = FALSE
  /\ at' = IF active THEN "undo" ELSE "exit"
  /\ UNCHANGED <<files, run, locals, active, backup, history, owed>>

\* ~ExistingFileRollback() does not look at the result of its first call.
UndoRemove(ok) ==
  /\ at = "undo" /\ at' = "undoRename"
  /\ IF ok THEN Remove(IQ) ELSE UNCHANGED files
  /\ UNCHANGED <<run, locals, active, backup, open, history, owed>>

UndoRename(ok) ==
  /\ at = "undoRename" /\ at' = "exit"
  /\ IF ok THEN Rename(Backup(backup), IQ) ELSE UNCHANGED files
  /\ undoFailed' = ~ok
  /\ UNCHANGED <<run, locals, active, backup, open, committed, thrown, outcome,
                 found, owed>>

\* The process is gone, and with it everything but the files.
End(result) ==
  /\ at' = "idle" /\ outcome' = result
  /\ active' = FALSE /\ open' = FALSE
  /\ UNCHANGED <<files, run, locals, backup, committed, undoFailed, thrown,
                 found, owed>>

Exit  == at = "exit" /\ End(IF success THEN "success" ELSE "failure")
Crash == at # "idle" /\ End("crash")

Done == at = "idle" /\ run = MaxRuns /\ UNCHANGED vars

Next ==
  \/ GiveUpEarly \/ CheckPaths \/ PreserveNothing \/ WriteSamples \/ Abandon
  \/ Throw \/ Leave \/ Exit \/ Crash \/ Done
  \/ \E forced \in BOOLEAN : Start(forced)
  \/ \E ok \in BOOLEAN :
       \/ Preserve(ok) \/ OpenFile(ok) \/ Initialise(ok) \/ Commit(ok)
       \/ Discard(ok) \/ Restore(ok) \/ RestoreRename(ok)
       \/ Finish(ok) \/ OpenMetadata(ok) \/ WriteMetadata(ok)
       \/ UndoRemove(ok) \/ UndoRename(ok)

Spec == Init /\ [][Next]_vars

-----------------------------------------------------------------------------
(* Properties.                                                             *)

TypeOK ==
  /\ files \in [Paths -> Files] /\ found \in [Paths -> Files]
  /\ run \in 0 .. MaxRuns
  /\ at \in {"idle", "check", "preserve", "open", "ready", "commit", "stream",
             "abandon", "discard", "restore", "rename", "metadata",
             "writeMetadata", "leave", "undo", "undoRename", "exit"}
  /\ force \in BOOLEAN /\ outputExisted \in BOOLEAN /\ success \in BOOLEAN
  /\ active \in BOOLEAN /\ backup \in Suffixes /\ open \in BOOLEAN
  /\ initialised \in BOOLEAN /\ committed \in BOOLEAN
  /\ undoFailed \in BOOLEAN /\ thrown \in BOOLEAN
  /\ outcome \in {"none", "success", "failure", "crash"}
  /\ owed \subseteq Files

\* A recording that a run found under the IQ path is, until a run has
\* initialised the receiver to replace it, under that path or a backup of it:
\* whatever fails, wherever a run dies, and however many runs follow.
NothingLost ==
  \A file \in owed :
    files[IQ] = file \/ \E n \in Suffixes : files[Backup(n)] = file

Ended == at = "idle" /\ outcome \in {"success", "failure"}

\* A run that ends before it has committed its recording leaves every file as
\* it was, unless the attempts to put the original back, or to remove the
\* empty recording, failed too.  An exception is the one other exception: it
\* leaves a new recording where there was none.
LeavesNoTrace ==
  Ended /\ ~committed /\ ~undoFailed =>
    \/ files = found
    \/ /\ thrown /\ found[IQ] = Absent
       /\ \E data \in BOOLEAN :
            files = [found EXCEPT ![IQ] = File(run, data)]

\* A run reports success only if the recording and the metadata are both its
\* own, the metadata complete, and no backup has come or gone.
SuccessIsComplete ==
  Ended /\ outcome = "success" =>
    /\ files[IQ].run = run
    /\ files[Metadata] = File(run, TRUE)
    /\ \A n \in Suffixes : files[Backup(n)] = found[Backup(n)]

\* As long as the writer's stream is open, the file under the IQ path is the
\* run's own: the original is not put back under an open stream.
WriterOwnsPath == open => files[IQ].kind = "regular" /\ files[IQ].run = run

\* No step touches a directory, a link or a device; and without --force none
\* touches a file that the run did not create.
OnlyAuthorizedChanges ==
  [][\A path \in Paths :
       files'[path] # files[path] =>
         \/ ~Exists(path)
         \/ IsRegular(path) /\ (force \/ files[path].run = run)]_vars
=============================================================================
