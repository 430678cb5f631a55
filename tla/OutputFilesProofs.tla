-------------------------- MODULE OutputFilesProofs --------------------------
(***************************************************************************)
(* Proofs about OutputFiles, for any number of runs and of backup names.   *)
(* What a run has done to the files is a matter of where it is: FilesInv   *)
(* says it for each place, comparing the files with those the run found.   *)
(***************************************************************************)
EXTENDS OutputFiles, WellFoundedInduction, TLAPS

-----------------------------------------------------------------------------
(* The inductive invariant.                                                *)

\* The run's own file, with data or without.
Own(file) == file = File(run, FALSE) \/ file = File(run, TRUE)

\* Every file was written by a run that has started, and every file found,
\* or owed, by an earlier one: no run can take its own file for another's.
Runs ==
  /\ \A path \in Paths : files[path].run <= run
  /\ at # "idle" => \A path \in Paths : found[path].run < run
  /\ \A file \in owed : file.kind = "regular" /\ file.run < run

\* Three things that can have become of the files before the commit.
Untouched == \A path \in Paths : files[path] = found[path]

NewOnly ==
  /\ found[IQ] = Absent /\ Own(files[IQ])
  /\ \A path \in Paths \ {IQ} : files[path] = found[path]

SetAside ==
  /\ force /\ found[IQ].kind = "regular"
  /\ found[Backup(backup)] = Absent
  /\ files[Backup(backup)] = found[IQ]
  /\ files[IQ] = Absent \/ Own(files[IQ])
  /\ \A path \in Paths \ {IQ, Backup(backup)} : files[path] = found[path]

\* ... and after it.
Replaced ==
  /\ Own(files[IQ])
  /\ \A n \in Suffixes : files[Backup(n)] = found[Backup(n)]

\* The original is aside as long as the rollback is active.
Rollback ==
  /\ active => ~committed /\ at \notin {"idle", "check", "preserve", "stream",
                                        "metadata", "writeMetadata"}
  /\ active /\ at # "exit" => SetAside
  /\ at \in {"rename", "undo", "undoRename"} => active

\* The early places, where the output is not open yet.
Beginning ==
  /\ at \in {"check", "preserve"} => Untouched /\ ~committed
  /\ at = "preserve" /\ files[IQ] # Absent =>
       outputExisted /\ force /\ IsRegular(IQ)
  /\ at = "preserve" /\ files[IQ] = Absent => ~outputExisted
  /\ at \in {"open", "rename"} => files[IQ] = Absent
  /\ at \in {"open", "restore"} => ~committed
  /\ at \in {"open", "restore"} /\ ~active => Untouched

\* The output is the run's own while it is open, and until it is discarded.
Holding ==
  /\ open => at \in {"ready", "commit", "stream", "abandon", "leave"}
             /\ Own(files[IQ])
  /\ at \in {"ready", "commit", "abandon", "discard"} =>
       /\ Own(files[IQ]) /\ ~committed
       /\ ~active => NewOnly
  /\ at \in {"check", "preserve", "open", "ready"} => ~initialised
  /\ at = "commit" => initialised
  /\ at \in {"ready", "abandon", "discard"} /\ ~initialised =>
       files[IQ] = File(run, FALSE)
  /\ at \in {"abandon", "discard"} /\ ~active => ~initialised

\* A run that is over, or about to leave, has put back what it had changed.
Leaving ==
  (at = "leave" /\ ~active) \/ at = "exit" \/ Ended =>
    committed \/ undoFailed \/ Untouched \/ (thrown /\ NewOnly)

\* After the commit.
Recorded ==
  /\ at \in {"stream", "metadata", "writeMetadata"} => committed
  /\ committed /\ (at # "idle" \/ Ended) => Replaced
  /\ at = "writeMetadata" => files[Metadata] = File(run, FALSE)
  /\ success /\ at # "idle" =>
       committed /\ at \in {"metadata", "writeMetadata", "leave", "exit"}
  /\ (success /\ at \in {"leave", "exit"}) \/ (Ended /\ outcome = "success") =>
       committed /\ files[Metadata] = File(run, TRUE)

FilesInv ==
  /\ TypeOK /\ Runs /\ Rollback /\ Beginning /\ Holding /\ Leaving /\ Recorded
  /\ NothingLost

-----------------------------------------------------------------------------
(* Paths, files and free names.                                            *)

\* No two of the paths are the same.
LEMMA PathFacts ==
  /\ IQ \in Paths /\ Metadata \in Paths /\ IQ # Metadata
  /\ \A n \in Suffixes : /\ Backup(n) \in Paths
                         /\ Backup(n) # IQ /\ Backup(n) # Metadata
  /\ \A m, n \in Suffixes : Backup(m) = Backup(n) => m = n
BY DEF IQ, Metadata, Backup, Paths

\* What the kind of a file tells.
LEMMA FileFacts ==
  /\ Absent \in Files /\ Absent.kind = "absent" /\ Absent.run = 0
  /\ \A file \in Files : file.kind = "absent" => file = Absent
  /\ \A file \in Files : file.run \in 0 .. MaxRuns
  /\ \A r \in 0 .. MaxRuns :
       /\ File(r, FALSE) \in Files /\ File(r, TRUE) \in Files
       /\ File(r, FALSE).kind = "regular" /\ File(r, TRUE).kind = "regular"
       /\ File(r, FALSE).run = r /\ File(r, TRUE).run = r
       /\ ~File(r, FALSE).data /\ File(r, TRUE).data
<1>. USE FilesAssumption
<1>1. /\ Absent \in Files /\ Absent.kind = "absent" /\ Absent.run = 0
      /\ Special.kind = "special" /\ Special.run = 0
  BY DEF Absent, Special, Files
<1>2. ASSUME NEW r \in 0 .. MaxRuns, NEW d \in BOOLEAN
      PROVE  /\ File(r, d) \in Files /\ File(r, d).kind = "regular"
             /\ File(r, d).run = r
  BY DEF File, Files
<1>3. ASSUME NEW file \in Files
      PROVE  /\ file.kind = "absent" => file = Absent
             /\ file.run \in 0 .. MaxRuns
  <2>1. CASE file \in {Absent, Special}
    BY <1>1, <2>1
  <2>2. ASSUME NEW r \in 0 .. MaxRuns, NEW d \in BOOLEAN, file = File(r, d)
        PROVE  file.kind = "regular" /\ file.run \in 0 .. MaxRuns
    BY <1>2, <2>2
  <2>. QED BY <2>1, <2>2 DEF Files
<1>4. ASSUME NEW r \in 0 .. MaxRuns
      PROVE  /\ File(r, FALSE) \in Files /\ File(r, TRUE) \in Files
             /\ File(r, FALSE).kind = "regular"
             /\ File(r, TRUE).kind = "regular"
             /\ File(r, FALSE).run = r /\ File(r, TRUE).run = r
  <2>1. FALSE \in BOOLEAN /\ TRUE \in BOOLEAN
    OBVIOUS
  <2>. QED BY <1>2, <2>1, Zenon
<1>5. \A r \in 0 .. MaxRuns : ~File(r, FALSE).data /\ File(r, TRUE).data
  BY DEF File
<1>. QED BY <1>1, <1>3, <1>4, <1>5

\* If a backup name is free, the search finds one that is.
LEMMA FreeSuffixIsFree ==
  ASSUME FreeSuffixes # {}
  PROVE  FreeSuffix \in Suffixes /\ ~Exists(Backup(FreeSuffix))
<1>. DEFINE R == OpToRel(<, Nat)
<1>1. FreeSuffixes \subseteq Nat
  BY DEF FreeSuffixes, Suffixes
<1>2. \A m, n \in Nat : m < n => <<m, n>> \in R
  BY DEF OpToRel
<1>3. IsWellFoundedOn(R, Nat)
  BY NatLessThanWellFounded
<1>. HIDE DEF R
<1>4. PICK n \in FreeSuffixes : \A m \in FreeSuffixes : <<m, n>> \notin R
  BY <1>1, <1>3, WFMin
<1>5. \A m \in FreeSuffixes : ~(m < n)
  BY <1>1, <1>2, <1>4, Zenon
<1>6. \A m \in FreeSuffixes : n <= m
  BY <1>1, <1>5
<1>7. FreeSuffix \in FreeSuffixes
  BY <1>6 DEF FreeSuffix, Min
<1>. QED BY <1>7 DEF FreeSuffixes

\* Writing and renaming change the paths they are about and no other.
LEMMA PutFacts ==
  ASSUME TypeOK, NEW path \in Paths, NEW file \in Files, Put(path, file)
  PROVE  /\ files' \in [Paths -> Files] /\ files'[path] = file
         /\ \A other \in Paths \ {path} : files'[other] = files[other]
BY DEF TypeOK, Put

LEMMA RenameFacts ==
  ASSUME TypeOK, NEW from \in Paths, NEW to \in Paths, from # to,
         Rename(from, to)
  PROVE  /\ files' \in [Paths -> Files]
         /\ files'[from] = Absent /\ files'[to] = files[from]
         /\ \A other \in Paths \ {from, to} : files'[other] = files[other]
BY FileFacts DEF TypeOK, Rename

-----------------------------------------------------------------------------
(* What changes of single files do to the parts of the invariant.          *)

\* The files a run makes.
LEMMA OwnFacts ==
  ASSUME TypeOK
  PROVE  /\ run \in Nat
         /\ File(run, FALSE) \in Files /\ File(run, TRUE) \in Files
         /\ File(run, FALSE).run = run /\ File(run, TRUE).run = run
         /\ File(run, FALSE).run <= run /\ File(run, TRUE).run <= run
         /\ Absent.run <= run
         /\ \A file : Own(file) => file.kind = "regular" /\ file.run = run
<1>1. run \in 0 .. MaxRuns
  BY DEF TypeOK
<1>2. /\ File(run, FALSE) \in Files /\ File(run, TRUE) \in Files
      /\ File(run, FALSE).run = run /\ File(run, TRUE).run = run
      /\ File(run, FALSE).kind = "regular" /\ File(run, TRUE).kind = "regular"
      /\ Absent.run = 0
  BY <1>1, FileFacts, Zenon
<1>3. run \in Nat
  BY ONLY <1>1, FilesAssumption
<1>4. \A file : Own(file) => file.kind = "regular" /\ file.run = run
  BY <1>2, Zenon DEF Own
<1>5. run <= run /\ 0 <= run
  BY ONLY <1>3
<1>. QED BY <1>2, <1>3, <1>4, <1>5, Zenon

\* A run's own file has not been found by any run.
LEMMA OwnIsNotOwed ==
  ASSUME FilesInv, NEW file, file = Absent \/ Own(file)
  PROVE  file \notin owed
<1>1. \A other \in owed : other.kind = "regular" /\ other.run < run
  BY DEF FilesInv, Runs
<1>2. CASE file = Absent
  BY <1>1, <1>2, FileFacts
<1>3. CASE Own(file)
  BY <1>1, <1>3, OwnFacts DEF FilesInv
<1>. QED BY <1>2, <1>3

\* Overwriting a file that is not owed loses none that is.
LEMMA OverwriteLosesNothing ==
  ASSUME FilesInv, NEW path \in Paths, files[path] \notin owed',
         \A other \in Paths \ {path} : files'[other] = files[other],
         owed' \subseteq owed
  PROVE  NothingLost'
<1>. SUFFICES ASSUME NEW file \in owed'
              PROVE  files'[IQ] = file
                     \/ \E n \in Suffixes : files'[Backup(n)] = file
  BY DEF NothingLost
<1>1. CASE files[IQ] = file
  BY <1>1, PathFacts
<1>2. ASSUME NEW n \in Suffixes, files[Backup(n)] = file
      PROVE  files'[Backup(n)] = file
  BY <1>2, PathFacts
<1>. QED BY <1>1, <1>2 DEF FilesInv, NothingLost

\* Neither does moving one, over a file that is not owed.
LEMMA MoveLosesNothing ==
  ASSUME FilesInv, NEW n \in Suffixes, NEW from, NEW to,
         \/ from = IQ /\ to = Backup(n)
         \/ from = Backup(n) /\ to = IQ,
         files[to] \notin owed, files'[to] = files[from],
         \A other \in Paths \ {from, to} : files'[other] = files[other],
         owed' = owed
  PROVE  NothingLost'
<1>. SUFFICES ASSUME NEW file \in owed
              PROVE  files'[IQ] = file
                     \/ \E k \in Suffixes : files'[Backup(k)] = file
  BY DEF NothingLost
<1>1. files[IQ] = file \/ \E k \in Suffixes : files[Backup(k)] = file
  BY DEF FilesInv, NothingLost
<1>2. CASE files[from] = file
  BY <1>2
<1>3. CASE files[IQ] = file /\ IQ # from
  BY <1>3
<1>4. ASSUME NEW k \in Suffixes, files[Backup(k)] = file, Backup(k) # from
      PROVE  files'[Backup(k)] = file
  BY <1>4, PathFacts
<1>. QED BY <1>1, <1>2, <1>3, <1>4

\* Every file stays one of a run that has started.
LEMMA RunsStay ==
  ASSUME FilesInv, at # "idle", UNCHANGED <<run, found>>,
         owed' \subseteq owed, \A path \in Paths : files'[path].run <= run
  PROVE  Runs'
BY DEF FilesInv, Runs

\* Changing the run's own file is no change that anybody else notices.
LEMMA OwnStays ==
  ASSUME FilesInv, run' = run, found' = found, force' <=> force,
         backup' = backup, Own(files[IQ]),
         \A path \in Paths \ {IQ} : files'[path] = files[path],
         files'[IQ] = File(run, FALSE) \/ files'[IQ] = File(run, TRUE)
  PROVE  /\ Own(files[IQ])'
         /\ NewOnly => NewOnly'
         /\ SetAside => SetAside'
         /\ Replaced => Replaced'
<1>1. Own(files[IQ])'
  BY DEF Own
<1>2. NewOnly => NewOnly'
  BY <1>1 DEF NewOnly
<1>3. SetAside => SetAside'
  BY <1>1, PathFacts DEF SetAside, FilesInv, TypeOK
<1>4. Replaced => Replaced'
  BY <1>1, PathFacts DEF Replaced
<1>. QED BY <1>1, <1>2, <1>3, <1>4

\* A run that has its own file under the IQ path has changed something.
LEMMA OwnIsNotFound ==
  ASSUME FilesInv, at # "idle", Own(files[IQ])
  PROVE  ~Untouched
<1>1. found[IQ].run < run /\ run \in Nat /\ files[IQ].run = run
  BY PathFacts, OwnFacts DEF FilesInv, Runs
<1>. QED BY <1>1, PathFacts DEF Untouched

\* The writer writes to the file that the run created.
LEMMA WriteSamplesStep ==
  ASSUME FilesInv, WriteSamples
  PROVE  FilesInv'
<1>1. /\ files' \in [Paths -> Files] /\ files'[IQ] = File(run, TRUE)
      /\ \A path \in Paths \ {IQ} : files'[path] = files[path]
  BY PutFacts, PathFacts, FileFacts DEF FilesInv, TypeOK, WriteSamples
<1>2. /\ at \in {"ready", "commit", "stream", "abandon", "leave"}
      /\ open /\ initialised /\ Own(files[IQ])
  BY DEF FilesInv, Holding, WriteSamples
<1>3. /\ run' = run /\ at' = at /\ backup' = backup /\ outcome' = outcome
      /\ found' = found /\ owed' = owed
      /\ (force' <=> force) /\ (outputExisted' <=> outputExisted)
      /\ (success' <=> success) /\ (initialised' <=> initialised)
      /\ (active' <=> active) /\ (open' <=> open)
      /\ (committed' <=> committed) /\ (undoFailed' <=> undoFailed)
      /\ (thrown' <=> thrown)
  BY DEF WriteSamples, locals, history
<1>4. TypeOK'
  BY <1>1 DEF FilesInv, TypeOK, WriteSamples, locals, history
<1>5. Runs'
  <2>1. File(run, TRUE).run <= run
    BY OwnFacts DEF FilesInv
  <2>2. \A path \in Paths : files'[path].run <= run
    BY <1>1, <2>1 DEF FilesInv, Runs
  <2>. QED BY <1>2, <1>3, <2>2, RunsStay
<1>6. /\ Own(files[IQ])' /\ ~Untouched
      /\ NewOnly => NewOnly'
      /\ SetAside => SetAside'
      /\ Replaced => Replaced'
  BY <1>1, <1>2, <1>3, OwnStays, OwnIsNotFound
<1>7. Rollback'
  BY <1>2, <1>3, <1>6 DEF FilesInv, Rollback
<1>12. Beginning'
  BY <1>2, <1>3 DEF Beginning
<1>8. Holding'
  BY <1>2, <1>3, <1>6 DEF FilesInv, Holding
<1>9. Leaving'
  BY <1>2, <1>3, <1>6 DEF FilesInv, Leaving, Ended
<1>10. Recorded'
  BY <1>1, <1>2, <1>3, <1>6, PathFacts DEF FilesInv, Recorded, Ended
<1>11. NothingLost'
  BY <1>1, <1>2, <1>3, PathFacts, OwnIsNotOwed, OverwriteLosesNothing
<1>. QED
  BY <1>4, <1>5, <1>7, <1>8, <1>9, <1>10, <1>11, <1>12 DEF FilesInv

\* As long as the files stay, what was true of them stays true.
LEMMA StillStays ==
  ASSUME FilesInv, at # "idle", files' = files, run' = run, found' = found,
         owed' = owed
  PROVE  /\ Runs' /\ NothingLost'
         /\ Own(files[IQ])' <=> Own(files[IQ])
         /\ Untouched' <=> Untouched
         /\ NewOnly' <=> NewOnly
         /\ Replaced' <=> Replaced
         /\ (force' <=> force) /\ backup' = backup => (SetAside' <=> SetAside)
<1>1. Runs'
  BY DEF FilesInv, Runs
<1>2. NothingLost'
  BY DEF FilesInv, NothingLost
<1>3. Own(files[IQ])' <=> Own(files[IQ])
  BY DEF Own
<1>4. /\ Untouched' <=> Untouched
      /\ NewOnly' <=> NewOnly
      /\ Replaced' <=> Replaced
  BY <1>3 DEF Untouched, NewOnly, Replaced
<1>5. (force' <=> force) /\ backup' = backup => (SetAside' <=> SetAside)
  BY <1>3 DEF SetAside
<1>. QED BY <1>1, <1>2, <1>3, <1>4, <1>5

\* The checks may send a run home, which has done nothing yet.
LEMMA GiveUpEarlyStep ==
  ASSUME FilesInv, GiveUpEarly
  PROVE  FilesInv'
<1>. USE DEF GiveUpEarly, locals, history
<1>1. TypeOK'
  BY DEF FilesInv, TypeOK
<1>2. /\ Runs' /\ NothingLost'
      /\ Own(files[IQ])' <=> Own(files[IQ])
      /\ Untouched' <=> Untouched
      /\ NewOnly' <=> NewOnly
      /\ Replaced' <=> Replaced
      /\ SetAside' <=> SetAside
  BY StillStays
<1>3. Rollback'
  BY <1>2 DEF FilesInv, TypeOK, Rollback
<1>4. Beginning'
  BY <1>2 DEF FilesInv, TypeOK, Beginning, Rollback, IsRegular
<1>5. Holding'
  BY <1>2 DEF FilesInv, TypeOK, Holding, Rollback, Beginning
<1>6. Leaving'
  BY <1>2 DEF FilesInv, TypeOK, Leaving, Ended, Rollback, Holding, Beginning
<1>7. Recorded'
  BY <1>2 DEF FilesInv, TypeOK, Recorded, Ended, Rollback
<1>. QED BY <1>1, <1>2, <1>3, <1>4, <1>5, <1>6, <1>7 DEF FilesInv

\* The checks touch nothing.
LEMMA CheckPathsStep ==
  ASSUME FilesInv, CheckPaths
  PROVE  FilesInv'
<1>. USE DEF CheckPaths, locals, history
<1>1. TypeOK'
  <2>1. outputExisted' \in BOOLEAN
    BY Zenon DEF Exists
  <2>. QED BY <2>1 DEF FilesInv, TypeOK
<1>2. /\ Runs' /\ NothingLost'
      /\ Own(files[IQ])' <=> Own(files[IQ])
      /\ Untouched' <=> Untouched
      /\ NewOnly' <=> NewOnly
      /\ Replaced' <=> Replaced
      /\ SetAside' <=> SetAside
  BY StillStays
<1>3. Rollback'
  BY <1>2 DEF FilesInv, TypeOK, Rollback
<1>4. Beginning'
  BY <1>2, FileFacts, PathFacts
     DEF FilesInv, TypeOK, Beginning, Rollback, IsRegular, Exists, MayWrite
<1>5. Holding'
  BY <1>2 DEF FilesInv, TypeOK, Holding, Rollback, Beginning
<1>6. Leaving'
  BY <1>2 DEF FilesInv, TypeOK, Leaving, Ended, Rollback, Holding, Beginning
<1>7. Recorded'
  BY <1>2 DEF FilesInv, TypeOK, Recorded, Ended, Rollback
<1>. QED BY <1>1, <1>2, <1>3, <1>4, <1>5, <1>6, <1>7 DEF FilesInv

\* There is nothing to keep aside.
LEMMA PreserveNothingStep ==
  ASSUME FilesInv, PreserveNothing
  PROVE  FilesInv'
<1>. USE DEF PreserveNothing, locals, history
<1>1. TypeOK'
  BY DEF FilesInv, TypeOK
<1>2. /\ Runs' /\ NothingLost'
      /\ Own(files[IQ])' <=> Own(files[IQ])
      /\ Untouched' <=> Untouched
      /\ NewOnly' <=> NewOnly
      /\ Replaced' <=> Replaced
      /\ SetAside' <=> SetAside
  BY StillStays
<1>3. Rollback'
  BY <1>2 DEF FilesInv, TypeOK, Rollback
<1>4. Beginning'
  BY <1>2 DEF FilesInv, TypeOK, Beginning, Rollback, IsRegular
<1>5. Holding'
  BY <1>2 DEF FilesInv, TypeOK, Holding, Rollback, Beginning
<1>6. Leaving'
  BY <1>2 DEF FilesInv, TypeOK, Leaving, Ended, Rollback, Holding, Beginning
<1>7. Recorded'
  BY <1>2 DEF FilesInv, TypeOK, Recorded, Ended, Rollback
<1>. QED BY <1>1, <1>2, <1>3, <1>4, <1>5, <1>6, <1>7 DEF FilesInv

\* The receiver's start does not touch the files.
LEMMA InitialiseStep ==
  ASSUME FilesInv, NEW ok \in BOOLEAN, Initialise(ok)
  PROVE  FilesInv'
<1>. USE DEF Initialise, locals, history
<1>1. TypeOK'
  BY DEF FilesInv, TypeOK
<1>2. /\ Runs' /\ NothingLost'
      /\ Own(files[IQ])' <=> Own(files[IQ])
      /\ Untouched' <=> Untouched
      /\ NewOnly' <=> NewOnly
      /\ Replaced' <=> Replaced
      /\ SetAside' <=> SetAside
  BY StillStays
<1>3. Rollback'
  BY <1>2 DEF FilesInv, TypeOK, Rollback
<1>4. Beginning'
  BY <1>2 DEF FilesInv, TypeOK, Beginning, Rollback, IsRegular
<1>5. Holding'
  BY <1>2 DEF FilesInv, TypeOK, Holding, Rollback, Beginning
<1>6. Leaving'
  BY <1>2 DEF FilesInv, TypeOK, Leaving, Ended, Rollback, Holding, Beginning
<1>7. Recorded'
  BY <1>2 DEF FilesInv, TypeOK, Recorded, Ended, Rollback
<1>. QED BY <1>1, <1>2, <1>3, <1>4, <1>5, <1>6, <1>7 DEF FilesInv

\* The stream is closed before the file is discarded.
LEMMA AbandonStep ==
  ASSUME FilesInv, Abandon
  PROVE  FilesInv'
<1>. USE DEF Abandon, locals, history
<1>1. TypeOK'
  <2>1. /\ files' \in [Paths -> Files] /\ found' \in [Paths -> Files]
        /\ run' \in 0 .. MaxRuns /\ backup' \in Suffixes
        /\ owed' \subseteq Files
    BY DEF FilesInv, TypeOK
  <2>2. /\ force' \in BOOLEAN /\ outputExisted' \in BOOLEAN
        /\ success' \in BOOLEAN /\ active' \in BOOLEAN
        /\ open' \in BOOLEAN
    BY DEF FilesInv, TypeOK
  <2>3. /\ initialised' \in BOOLEAN /\ committed' \in BOOLEAN
        /\ undoFailed' \in BOOLEAN /\ thrown' \in BOOLEAN
        /\ outcome' \in {"none", "success", "failure", "crash"}
    BY DEF FilesInv, TypeOK
  <2>4. at' \in {"discard"}
    BY DEF FilesInv, TypeOK
  <2>. QED BY <2>1, <2>2, <2>3, <2>4 DEF TypeOK
<1>2. /\ Runs' /\ NothingLost'
      /\ Own(files[IQ])' <=> Own(files[IQ])
      /\ Untouched' <=> Untouched
      /\ NewOnly' <=> NewOnly
      /\ Replaced' <=> Replaced
      /\ SetAside' <=> SetAside
  BY StillStays
<1>3. Rollback'
  BY <1>2 DEF FilesInv, TypeOK, Rollback
<1>4. Beginning'
  BY <1>2 DEF FilesInv, TypeOK, Beginning, Rollback, IsRegular
<1>5. Holding'
  BY <1>2 DEF FilesInv, TypeOK, Holding, Rollback, Beginning
<1>6. Leaving'
  BY <1>2 DEF FilesInv, TypeOK, Leaving, Ended, Rollback, Holding, Beginning
<1>7. Recorded'
  BY <1>2 DEF FilesInv, TypeOK, Recorded, Ended, Rollback
<1>. QED BY <1>1, <1>2, <1>3, <1>4, <1>5, <1>6, <1>7 DEF FilesInv

\* The end of the recording leaves its success open.
LEMMA FinishStep ==
  ASSUME FilesInv, NEW ok \in BOOLEAN, Finish(ok)
  PROVE  FilesInv'
<1>. USE DEF Finish, locals, history
<1>1. TypeOK'
  <2>1. /\ files' \in [Paths -> Files] /\ found' \in [Paths -> Files]
        /\ run' \in 0 .. MaxRuns /\ backup' \in Suffixes
        /\ owed' \subseteq Files
    BY DEF FilesInv, TypeOK
  <2>2. /\ force' \in BOOLEAN /\ outputExisted' \in BOOLEAN
        /\ success' \in BOOLEAN /\ active' \in BOOLEAN
        /\ open' \in BOOLEAN
    BY DEF FilesInv, TypeOK
  <2>3. /\ initialised' \in BOOLEAN /\ committed' \in BOOLEAN
        /\ undoFailed' \in BOOLEAN /\ thrown' \in BOOLEAN
        /\ outcome' \in {"none", "success", "failure", "crash"}
    BY DEF FilesInv, TypeOK
  <2>4. at' \in {"metadata"}
    BY DEF FilesInv, TypeOK
  <2>. QED BY <2>1, <2>2, <2>3, <2>4 DEF TypeOK
<1>2. /\ Runs' /\ NothingLost'
      /\ Own(files[IQ])' <=> Own(files[IQ])
      /\ Untouched' <=> Untouched
      /\ NewOnly' <=> NewOnly
      /\ Replaced' <=> Replaced
      /\ SetAside' <=> SetAside
  BY StillStays
<1>3. Rollback'
  BY <1>2 DEF FilesInv, TypeOK, Rollback
<1>4. Beginning'
  BY <1>2 DEF FilesInv, TypeOK, Beginning, Rollback, IsRegular
<1>5. Holding'
  BY <1>2 DEF FilesInv, TypeOK, Holding, Rollback, Beginning
<1>6. Leaving'
  BY <1>2 DEF FilesInv, TypeOK, Leaving, Ended, Rollback, Holding, Beginning
<1>7. Recorded'
  BY <1>2 DEF FilesInv, TypeOK, Recorded, Ended, Rollback
<1>. QED BY <1>1, <1>2, <1>3, <1>4, <1>5, <1>6, <1>7 DEF FilesInv

\* An exception may leave the original aside, or a new file behind.
LEMMA ThrowStep ==
  ASSUME FilesInv, Throw
  PROVE  FilesInv'
<1>. USE DEF Throw, locals, history
<1>1. TypeOK'
  BY DEF FilesInv, TypeOK
<1>2. /\ Runs' /\ NothingLost'
      /\ Own(files[IQ])' <=> Own(files[IQ])
      /\ Untouched' <=> Untouched
      /\ NewOnly' <=> NewOnly
      /\ Replaced' <=> Replaced
      /\ SetAside' <=> SetAside
  BY StillStays
<1>3. Rollback'
  BY <1>2 DEF FilesInv, TypeOK, Rollback
<1>4. Beginning'
  BY <1>2 DEF FilesInv, TypeOK, Beginning, Rollback, IsRegular
<1>5. Holding'
  BY <1>2 DEF FilesInv, TypeOK, Holding, Rollback, Beginning
<1>6. Leaving'
  <2>1. (thrown' <=> TRUE) /\ (committed' <=> committed) /\ at' = "leave"
        /\ (active' <=> active) /\ (undoFailed' <=> undoFailed)
    OBVIOUS
  <2>2. ~active => committed \/ Untouched \/ NewOnly
    BY DEF FilesInv, Recorded, Rollback, Holding, Beginning
  <2>. QED BY <1>2, <2>1, <2>2 DEF Leaving, Ended
<1>7. Recorded'
  BY <1>2 DEF FilesInv, TypeOK, Recorded, Ended, Rollback
<1>. QED BY <1>1, <1>2, <1>3, <1>4, <1>5, <1>6, <1>7 DEF FilesInv

\* The stream is closed, and the rollback looked at.
LEMMA LeaveStep ==
  ASSUME FilesInv, Leave
  PROVE  FilesInv'
<1>. USE DEF Leave, locals, history
<1>1. TypeOK'
  <2>1. /\ files' \in [Paths -> Files] /\ found' \in [Paths -> Files]
        /\ run' \in 0 .. MaxRuns /\ backup' \in Suffixes
        /\ owed' \subseteq Files
    BY DEF FilesInv, TypeOK
  <2>2. /\ force' \in BOOLEAN /\ outputExisted' \in BOOLEAN
        /\ success' \in BOOLEAN /\ active' \in BOOLEAN
        /\ open' \in BOOLEAN
    BY DEF FilesInv, TypeOK
  <2>3. /\ initialised' \in BOOLEAN /\ committed' \in BOOLEAN
        /\ undoFailed' \in BOOLEAN /\ thrown' \in BOOLEAN
        /\ outcome' \in {"none", "success", "failure", "crash"}
    BY DEF FilesInv, TypeOK
  <2>4. at' \in {"undo", "exit"}
    BY DEF FilesInv, TypeOK
  <2>. QED BY <2>1, <2>2, <2>3, <2>4 DEF TypeOK
<1>2. /\ Runs' /\ NothingLost'
      /\ Own(files[IQ])' <=> Own(files[IQ])
      /\ Untouched' <=> Untouched
      /\ NewOnly' <=> NewOnly
      /\ Replaced' <=> Replaced
      /\ SetAside' <=> SetAside
  BY StillStays
<1>3. Rollback'
  BY <1>2 DEF FilesInv, TypeOK, Rollback
<1>4. Beginning'
  BY <1>2 DEF FilesInv, TypeOK, Beginning, Rollback, IsRegular
<1>5. Holding'
  BY <1>2 DEF FilesInv, TypeOK, Holding, Rollback, Beginning
<1>6. Leaving'
  BY <1>2 DEF FilesInv, TypeOK, Leaving, Ended, Rollback, Holding, Beginning
<1>7. Recorded'
  BY <1>2 DEF FilesInv, TypeOK, Recorded, Ended, Rollback
<1>. QED BY <1>1, <1>2, <1>3, <1>4, <1>5, <1>6, <1>7 DEF FilesInv

\* preserve() moves the original to a name that is free.
LEMMA PreserveStep ==
  ASSUME FilesInv, NEW ok \in BOOLEAN, Preserve(ok)
  PROVE  FilesInv'
<1>1. CASE ok /\ IsRegular(IQ) /\ FreeSuffixes # {}
  <2>1. /\ at' = "open" /\ run' = run /\ backup' = FreeSuffix
       /\ outcome' = outcome /\ found' = found /\ owed' = owed
       /\ (force' <=> force) /\ (outputExisted' <=> outputExisted)
       /\ (success' <=> success) /\ (initialised' <=> initialised)
       /\ (active' <=> TRUE) /\ (open' <=> open)
       /\ (committed' <=> committed) /\ (undoFailed' <=> undoFailed)
       /\ (thrown' <=> thrown)
    BY <1>1 DEF Preserve, locals, history
  <2>3. /\ backup' \in Suffixes /\ files[Backup(backup')] = Absent
        /\ Backup(backup') \in Paths /\ Backup(backup') # IQ
    BY <1>1, <2>1, FreeSuffixIsFree, PathFacts, FileFacts
       DEF FilesInv, TypeOK, Exists
  <2>2. /\ files' \in [Paths -> Files] /\ files'[IQ] = Absent
        /\ files'[Backup(backup')] = files[IQ]
        /\ \A path \in Paths \ {IQ, Backup(backup')} :
             files'[path] = files[path]
    BY <1>1, <2>1, <2>3, RenameFacts, PathFacts DEF Preserve, FilesInv
  <2>4. /\ at = "preserve" /\ Untouched /\ ~committed /\ ~active /\ ~open
        /\ ~initialised /\ force /\ files[IQ].kind = "regular"
    BY <1>1, FileFacts, PathFacts
       DEF Preserve, FilesInv, Beginning, Holding, Rollback, IsRegular
  <2>5. SetAside'
    BY <2>1, <2>2, <2>3, <2>4, PathFacts DEF SetAside, Untouched
  <2>6. TypeOK'
    BY <1>1, <2>2, <2>3 DEF FilesInv, TypeOK, Preserve, locals, history
  <2>7. Runs'
    <3>1. \A path \in Paths : files'[path].run <= run
      BY <2>1, <2>2, <2>3, <2>4, <2>5, OwnFacts, PathFacts DEF FilesInv, Runs
    <3>. QED BY <2>1, <2>4, <3>1, RunsStay
  <2>8. Rollback'
    BY <2>1, <2>2, <2>3, <2>4, <2>5 DEF FilesInv, Rollback
  <2>9. Beginning'
    BY <2>1, <2>2, <2>3, <2>4, <2>5 DEF FilesInv, Beginning
  <2>10. Holding'
    BY <2>1, <2>2, <2>3, <2>4, <2>5 DEF FilesInv, Holding
  <2>11. Leaving'
    BY <2>1, <2>2, <2>3, <2>4, <2>5 DEF FilesInv, Leaving, Ended
  <2>12. Recorded'
    BY <2>1, <2>2, <2>3, <2>4, <2>5, PathFacts DEF FilesInv, Recorded, Ended
  <2>13. NothingLost'
    BY <2>1, <2>2, <2>3, <2>4, <2>5, PathFacts, OwnIsNotOwed, MoveLosesNothing
       DEF SetAside
  <2>. QED BY <2>6, <2>7, <2>8, <2>9, <2>10, <2>11, <2>12, <2>13 DEF FilesInv
<1>2. CASE ~(ok /\ IsRegular(IQ) /\ FreeSuffixes # {})
  <2>1. TypeOK'
    BY <1>2 DEF FilesInv, TypeOK, Preserve, locals, history
  <2>2. /\ Runs' /\ NothingLost'
        /\ Own(files[IQ])' <=> Own(files[IQ])
        /\ Untouched' <=> Untouched
        /\ NewOnly' <=> NewOnly
        /\ Replaced' <=> Replaced
        /\ (force' <=> force) /\ backup' = backup =>
             (SetAside' <=> SetAside)
    BY <1>2, StillStays DEF Preserve, locals, history
  <2>3. Rollback'
    BY <1>2, <2>2 DEF FilesInv, TypeOK, Preserve, locals, history, Rollback
  <2>4. Beginning'
    BY <1>2, <2>2 DEF FilesInv, TypeOK, Preserve, locals, history, Beginning,
       Rollback, IsRegular
  <2>5. Holding'
    BY <1>2, <2>2 DEF FilesInv, TypeOK, Preserve, locals, history, Holding,
       Rollback, Beginning
  <2>6. Leaving'
    BY <1>2, <2>2 DEF FilesInv, TypeOK, Preserve, locals, history, Leaving,
       Ended, Rollback, Holding, Beginning
  <2>7. Recorded'
    BY <1>2, <2>2 DEF FilesInv, TypeOK, Preserve, locals, history, Recorded,
       Ended, Rollback
  <2>. QED BY <2>1, <2>2, <2>3, <2>4, <2>5, <2>6,
              <2>7 DEF FilesInv
<1>. QED BY <1>1, <1>2

\* openFile() creates the run's own file where there is none.
LEMMA OpenFileStep ==
  ASSUME FilesInv, NEW ok \in BOOLEAN, OpenFile(ok)
  PROVE  FilesInv'
<1>1. CASE ok /\ MayWrite(IQ)
  <2>1. /\ at' = "ready" /\ run' = run /\ backup' = backup
       /\ outcome' = outcome /\ found' = found /\ owed' = owed
       /\ (force' <=> force) /\ (outputExisted' <=> outputExisted)
       /\ (success' <=> success) /\ (initialised' <=> initialised)
       /\ (active' <=> active) /\ (open' <=> TRUE)
       /\ (committed' <=> committed) /\ (undoFailed' <=> undoFailed)
       /\ (thrown' <=> thrown)
    BY <1>1 DEF OpenFile, locals, history
  <2>2. /\ files' \in [Paths -> Files] /\ files'[IQ] = File(run, FALSE)
        /\ \A path \in Paths \ {IQ} : files'[path] = files[path]
    BY <1>1, PathFacts, FileFacts, PutFacts DEF OpenFile, FilesInv, TypeOK
  <2>3. /\ at = "open" /\ files[IQ] = Absent /\ ~committed /\ ~initialised
        /\ active => SetAside
        /\ ~active => Untouched
    BY DEF OpenFile, FilesInv, Beginning, Holding, Rollback
  <2>4. /\ Own(files[IQ])' /\ (active => SetAside') /\ (~active => NewOnly')
    <3>1. Own(files[IQ])'
      BY <2>1, <2>2 DEF Own
    <3>2. active => SetAside'
      BY <2>1, <2>2, <2>3, <3>1, PathFacts DEF SetAside, FilesInv, TypeOK
    <3>3. ~active => NewOnly'
      BY <2>1, <2>2, <2>3, <3>1, PathFacts DEF NewOnly, Untouched
    <3>. QED BY <3>1, <3>2, <3>3
  <2>5. TypeOK'
    BY <1>1, <2>2, <2>3 DEF FilesInv, TypeOK, OpenFile, locals, history
  <2>6. Runs'
    <3>1. \A path \in Paths : files'[path].run <= run
      BY <2>1, <2>2, <2>3, <2>4, OwnFacts, PathFacts DEF FilesInv, Runs
    <3>. QED BY <2>1, <2>3, <3>1, RunsStay
  <2>7. Rollback'
    BY <2>1, <2>2, <2>3, <2>4 DEF FilesInv, Rollback
  <2>8. Beginning'
    BY <2>1, <2>2, <2>3, <2>4 DEF FilesInv, Beginning
  <2>9. Holding'
    BY <2>1, <2>2, <2>3, <2>4 DEF FilesInv, Holding
  <2>10. Leaving'
    BY <2>1, <2>2, <2>3, <2>4 DEF FilesInv, Leaving, Ended
  <2>11. Recorded'
    BY <2>1, <2>2, <2>3, <2>4, PathFacts DEF FilesInv, Recorded, Ended
  <2>12. NothingLost'
    BY <2>1, <2>2, <2>3, <2>4, PathFacts, OwnIsNotOwed, OverwriteLosesNothing
  <2>. QED BY <2>5, <2>6, <2>7, <2>8, <2>9, <2>10, <2>11, <2>12 DEF FilesInv
<1>2. CASE ~(ok /\ MayWrite(IQ))
  <2>1. TypeOK'
    <3>1. /\ files' \in [Paths -> Files] /\ found' \in [Paths -> Files]
          /\ run' \in 0 .. MaxRuns /\ backup' \in Suffixes
          /\ owed' \subseteq Files
      BY <1>2 DEF FilesInv, TypeOK, OpenFile, locals, history
    <3>2. /\ force' \in BOOLEAN /\ outputExisted' \in BOOLEAN
          /\ success' \in BOOLEAN /\ active' \in BOOLEAN
          /\ open' \in BOOLEAN
      BY <1>2 DEF FilesInv, TypeOK, OpenFile, locals, history
    <3>3. /\ initialised' \in BOOLEAN /\ committed' \in BOOLEAN
          /\ undoFailed' \in BOOLEAN /\ thrown' \in BOOLEAN
          /\ outcome' \in {"none", "success", "failure", "crash"}
      BY <1>2 DEF FilesInv, TypeOK, OpenFile, locals, history
    <3>4. at' \in {"restore"}
      BY <1>2 DEF FilesInv, TypeOK, OpenFile, locals, history
    <3>. QED BY <3>1, <3>2, <3>3, <3>4 DEF TypeOK
  <2>2. /\ Runs' /\ NothingLost'
        /\ Own(files[IQ])' <=> Own(files[IQ])
        /\ Untouched' <=> Untouched
        /\ NewOnly' <=> NewOnly
        /\ Replaced' <=> Replaced
        /\ (force' <=> force) /\ backup' = backup =>
             (SetAside' <=> SetAside)
    BY <1>2, StillStays DEF OpenFile, locals, history
  <2>3. Rollback'
    BY <1>2, <2>2 DEF FilesInv, TypeOK, OpenFile, locals, history, Rollback
  <2>4. Beginning'
    BY <1>2, <2>2 DEF FilesInv, TypeOK, OpenFile, locals, history, Beginning,
       Rollback, IsRegular
  <2>5. Holding'
    BY <1>2, <2>2 DEF FilesInv, TypeOK, OpenFile, locals, history, Holding,
       Rollback, Beginning
  <2>6. Leaving'
    BY <1>2, <2>2 DEF FilesInv, TypeOK, OpenFile, locals, history, Leaving,
       Ended, Rollback, Holding, Beginning
  <2>7. Recorded'
    BY <1>2, <2>2 DEF FilesInv, TypeOK, OpenFile, locals, history, Recorded,
       Ended, Rollback
  <2>. QED BY <2>1, <2>2, <2>3, <2>4, <2>5, <2>6,
              <2>7 DEF FilesInv
<1>. QED BY <1>1, <1>2

\* restore() removes what replaced the original.
LEMMA RestoreStep ==
  ASSUME FilesInv, NEW ok \in BOOLEAN, Restore(ok)
  PROVE  FilesInv'
<1>1. CASE active /\ ok
  <2>1. /\ at' = "rename" /\ run' = run /\ backup' = backup
       /\ outcome' = outcome /\ found' = found /\ owed' = owed
       /\ (force' <=> force) /\ (outputExisted' <=> outputExisted)
       /\ (success' <=> success) /\ (initialised' <=> initialised)
       /\ (active' <=> active) /\ (open' <=> open)
       /\ (committed' <=> committed) /\ (undoFailed' <=> undoFailed)
       /\ (thrown' <=> thrown)
    BY <1>1 DEF Restore, locals, history
  <2>2. /\ files' \in [Paths -> Files] /\ files'[IQ] = Absent
        /\ \A path \in Paths \ {IQ} : files'[path] = files[path]
    BY <1>1, PathFacts, FileFacts, PutFacts DEF Restore, Remove, FilesInv
  <2>3. /\ at = "restore" /\ active /\ ~committed /\ SetAside /\ ~open
        /\ files[IQ] = Absent \/ Own(files[IQ])
    BY <1>1 DEF Restore, FilesInv, Rollback, Holding, SetAside
  <2>4. SetAside'
    BY <2>1, <2>2, <2>3, PathFacts DEF SetAside, FilesInv, TypeOK
  <2>5. TypeOK'
    BY <1>1, <2>2, <2>3 DEF FilesInv, TypeOK, Restore, locals, history
  <2>6. Runs'
    <3>1. \A path \in Paths : files'[path].run <= run
      BY <2>1, <2>2, <2>3, <2>4, OwnFacts, PathFacts DEF FilesInv, Runs
    <3>. QED BY <2>1, <2>3, <3>1, RunsStay
  <2>7. Rollback'
    BY <2>1, <2>2, <2>3, <2>4 DEF FilesInv, Rollback
  <2>8. Beginning'
    BY <2>1, <2>2, <2>3, <2>4 DEF FilesInv, Beginning
  <2>9. Holding'
    BY <2>1, <2>2, <2>3, <2>4 DEF FilesInv, Holding
  <2>10. Leaving'
    BY <2>1, <2>2, <2>3, <2>4 DEF FilesInv, Leaving, Ended
  <2>11. Recorded'
    BY <2>1, <2>2, <2>3, <2>4, PathFacts DEF FilesInv, Recorded, Ended
  <2>12. NothingLost'
    BY <2>1, <2>2, <2>3, <2>4, PathFacts, OwnIsNotOwed, OverwriteLosesNothing
  <2>. QED BY <2>5, <2>6, <2>7, <2>8, <2>9, <2>10, <2>11, <2>12 DEF FilesInv
<1>2. CASE ~(active /\ ok)
  <2>1. TypeOK'
    BY <1>2 DEF FilesInv, TypeOK, Restore, locals, history
  <2>2. /\ Runs' /\ NothingLost'
        /\ Own(files[IQ])' <=> Own(files[IQ])
        /\ Untouched' <=> Untouched
        /\ NewOnly' <=> NewOnly
        /\ Replaced' <=> Replaced
        /\ (force' <=> force) /\ backup' = backup =>
             (SetAside' <=> SetAside)
    BY <1>2, StillStays DEF Restore, locals, history
  <2>3. Rollback'
    BY <1>2, <2>2 DEF FilesInv, TypeOK, Restore, locals, history, Rollback
  <2>4. Beginning'
    BY <1>2, <2>2 DEF FilesInv, TypeOK, Restore, locals, history, Beginning,
       Rollback, IsRegular
  <2>5. Holding'
    BY <1>2, <2>2 DEF FilesInv, TypeOK, Restore, locals, history, Holding,
       Rollback, Beginning
  <2>6. Leaving'
    BY <1>2, <2>2 DEF FilesInv, TypeOK, Restore, locals, history, Leaving,
       Ended, Rollback, Holding, Beginning
  <2>7. Recorded'
    BY <1>2, <2>2 DEF FilesInv, TypeOK, Restore, locals, history, Recorded,
       Ended, Rollback
  <2>. QED BY <2>1, <2>2, <2>3, <2>4, <2>5, <2>6,
              <2>7 DEF FilesInv
<1>. QED BY <1>1, <1>2

\* ... and moves the original back.
LEMMA RestoreRenameStep ==
  ASSUME FilesInv, NEW ok \in BOOLEAN, RestoreRename(ok)
  PROVE  FilesInv'
<1>1. CASE ok
  <2>1. /\ at' = "leave" /\ run' = run /\ backup' = backup
       /\ outcome' = outcome /\ found' = found /\ owed' = owed
       /\ (force' <=> force) /\ (outputExisted' <=> outputExisted)
       /\ (success' <=> success) /\ (initialised' <=> initialised)
       /\ (active' <=> FALSE) /\ (open' <=> open)
       /\ (committed' <=> committed) /\ (undoFailed' <=> undoFailed)
       /\ (thrown' <=> thrown)
    BY <1>1 DEF RestoreRename, locals, history
  <2>2. /\ at = "rename" /\ active /\ ~committed /\ SetAside /\ ~open
        /\ files[IQ] = Absent /\ backup \in Suffixes
    BY <1>1 DEF RestoreRename, FilesInv, Rollback, Holding, Beginning, TypeOK
  <2>3. /\ files' \in [Paths -> Files] /\ files'[Backup(backup)] = Absent
        /\ files'[IQ] = files[Backup(backup)]
        /\ \A path \in Paths \ {IQ, Backup(backup)} :
             files'[path] = files[path]
    BY <1>1, <2>2, PathFacts, RenameFacts DEF RestoreRename, FilesInv
  <2>4. Untouched'
    BY <2>1, <2>2, <2>3, PathFacts DEF SetAside, Untouched
  <2>5. TypeOK'
    BY <1>1, <2>2, <2>3 DEF FilesInv, TypeOK, RestoreRename, locals, history
  <2>6. Runs'
    <3>1. \A path \in Paths : files'[path].run <= run
      BY <2>1, <2>2, <2>3, <2>4, OwnFacts, PathFacts DEF FilesInv, Runs
    <3>. QED BY <2>1, <2>2, <3>1, RunsStay
  <2>7. Rollback'
    BY <2>1, <2>2, <2>3, <2>4 DEF FilesInv, Rollback
  <2>8. Beginning'
    BY <2>1, <2>2, <2>3, <2>4 DEF FilesInv, Beginning
  <2>9. Holding'
    BY <2>1, <2>2, <2>3, <2>4 DEF FilesInv, Holding
  <2>10. Leaving'
    BY <2>1, <2>2, <2>3, <2>4 DEF FilesInv, Leaving, Ended
  <2>11. Recorded'
    BY <2>1, <2>2, <2>3, <2>4, PathFacts DEF FilesInv, Recorded, Ended
  <2>12. NothingLost'
    BY <2>1, <2>2, <2>3, <2>4, PathFacts, OwnIsNotOwed, MoveLosesNothing
       DEF SetAside
  <2>. QED BY <2>5, <2>6, <2>7, <2>8, <2>9, <2>10, <2>11, <2>12 DEF FilesInv
<1>2. CASE ~(ok)
  <2>1. TypeOK'
    BY <1>2 DEF FilesInv, TypeOK, RestoreRename, locals, history
  <2>2. /\ Runs' /\ NothingLost'
        /\ Own(files[IQ])' <=> Own(files[IQ])
        /\ Untouched' <=> Untouched
        /\ NewOnly' <=> NewOnly
        /\ Replaced' <=> Replaced
        /\ (force' <=> force) /\ backup' = backup =>
             (SetAside' <=> SetAside)
    BY <1>2, StillStays DEF RestoreRename, locals, history
  <2>3. Rollback'
    BY <1>2, <2>2 DEF FilesInv, TypeOK, RestoreRename, locals, history,
       Rollback
  <2>4. Beginning'
    BY <1>2, <2>2 DEF FilesInv, TypeOK, RestoreRename, locals, history,
       Beginning, Rollback, IsRegular
  <2>5. Holding'
    BY <1>2, <2>2 DEF FilesInv, TypeOK, RestoreRename, locals, history,
       Holding, Rollback, Beginning
  <2>6. Leaving'
    BY <1>2, <2>2 DEF FilesInv, TypeOK, RestoreRename, locals, history,
       Leaving, Ended, Rollback, Holding, Beginning
  <2>7. Recorded'
    BY <1>2, <2>2 DEF FilesInv, TypeOK, RestoreRename, locals, history,
       Recorded, Ended, Rollback
  <2>. QED BY <2>1, <2>2, <2>3, <2>4, <2>5, <2>6,
              <2>7 DEF FilesInv
<1>. QED BY <1>1, <1>2

\* So does the destructor, in two steps.
LEMMA UndoRemoveStep ==
  ASSUME FilesInv, NEW ok \in BOOLEAN, UndoRemove(ok)
  PROVE  FilesInv'
<1>1. CASE ok
  <2>1. /\ at' = "undoRename" /\ run' = run /\ backup' = backup
       /\ outcome' = outcome /\ found' = found /\ owed' = owed
       /\ (force' <=> force) /\ (outputExisted' <=> outputExisted)
       /\ (success' <=> success) /\ (initialised' <=> initialised)
       /\ (active' <=> active) /\ (open' <=> open)
       /\ (committed' <=> committed) /\ (undoFailed' <=> undoFailed)
       /\ (thrown' <=> thrown)
    BY <1>1 DEF UndoRemove, locals, history
  <2>2. /\ files' \in [Paths -> Files] /\ files'[IQ] = Absent
        /\ \A path \in Paths \ {IQ} : files'[path] = files[path]
    BY <1>1, PathFacts, FileFacts, PutFacts DEF UndoRemove, Remove, FilesInv
  <2>3. /\ at = "undo" /\ active /\ ~committed /\ SetAside /\ ~open
        /\ files[IQ] = Absent \/ Own(files[IQ])
    BY <1>1 DEF UndoRemove, FilesInv, Rollback, Holding, SetAside
  <2>4. SetAside'
    BY <2>1, <2>2, <2>3, PathFacts DEF SetAside, FilesInv, TypeOK
  <2>5. TypeOK'
    BY <1>1, <2>2, <2>3 DEF FilesInv, TypeOK, UndoRemove, locals, history
  <2>6. Runs'
    <3>1. \A path \in Paths : files'[path].run <= run
      BY <2>1, <2>2, <2>3, <2>4, OwnFacts, PathFacts DEF FilesInv, Runs
    <3>. QED BY <2>1, <2>3, <3>1, RunsStay
  <2>7. Rollback'
    BY <2>1, <2>2, <2>3, <2>4 DEF FilesInv, Rollback
  <2>8. Beginning'
    BY <2>1, <2>2, <2>3, <2>4 DEF FilesInv, Beginning
  <2>9. Holding'
    BY <2>1, <2>2, <2>3, <2>4 DEF FilesInv, Holding
  <2>10. Leaving'
    BY <2>1, <2>2, <2>3, <2>4 DEF FilesInv, Leaving, Ended
  <2>11. Recorded'
    BY <2>1, <2>2, <2>3, <2>4, PathFacts DEF FilesInv, Recorded, Ended
  <2>12. NothingLost'
    BY <2>1, <2>2, <2>3, <2>4, PathFacts, OwnIsNotOwed, OverwriteLosesNothing
  <2>. QED BY <2>5, <2>6, <2>7, <2>8, <2>9, <2>10, <2>11, <2>12 DEF FilesInv
<1>2. CASE ~(ok)
  <2>1. TypeOK'
    BY <1>2 DEF FilesInv, TypeOK, UndoRemove, locals, history
  <2>2. /\ Runs' /\ NothingLost'
        /\ Own(files[IQ])' <=> Own(files[IQ])
        /\ Untouched' <=> Untouched
        /\ NewOnly' <=> NewOnly
        /\ Replaced' <=> Replaced
        /\ (force' <=> force) /\ backup' = backup =>
             (SetAside' <=> SetAside)
    BY <1>2, StillStays DEF UndoRemove, locals, history
  <2>3. Rollback'
    BY <1>2, <2>2 DEF FilesInv, TypeOK, UndoRemove, locals, history, Rollback
  <2>4. Beginning'
    BY <1>2, <2>2 DEF FilesInv, TypeOK, UndoRemove, locals, history,
       Beginning, Rollback, IsRegular
  <2>5. Holding'
    BY <1>2, <2>2 DEF FilesInv, TypeOK, UndoRemove, locals, history, Holding,
       Rollback, Beginning
  <2>6. Leaving'
    BY <1>2, <2>2 DEF FilesInv, TypeOK, UndoRemove, locals, history, Leaving,
       Ended, Rollback, Holding, Beginning
  <2>7. Recorded'
    BY <1>2, <2>2 DEF FilesInv, TypeOK, UndoRemove, locals, history, Recorded,
       Ended, Rollback
  <2>. QED BY <2>1, <2>2, <2>3, <2>4, <2>5, <2>6,
              <2>7 DEF FilesInv
<1>. QED BY <1>1, <1>2

\* The second brings back the original, whatever the first did.
LEMMA UndoRenameStep ==
  ASSUME FilesInv, NEW ok \in BOOLEAN, UndoRename(ok)
  PROVE  FilesInv'
<1>1. CASE ok
  <2>1. /\ at' = "exit" /\ run' = run /\ backup' = backup
       /\ outcome' = outcome /\ found' = found /\ owed' = owed
       /\ (force' <=> force) /\ (outputExisted' <=> outputExisted)
       /\ (success' <=> success) /\ (initialised' <=> initialised)
       /\ (active' <=> active) /\ (open' <=> open)
       /\ (committed' <=> committed) /\ (undoFailed' <=> FALSE)
       /\ (thrown' <=> thrown)
    BY <1>1 DEF UndoRename, locals, history
  <2>2. /\ at = "undoRename" /\ active /\ ~committed /\ SetAside /\ ~open
        /\ files[IQ] = Absent \/ Own(files[IQ])
        /\ backup \in Suffixes
    BY <1>1 DEF UndoRename, FilesInv, Rollback, Holding, SetAside, TypeOK
  <2>3. /\ files' \in [Paths -> Files] /\ files'[Backup(backup)] = Absent
        /\ files'[IQ] = files[Backup(backup)]
        /\ \A path \in Paths \ {IQ, Backup(backup)} :
             files'[path] = files[path]
    BY <1>1, <2>2, PathFacts, RenameFacts DEF UndoRename, FilesInv
  <2>4. Untouched'
    BY <2>1, <2>2, <2>3, PathFacts DEF SetAside, Untouched
  <2>5. TypeOK'
    BY <1>1, <2>2, <2>3 DEF FilesInv, TypeOK, UndoRename, locals, history
  <2>6. Runs'
    <3>1. \A path \in Paths : files'[path].run <= run
      BY <2>1, <2>2, <2>3, <2>4, OwnFacts, PathFacts DEF FilesInv, Runs
    <3>. QED BY <2>1, <2>2, <3>1, RunsStay
  <2>7. Rollback'
    BY <2>1, <2>2, <2>3, <2>4 DEF FilesInv, Rollback
  <2>8. Beginning'
    BY <2>1, <2>2, <2>3, <2>4 DEF FilesInv, Beginning
  <2>9. Holding'
    BY <2>1, <2>2, <2>3, <2>4 DEF FilesInv, Holding
  <2>10. Leaving'
    BY <2>1, <2>2, <2>3, <2>4 DEF FilesInv, Leaving, Ended
  <2>11. Recorded'
    BY <2>1, <2>2, <2>3, <2>4, PathFacts DEF FilesInv, Recorded, Ended
  <2>12. NothingLost'
    BY <2>1, <2>2, <2>3, <2>4, PathFacts, OwnIsNotOwed, MoveLosesNothing
       DEF SetAside
  <2>. QED BY <2>5, <2>6, <2>7, <2>8, <2>9, <2>10, <2>11, <2>12 DEF FilesInv
<1>2. CASE ~(ok)
  <2>1. TypeOK'
    BY <1>2 DEF FilesInv, TypeOK, UndoRename, locals, history
  <2>2. /\ Runs' /\ NothingLost'
        /\ Own(files[IQ])' <=> Own(files[IQ])
        /\ Untouched' <=> Untouched
        /\ NewOnly' <=> NewOnly
        /\ Replaced' <=> Replaced
        /\ (force' <=> force) /\ backup' = backup =>
             (SetAside' <=> SetAside)
    BY <1>2, StillStays DEF UndoRename, locals, history
  <2>3. Rollback'
    BY <1>2, <2>2 DEF FilesInv, TypeOK, UndoRename, locals, history, Rollback
  <2>4. Beginning'
    BY <1>2, <2>2 DEF FilesInv, TypeOK, UndoRename, locals, history,
       Beginning, Rollback, IsRegular
  <2>5. Holding'
    BY <1>2, <2>2 DEF FilesInv, TypeOK, UndoRename, locals, history, Holding,
       Rollback, Beginning
  <2>6. Leaving'
    BY <1>2, <2>2 DEF FilesInv, TypeOK, UndoRename, locals, history, Leaving,
       Ended, Rollback, Holding, Beginning
  <2>7. Recorded'
    BY <1>2, <2>2 DEF FilesInv, TypeOK, UndoRename, locals, history, Recorded,
       Ended, Rollback
  <2>. QED BY <2>1, <2>2, <2>3, <2>4, <2>5, <2>6,
              <2>7 DEF FilesInv
<1>. QED BY <1>1, <1>2

\* The metadata is no file that the recording cares for.
LEMMA OpenMetadataStep ==
  ASSUME FilesInv, NEW ok \in BOOLEAN, OpenMetadata(ok)
  PROVE  FilesInv'
<1>1. CASE ok /\ MayWrite(Metadata)
  <2>1. /\ at' = "writeMetadata" /\ run' = run /\ backup' = backup
       /\ outcome' = outcome /\ found' = found /\ owed' = owed
       /\ (force' <=> force) /\ (outputExisted' <=> outputExisted)
       /\ (success' <=> success) /\ (initialised' <=> initialised)
       /\ (active' <=> active) /\ (open' <=> open)
       /\ (committed' <=> committed) /\ (undoFailed' <=> undoFailed)
       /\ (thrown' <=> thrown)
    BY <1>1 DEF OpenMetadata, locals, history
  <2>2. /\ files' \in [Paths -> Files] /\ files'[Metadata] = File(run, FALSE)
        /\ \A path \in Paths \ {Metadata} : files'[path] = files[path]
    BY <1>1, PathFacts, FileFacts, PutFacts DEF OpenMetadata, FilesInv, TypeOK
  <2>3. at = "metadata" /\ ~active /\ ~open /\ committed /\ Replaced
    BY DEF OpenMetadata, FilesInv, Rollback, Holding, Recorded
  <2>4. Replaced'
    BY <2>1, <2>2, <2>3, PathFacts DEF Replaced, Own
  <2>5. TypeOK'
    BY <1>1, <2>2, <2>3 DEF FilesInv, TypeOK, OpenMetadata, locals, history
  <2>6. Runs'
    <3>1. \A path \in Paths : files'[path].run <= run
      BY <2>1, <2>2, <2>3, <2>4, OwnFacts, PathFacts DEF FilesInv, Runs
    <3>. QED BY <2>1, <2>3, <3>1, RunsStay
  <2>7. Rollback'
    BY <2>1, <2>2, <2>3, <2>4 DEF FilesInv, Rollback
  <2>8. Beginning'
    BY <2>1, <2>2, <2>3, <2>4 DEF FilesInv, Beginning
  <2>9. Holding'
    BY <2>1, <2>2, <2>3, <2>4 DEF FilesInv, Holding
  <2>10. Leaving'
    BY <2>1, <2>2, <2>3, <2>4 DEF FilesInv, Leaving, Ended
  <2>11. Recorded'
    BY <2>1, <2>2, <2>3, <2>4, PathFacts DEF FilesInv, Recorded, Ended
  <2>12. NothingLost'
    BY <2>1, <2>2, <2>3, <2>4, PathFacts DEF FilesInv, NothingLost
  <2>. QED BY <2>5, <2>6, <2>7, <2>8, <2>9, <2>10, <2>11, <2>12 DEF FilesInv
<1>2. CASE ~(ok /\ MayWrite(Metadata))
  <2>1. TypeOK'
    <3>1. /\ files' \in [Paths -> Files] /\ found' \in [Paths -> Files]
          /\ run' \in 0 .. MaxRuns /\ backup' \in Suffixes
          /\ owed' \subseteq Files
      BY <1>2 DEF FilesInv, TypeOK, OpenMetadata, locals, history
    <3>2. /\ force' \in BOOLEAN /\ outputExisted' \in BOOLEAN
          /\ success' \in BOOLEAN /\ active' \in BOOLEAN
          /\ open' \in BOOLEAN
      BY <1>2 DEF FilesInv, TypeOK, OpenMetadata, locals, history
    <3>3. /\ initialised' \in BOOLEAN /\ committed' \in BOOLEAN
          /\ undoFailed' \in BOOLEAN /\ thrown' \in BOOLEAN
          /\ outcome' \in {"none", "success", "failure", "crash"}
      BY <1>2 DEF FilesInv, TypeOK, OpenMetadata, locals, history
    <3>4. at' \in {"leave"}
      BY <1>2 DEF FilesInv, TypeOK, OpenMetadata, locals, history
    <3>. QED BY <3>1, <3>2, <3>3, <3>4 DEF TypeOK
  <2>2. /\ Runs' /\ NothingLost'
        /\ Own(files[IQ])' <=> Own(files[IQ])
        /\ Untouched' <=> Untouched
        /\ NewOnly' <=> NewOnly
        /\ Replaced' <=> Replaced
        /\ (force' <=> force) /\ backup' = backup =>
             (SetAside' <=> SetAside)
    BY <1>2, StillStays DEF OpenMetadata, locals, history
  <2>3. Rollback'
    BY <1>2, <2>2 DEF FilesInv, TypeOK, OpenMetadata, locals, history,
       Rollback
  <2>4. Beginning'
    BY <1>2, <2>2 DEF FilesInv, TypeOK, OpenMetadata, locals, history,
       Beginning, Rollback, IsRegular
  <2>5. Holding'
    BY <1>2, <2>2 DEF FilesInv, TypeOK, OpenMetadata, locals, history,
       Holding, Rollback, Beginning
  <2>6. Leaving'
    BY <1>2, <2>2 DEF FilesInv, TypeOK, OpenMetadata, locals, history,
       Leaving, Ended, Rollback, Holding, Beginning, Recorded
  <2>7. Recorded'
    BY <1>2, <2>2 DEF FilesInv, TypeOK, OpenMetadata, locals, history,
       Recorded, Ended, Rollback
  <2>. QED BY <2>1, <2>2, <2>3, <2>4, <2>5, <2>6,
              <2>7 DEF FilesInv
<1>. QED BY <1>1, <1>2

\* The metadata is the run's own when it is written.
LEMMA WriteMetadataStep ==
  ASSUME FilesInv, NEW ok \in BOOLEAN, WriteMetadata(ok)
  PROVE  FilesInv'
<1>1. CASE ok
  <2>1. /\ at' = "leave" /\ run' = run /\ backup' = backup
       /\ outcome' = outcome /\ found' = found /\ owed' = owed
       /\ (force' <=> force) /\ (outputExisted' <=> outputExisted)
       /\ (success' <=> success) /\ (initialised' <=> initialised)
       /\ (active' <=> active) /\ (open' <=> open)
       /\ (committed' <=> committed) /\ (undoFailed' <=> undoFailed)
       /\ (thrown' <=> thrown)
    BY <1>1 DEF WriteMetadata, locals, history
  <2>2. /\ files' \in [Paths -> Files] /\ files'[Metadata] = File(run, TRUE)
        /\ \A path \in Paths \ {Metadata} : files'[path] = files[path]
    BY <1>1, PathFacts, FileFacts, PutFacts DEF WriteMetadata, FilesInv, TypeOK
  <2>3. at = "writeMetadata" /\ ~active /\ ~open /\ committed /\ Replaced
    BY DEF WriteMetadata, FilesInv, Rollback, Holding, Recorded
  <2>4. Replaced'
    BY <2>1, <2>2, <2>3, PathFacts DEF Replaced, Own
  <2>5. TypeOK'
    BY <1>1, <2>2, <2>3 DEF FilesInv, TypeOK, WriteMetadata, locals, history
  <2>6. Runs'
    <3>1. \A path \in Paths : files'[path].run <= run
      BY <2>1, <2>2, <2>3, <2>4, OwnFacts, PathFacts DEF FilesInv, Runs
    <3>. QED BY <2>1, <2>3, <3>1, RunsStay
  <2>7. Rollback'
    BY <2>1, <2>2, <2>3, <2>4 DEF FilesInv, Rollback
  <2>8. Beginning'
    BY <2>1, <2>2, <2>3, <2>4 DEF FilesInv, Beginning
  <2>9. Holding'
    BY <2>1, <2>2, <2>3, <2>4 DEF FilesInv, Holding
  <2>10. Leaving'
    BY <2>1, <2>2, <2>3, <2>4 DEF FilesInv, Leaving, Ended
  <2>11. Recorded'
    BY <2>1, <2>2, <2>3, <2>4, PathFacts DEF FilesInv, Recorded, Ended
  <2>12. NothingLost'
    BY <2>1, <2>2, <2>3, <2>4, PathFacts DEF FilesInv, NothingLost
  <2>. QED BY <2>5, <2>6, <2>7, <2>8, <2>9, <2>10, <2>11, <2>12 DEF FilesInv
<1>2. CASE ~(ok)
  <2>1. TypeOK'
    BY <1>2 DEF FilesInv, TypeOK, WriteMetadata, locals, history
  <2>2. /\ Runs' /\ NothingLost'
        /\ Own(files[IQ])' <=> Own(files[IQ])
        /\ Untouched' <=> Untouched
        /\ NewOnly' <=> NewOnly
        /\ Replaced' <=> Replaced
        /\ (force' <=> force) /\ backup' = backup =>
             (SetAside' <=> SetAside)
    BY <1>2, StillStays DEF WriteMetadata, locals, history
  <2>3. Rollback'
    BY <1>2, <2>2 DEF FilesInv, TypeOK, WriteMetadata, locals, history,
       Rollback
  <2>4. Beginning'
    BY <1>2, <2>2 DEF FilesInv, TypeOK, WriteMetadata, locals, history,
       Beginning, Rollback, IsRegular
  <2>5. Holding'
    BY <1>2, <2>2 DEF FilesInv, TypeOK, WriteMetadata, locals, history,
       Holding, Rollback, Beginning
  <2>6. Leaving'
    BY <1>2, <2>2 DEF FilesInv, TypeOK, WriteMetadata, locals, history,
       Leaving, Ended, Rollback, Holding, Beginning, Recorded
  <2>7. Recorded'
    BY <1>2, <2>2 DEF FilesInv, TypeOK, WriteMetadata, locals, history,
       Recorded, Ended, Rollback
  <2>. QED BY <2>1, <2>2, <2>3, <2>4, <2>5, <2>6,
              <2>7 DEF FilesInv
<1>. QED BY <1>1, <1>2

\* The commit gives up the backup, and with it the recording that was owed.
LEMMA CommitStep ==
  ASSUME FilesInv, NEW ok \in BOOLEAN, Commit(ok)
  PROVE  FilesInv'
<1>1. /\ at = "commit" /\ initialised /\ ~committed /\ Own(files[IQ])
      /\ active => SetAside
      /\ ~active => NewOnly
  BY DEF Commit, FilesInv, Holding, Rollback
<1>2. CASE active /\ ok
  <2>1. /\ at' = "stream" /\ (committed' <=> TRUE) /\ (active' <=> FALSE)
        /\ owed' = owed \ {files[Backup(backup)]}
        /\ run' = run /\ backup' = backup /\ outcome' = outcome
        /\ found' = found /\ (force' <=> force)
        /\ (success' <=> success) /\ (initialised' <=> initialised)
        /\ (open' <=> open)
    BY <1>1, <1>2 DEF Commit, locals, history
  <2>2. backup \in Suffixes /\ Backup(backup) \in Paths /\ Backup(backup) # IQ
    BY PathFacts DEF FilesInv, TypeOK
  <2>3. /\ files' \in [Paths -> Files] /\ files'[Backup(backup)] = Absent
        /\ \A path \in Paths \ {Backup(backup)} : files'[path] = files[path]
    BY <1>2, <2>2, FileFacts, PutFacts DEF Commit, Remove, FilesInv
  <2>4. Replaced'
    BY <1>1, <1>2, <2>1, <2>2, <2>3, PathFacts DEF Replaced, SetAside, Own
  <2>5. TypeOK'
    <3>1. /\ files' \in [Paths -> Files] /\ found' \in [Paths -> Files]
          /\ run' \in 0 .. MaxRuns /\ backup' \in Suffixes
          /\ owed' \subseteq Files
      BY <1>2, <2>1, <2>2, <2>3
         DEF FilesInv, TypeOK, Commit, locals, history
    <3>2. /\ force' \in BOOLEAN /\ outputExisted' \in BOOLEAN
          /\ success' \in BOOLEAN /\ active' \in BOOLEAN
          /\ open' \in BOOLEAN
      BY <1>2, <2>1, <2>2, <2>3
         DEF FilesInv, TypeOK, Commit, locals, history
    <3>3. /\ initialised' \in BOOLEAN /\ committed' \in BOOLEAN
          /\ undoFailed' \in BOOLEAN /\ thrown' \in BOOLEAN
          /\ outcome' \in {"none", "success", "failure", "crash"}
      BY <1>2, <2>1, <2>2, <2>3
         DEF FilesInv, TypeOK, Commit, locals, history
    <3>4. at' \in {"stream"}
      BY <1>2, <2>1, <2>2, <2>3
         DEF FilesInv, TypeOK, Commit, locals, history
    <3>. QED BY <3>1, <3>2, <3>3, <3>4 DEF TypeOK
  <2>6. Runs'
    <3>1. \A path \in Paths : files'[path].run <= run
      BY <2>3, OwnFacts DEF FilesInv, Runs
    <3>2. owed' \subseteq owed
      BY <2>1
    <3>. QED BY <1>1, <2>1, <3>1, <3>2, RunsStay
  <2>7. Rollback'
    BY <2>1 DEF Rollback
  <2>8. Beginning'
    BY <2>1 DEF Beginning
  <2>9. Holding'
    BY <1>1, <2>1, <2>2, <2>3, PathFacts DEF FilesInv, Holding, Own
  <2>10. Leaving'
    BY <2>1 DEF Leaving, Ended
  <2>11. Recorded'
    BY <1>1, <2>1, <2>4 DEF FilesInv, Recorded, Ended
  <2>12. NothingLost'
    <3>1. files[Backup(backup)] \notin owed' /\ owed' \subseteq owed
      BY <2>1
    <3>. QED BY <2>2, <2>3, <3>1, OverwriteLosesNothing
  <2>. QED BY <2>5, <2>6, <2>7, <2>8, <2>9, <2>10, <2>11, <2>12 DEF FilesInv
<1>3. CASE ~(active /\ ok)
  <2>1. /\ (committed' <=> ~active)
        /\ at' = IF active THEN "abandon" ELSE "stream"
        /\ files' = files /\ (active' <=> active) /\ owed' = owed
        /\ run' = run /\ backup' = backup /\ outcome' = outcome
        /\ found' = found /\ (force' <=> force)
        /\ (success' <=> success) /\ (initialised' <=> initialised)
        /\ (open' <=> open)
    BY <1>1, <1>3 DEF Commit, locals, history
  <2>2. TypeOK'
    <3>1. /\ files' \in [Paths -> Files] /\ found' \in [Paths -> Files]
          /\ run' \in 0 .. MaxRuns /\ backup' \in Suffixes
          /\ owed' \subseteq Files
      BY <1>3 DEF FilesInv, TypeOK, Commit, locals, history
    <3>2. /\ force' \in BOOLEAN /\ outputExisted' \in BOOLEAN
          /\ success' \in BOOLEAN /\ active' \in BOOLEAN
          /\ open' \in BOOLEAN
      BY <1>3 DEF FilesInv, TypeOK, Commit, locals, history
    <3>3. /\ initialised' \in BOOLEAN /\ committed' \in BOOLEAN
          /\ undoFailed' \in BOOLEAN /\ thrown' \in BOOLEAN
          /\ outcome' \in {"none", "success", "failure", "crash"}
      BY <1>3 DEF FilesInv, TypeOK, Commit, locals, history
    <3>4. at' \in {"abandon", "stream"}
      BY <1>3 DEF FilesInv, TypeOK, Commit, locals, history
    <3>. QED BY <3>1, <3>2, <3>3, <3>4 DEF TypeOK
  <2>3. /\ Runs' /\ NothingLost'
        /\ Own(files[IQ])' <=> Own(files[IQ])
        /\ Replaced' <=> Replaced
        /\ SetAside' <=> SetAside
    BY <1>1, <2>1, StillStays
  <2>4. NewOnly => Replaced'
    BY <2>1, <2>3, PathFacts DEF NewOnly, Replaced
  <2>5. Rollback'
    BY <1>1, <2>1, <2>3 DEF FilesInv, Rollback
  <2>6. Beginning'
    BY <2>1 DEF Beginning
  <2>7. Holding'
    BY <1>1, <2>1, <2>3 DEF FilesInv, Holding
  <2>8. Leaving'
    BY <2>1 DEF Leaving, Ended
  <2>9. Recorded'
    BY <1>1, <2>1, <2>4 DEF FilesInv, Recorded, Ended
  <2>. QED BY <2>2, <2>3, <2>5, <2>6, <2>7, <2>8, <2>9 DEF FilesInv
<1>. QED BY <1>2, <1>3

\* The recording that replaced nothing is removed while it is still empty.
LEMMA DiscardStep ==
  ASSUME FilesInv, NEW ok \in BOOLEAN, Discard(ok)
  PROVE  FilesInv'
<1>1. /\ at = "discard" /\ ~committed /\ Own(files[IQ]) /\ ~open
      /\ active => SetAside
      /\ ~active => NewOnly /\ ~files[IQ].data
  BY FileFacts DEF Discard, FilesInv, TypeOK, Holding, Rollback
<1>2. CASE ~active /\ ok
  <2>1. /\ at' = "leave" /\ owed' = owed /\ run' = run /\ backup' = backup
        /\ outcome' = outcome /\ found' = found
        /\ (force' <=> force) /\ (success' <=> success)
        /\ (initialised' <=> initialised) /\ (active' <=> FALSE)
        /\ (open' <=> FALSE) /\ (committed' <=> FALSE)
    BY <1>1, <1>2 DEF Discard, locals
  <2>2. /\ files' \in [Paths -> Files] /\ files'[IQ] = Absent
        /\ \A path \in Paths \ {IQ} : files'[path] = files[path]
    BY <1>1, <1>2, PathFacts, FileFacts, PutFacts
       DEF Discard, Remove, FilesInv
  <2>3. Untouched'
    BY <1>1, <1>2, <2>1, <2>2, PathFacts DEF NewOnly, Untouched
  <2>4. TypeOK'
    <3>1. /\ files' \in [Paths -> Files] /\ found' \in [Paths -> Files]
          /\ run' \in 0 .. MaxRuns /\ backup' \in Suffixes
          /\ owed' \subseteq Files
      BY <1>2, <2>2 DEF FilesInv, TypeOK, Discard, locals
    <3>2. /\ force' \in BOOLEAN /\ outputExisted' \in BOOLEAN
          /\ success' \in BOOLEAN /\ active' \in BOOLEAN
          /\ open' \in BOOLEAN
      BY <1>2, <2>2 DEF FilesInv, TypeOK, Discard, locals
    <3>3. /\ initialised' \in BOOLEAN /\ committed' \in BOOLEAN
          /\ undoFailed' \in BOOLEAN /\ thrown' \in BOOLEAN
          /\ outcome' \in {"none", "success", "failure", "crash"}
      BY <1>2, <2>2 DEF FilesInv, TypeOK, Discard, locals
    <3>4. at' \in {"leave"}
      BY <1>2, <2>2 DEF FilesInv, TypeOK, Discard, locals
    <3>. QED BY <3>1, <3>2, <3>3, <3>4 DEF TypeOK
  <2>5. Runs'
    <3>1. \A path \in Paths : files'[path].run <= run
      BY <2>2, OwnFacts DEF FilesInv, Runs
    <3>. QED BY <1>1, <2>1, <3>1, RunsStay
  <2>6. Rollback'
    BY <2>1 DEF Rollback
  <2>7. Beginning'
    BY <2>1 DEF Beginning
  <2>8. Holding'
    BY <2>1 DEF Holding
  <2>9. Leaving'
    BY <2>3 DEF Leaving
  <2>10. Recorded'
    BY <1>1, <2>1 DEF FilesInv, Recorded, Ended
  <2>11. NothingLost'
    BY <1>1, <2>1, <2>2, PathFacts, OwnIsNotOwed, OverwriteLosesNothing
  <2>. QED BY <2>4, <2>5, <2>6, <2>7, <2>8, <2>9, <2>10, <2>11 DEF FilesInv
<1>3. CASE active \/ ~ok
  <2>1. /\ at' = IF active THEN "restore" ELSE "leave"
        /\ ~active => (undoFailed' <=> TRUE)
        /\ files' = files /\ owed' = owed /\ run' = run /\ backup' = backup
        /\ outcome' = outcome /\ found' = found
        /\ (force' <=> force) /\ (success' <=> success)
        /\ (initialised' <=> initialised) /\ (active' <=> active)
        /\ (open' <=> FALSE) /\ (committed' <=> FALSE)
    BY <1>1, <1>3 DEF Discard, locals
  <2>2. TypeOK'
    <3>1. /\ files' \in [Paths -> Files] /\ found' \in [Paths -> Files]
          /\ run' \in 0 .. MaxRuns /\ backup' \in Suffixes
          /\ owed' \subseteq Files
      BY <1>3 DEF FilesInv, TypeOK, Discard, locals
    <3>2. /\ force' \in BOOLEAN /\ outputExisted' \in BOOLEAN
          /\ success' \in BOOLEAN /\ active' \in BOOLEAN
          /\ open' \in BOOLEAN
      BY <1>3 DEF FilesInv, TypeOK, Discard, locals
    <3>3. /\ initialised' \in BOOLEAN /\ committed' \in BOOLEAN
          /\ undoFailed' \in BOOLEAN /\ thrown' \in BOOLEAN
          /\ outcome' \in {"none", "success", "failure", "crash"}
      BY <1>3 DEF FilesInv, TypeOK, Discard, locals
    <3>4. at' \in {"restore", "leave"}
      BY <1>3 DEF FilesInv, TypeOK, Discard, locals
    <3>. QED BY <3>1, <3>2, <3>3, <3>4 DEF TypeOK
  <2>3. /\ Runs' /\ NothingLost'
        /\ SetAside' <=> SetAside
    BY <1>1, <2>1, StillStays
  <2>4. Rollback'
    BY <1>1, <2>1, <2>3 DEF FilesInv, Rollback
  <2>5. Beginning'
    BY <2>1 DEF Beginning
  <2>6. Holding'
    BY <2>1 DEF Holding
  <2>7. Leaving'
    BY <2>1 DEF Leaving, Ended
  <2>8. Recorded'
    BY <1>1, <2>1 DEF FilesInv, Recorded, Ended
  <2>. QED BY <2>2, <2>3, <2>4, <2>5, <2>6, <2>7, <2>8 DEF FilesInv
<1>. QED BY <1>2, <1>3

\* A run starts, and may find a recording that will be owed.
LEMMA StartStep ==
  ASSUME FilesInv, NEW forced \in BOOLEAN, Start(forced)
  PROVE  FilesInv'
<1>1. /\ at = "idle" /\ at' = "check" /\ run' = run + 1 /\ found' = files
      /\ files' = files /\ outcome' = "none" /\ backup' = 0
      /\ (success' <=> FALSE) /\ (initialised' <=> FALSE)
      /\ (active' <=> FALSE) /\ (open' <=> FALSE) /\ (committed' <=> FALSE)
  BY DEF Start
<1>2. /\ \A file \in owed' : file \in owed \/ file = files[IQ]
      /\ files[IQ] \in owed' => IsRegular(IQ) \/ files[IQ] \in owed
  BY DEF Start
<1>3. run \in Nat /\ run < MaxRuns /\ 0 \in Suffixes
  BY FilesAssumption DEF FilesInv, TypeOK, Start, Suffixes
<1>4. TypeOK'
  <2>1. run' \in 0 .. MaxRuns
    BY ONLY <1>1, <1>3, FilesAssumption
  <2>2. owed' \subseteq Files
    BY <1>2, PathFacts DEF FilesInv, TypeOK
  <2>. QED BY <1>3, <2>1, <2>2 DEF FilesInv, TypeOK, Start
<1>5. Runs'
  <2>1. \A path \in Paths :
          /\ files[path].run \in 0 .. MaxRuns
          /\ files[path].run <= run
    BY FileFacts DEF FilesInv, TypeOK, Runs
  <2>2. \A path \in Paths :
          files[path].run <= run + 1 /\ files[path].run < run + 1
    BY <1>3, <2>1
  <2>3. \A file \in owed : file.kind = "regular" /\ file.run < run + 1
    <3>1. \A file \in owed : file \in Files /\ file.run \in 0 .. MaxRuns
      BY FileFacts DEF FilesInv, TypeOK
    <3>. QED BY <1>3, <3>1 DEF FilesInv, Runs
  <2>4. \A file \in owed' : file.kind = "regular" /\ file.run < run + 1
    BY <1>2, <2>2, <2>3, PathFacts DEF IsRegular
  <2>. QED BY <1>1, <2>2, <2>4 DEF Runs
<1>6. Rollback'
  BY <1>1 DEF Rollback
<1>7. Beginning'
  BY <1>1 DEF Beginning, Untouched
<1>8. Holding'
  BY <1>1 DEF Holding
<1>9. Leaving'
  BY <1>1 DEF Leaving, Ended
<1>10. Recorded'
  BY <1>1 DEF Recorded, Ended
<1>11. NothingLost'
  BY <1>1, <1>2 DEF FilesInv, NothingLost
<1>. QED
  BY <1>4, <1>5, <1>6, <1>7, <1>8, <1>9, <1>10, <1>11 DEF FilesInv

\* A run ends, in order or not.
LEMMA EndStep ==
  ASSUME FilesInv, at # "idle", NEW result, End(result),
         \/ result = "crash"
         \/ at = "exit" /\ result = IF success THEN "success" ELSE "failure"
  PROVE  FilesInv'
<1>1. /\ at' = "idle" /\ outcome' = result /\ files' = files /\ run' = run
      /\ backup' = backup /\ found' = found /\ owed' = owed
      /\ (force' <=> force) /\ (success' <=> success)
      /\ (initialised' <=> initialised) /\ (active' <=> FALSE)
      /\ (open' <=> FALSE) /\ (committed' <=> committed)
      /\ (undoFailed' <=> undoFailed) /\ (thrown' <=> thrown)
  BY DEF End, locals
<1>2. TypeOK'
  <2>1. result \in {"success", "failure", "crash"}
    OBVIOUS
  <2>. QED BY <2>1 DEF FilesInv, TypeOK, End, locals
<1>3. /\ Runs' /\ NothingLost'
      /\ Untouched' <=> Untouched
      /\ NewOnly' <=> NewOnly
      /\ Replaced' <=> Replaced
  BY <1>1, StillStays
<1>4. Rollback'
  BY <1>1 DEF Rollback
<1>5. Beginning'
  BY <1>1 DEF Beginning
<1>6. Holding'
  BY <1>1 DEF Holding
<1>7. Leaving'
  <2>1. at = "exit" => committed \/ undoFailed \/ Untouched
                       \/ (thrown /\ NewOnly)
    BY DEF FilesInv, Leaving
  <2>2. Ended' => at = "exit"
    BY <1>1 DEF Ended
  <2>. QED BY <1>1, <1>3, <2>1, <2>2 DEF Leaving
<1>8. Recorded'
  <2>1. committed => Replaced
    BY DEF FilesInv, Recorded
  <2>2. Ended' /\ outcome' = "success" =>
          committed /\ files[Metadata] = File(run, TRUE)
    BY <1>1 DEF FilesInv, Recorded, Ended
  <2>. QED BY <1>1, <1>3, <2>1, <2>2 DEF Recorded
<1>. QED BY <1>2, <1>3, <1>4, <1>5, <1>6, <1>7, <1>8 DEF FilesInv

-----------------------------------------------------------------------------
(* The invariant, and what follows.                                        *)

LEMMA InitFilesInv == Init => FilesInv
<1>. SUFFICES ASSUME Init PROVE FilesInv
  OBVIOUS
<1>1. /\ at = "idle" /\ run = 0 /\ found = files /\ owed = {} /\ backup = 0
      /\ outcome = "none" /\ (active <=> FALSE) /\ (open <=> FALSE)
      /\ (committed <=> FALSE) /\ (success <=> FALSE)
  BY DEF Init
<1>2. files \in [Paths -> Files] /\ \A path \in Paths : files[path].run = 0
  <2>1. /\ {Absent, Special, File(0, TRUE)} \subseteq Files
        /\ Absent.run = 0 /\ Special.run = 0 /\ File(0, TRUE).run = 0
    <3>1. 0 \in 0 .. MaxRuns
      BY ONLY FilesAssumption
    <3>2. Special \in Files /\ Special.run = 0
      BY DEF Files, Special
    <3>. QED BY <3>1, <3>2, FileFacts
  <2>2. files \in [Paths -> {Absent, Special, File(0, TRUE)}]
    BY DEF Init
  <2>. QED BY <2>1, <2>2
<1>3. TypeOK
  <2>1. 0 \in 0 .. MaxRuns /\ 0 \in 0 .. MaxSuffix
    BY ONLY FilesAssumption
  <2>2. /\ found \in [Paths -> Files] /\ backup \in Suffixes
        /\ owed \subseteq Files
    BY <1>1, <1>2, <2>1 DEF Suffixes
  <2>. QED BY <1>1, <1>2, <2>1, <2>2 DEF TypeOK, Init
<1>4. Runs
  BY <1>1, <1>2 DEF Runs
<1>5. /\ Rollback /\ Beginning /\ Holding /\ Leaving /\ Recorded
      /\ NothingLost
  BY <1>1 DEF Rollback, Beginning, Holding, Leaving, Recorded, Ended,
              NothingLost
<1>. QED BY <1>3, <1>4, <1>5 DEF FilesInv

LEMMA NextFilesInv == FilesInv /\ [Next]_vars => FilesInv'
<1>. SUFFICES ASSUME FilesInv, [Next]_vars PROVE FilesInv'
  OBVIOUS
<1>1. CASE UNCHANGED vars
  <2>1. /\ files' = files /\ run' = run /\ at' = at /\ backup' = backup
        /\ outcome' = outcome /\ found' = found /\ owed' = owed
        /\ force' = force /\ outputExisted' = outputExisted
        /\ success' = success /\ active' = active /\ open' = open
        /\ initialised' = initialised /\ committed' = committed
        /\ undoFailed' = undoFailed /\ thrown' = thrown
    BY <1>1 DEF vars, locals, history
  <2>2. TypeOK'
    BY <2>1 DEF FilesInv, TypeOK
  <2>3. Runs' /\ NothingLost'
    BY <2>1 DEF FilesInv, Runs, NothingLost
  <2>4. Own(files[IQ])' <=> Own(files[IQ])
    BY <2>1 DEF Own
  <2>5. /\ Untouched' <=> Untouched
        /\ NewOnly' <=> NewOnly
        /\ SetAside' <=> SetAside
        /\ Replaced' <=> Replaced
    BY <2>1, <2>4 DEF Untouched, NewOnly, SetAside, Replaced
  <2>6. Rollback' /\ Beginning' /\ Holding'
    BY <2>1, <2>4, <2>5
       DEF FilesInv, Rollback, Beginning, Holding, IsRegular
  <2>7. Leaving' /\ Recorded'
    BY <2>1, <2>5 DEF FilesInv, Leaving, Recorded, Ended
  <2>. QED BY <2>2, <2>3, <2>6, <2>7 DEF FilesInv
<1>2. CASE Done
  BY <1>1, <1>2 DEF Done
<1>3. CASE GiveUpEarly \/ CheckPaths \/ PreserveNothing \/ WriteSamples
  BY <1>3, GiveUpEarlyStep, CheckPathsStep, PreserveNothingStep,
     WriteSamplesStep
<1>4. CASE Abandon \/ Throw \/ Leave
  BY <1>4, AbandonStep, ThrowStep, LeaveStep
<1>5. CASE Exit \/ Crash
  BY <1>5, EndStep DEF Exit, Crash
<1>6. CASE \E forced \in BOOLEAN : Start(forced)
  BY <1>6, StartStep
<1>7. ASSUME NEW ok \in BOOLEAN,
             \/ Preserve(ok) \/ OpenFile(ok) \/ Initialise(ok) \/ Commit(ok)
             \/ Discard(ok) \/ Restore(ok)
      PROVE  FilesInv'
  BY <1>7, PreserveStep, OpenFileStep, InitialiseStep, CommitStep,
     DiscardStep, RestoreStep
<1>8. ASSUME NEW ok \in BOOLEAN,
             \/ RestoreRename(ok) \/ Finish(ok) \/ OpenMetadata(ok)
             \/ WriteMetadata(ok) \/ UndoRemove(ok) \/ UndoRename(ok)
      PROVE  FilesInv'
  BY <1>8, RestoreRenameStep, FinishStep, OpenMetadataStep,
     WriteMetadataStep, UndoRemoveStep, UndoRenameStep
<1>. QED BY <1>1, <1>2, <1>3, <1>4, <1>5, <1>6, <1>7, <1>8, Zenon DEF Next

\* The files are at every place as a run, wherever it comes from, has left
\* them there.
THEOREM FilesInvariance == Spec => []FilesInv
BY InitFilesInv, NextFilesInv, PTL DEF Spec

\* Every variable keeps its type: the backup suffix stays within the bound.
THEOREM FilesTypeCorrect == Spec => []TypeOK
<1>1. FilesInv => TypeOK
  BY DEF FilesInv
<1>. QED BY <1>1, FilesInvariance, PTL

\* No recording is lost before a run has what replaces it: however many runs
\* there are, whatever fails in them, and wherever one dies.
THEOREM NoRecordingLost == Spec => []NothingLost
<1>1. FilesInv => NothingLost
  BY DEF FilesInv
<1>. QED BY <1>1, FilesInvariance, PTL

\* The writer's stream is never open on a file that is not the run's own.
THEOREM OwnerWrites == Spec => []WriterOwnsPath
<1>1. FilesInv => WriterOwnsPath
  BY OwnFacts DEF FilesInv, Holding, WriterOwnsPath
<1>. QED BY <1>1, FilesInvariance, PTL

\* A run that reports success has both files, and has left no backup.
THEOREM SuccessMeansComplete == Spec => []SuccessIsComplete
<1>1. ASSUME FilesInv, Ended, outcome = "success"
      PROVE  /\ files[IQ].run = run
             /\ files[Metadata] = File(run, TRUE)
             /\ \A n \in Suffixes : files[Backup(n)] = found[Backup(n)]
  <2>1. Replaced /\ files[Metadata] = File(run, TRUE)
    BY <1>1 DEF FilesInv, Recorded
  <2>. QED BY <1>1, <2>1, OwnFacts DEF FilesInv, Replaced
<1>2. FilesInv => SuccessIsComplete
  BY <1>1 DEF SuccessIsComplete
<1>. QED BY <1>2, FilesInvariance, PTL

\* A run that ends without a commit has left the files as they were.
THEOREM FailureLeavesNoTrace == Spec => []LeavesNoTrace
<1>1. ASSUME FilesInv, Untouched
      PROVE  files = found
  BY <1>1 DEF FilesInv, TypeOK, Untouched
<1>2. ASSUME FilesInv, NewOnly
      PROVE  /\ found[IQ] = Absent
             /\ \E data \in BOOLEAN :
                  files = [found EXCEPT ![IQ] = File(run, data)]
  <2>1. PICK data \in BOOLEAN : files[IQ] = File(run, data)
    BY <1>2 DEF NewOnly, Own
  <2>2. files = [found EXCEPT ![IQ] = File(run, data)]
    BY <1>2, <2>1, PathFacts DEF FilesInv, TypeOK, NewOnly
  <2>. QED BY <1>2, <2>2 DEF NewOnly
<1>3. FilesInv => LeavesNoTrace
  <2>1. FilesInv /\ Ended /\ ~committed /\ ~undoFailed =>
          Untouched \/ (thrown /\ NewOnly)
    BY DEF FilesInv, Leaving
  <2>. QED BY <1>1, <1>2, <2>1 DEF LeavesNoTrace
<1>. QED BY <1>3, FilesInvariance, PTL

\* What a step may change.
Allowed(path) ==
  \/ ~Exists(path)
  \/ IsRegular(path) /\ (force \/ files[path].run = run)

\* No step touches what it has not made itself, unless --force lets it; and
\* what is not a regular file it never touches.
THEOREM ChangesAreAuthorized == Spec => OnlyAuthorizedChanges
<1>. DEFINE A == \A path \in Paths :
                   files'[path] # files[path] => Allowed(path)
<1>1. ASSUME FilesInv
      PROVE  /\ Own(files[IQ]) => Allowed(IQ)
             /\ files[IQ] = Absent => Allowed(IQ)
             /\ \A path \in Paths : MayWrite(path) => Allowed(path)
             /\ active /\ at # "exit" =>
                  Allowed(Backup(backup)) /\ Allowed(IQ)
  <2>1. Own(files[IQ]) => Allowed(IQ)
    BY <1>1, OwnFacts DEF Allowed, FilesInv, IsRegular
  <2>2. files[IQ] = Absent => Allowed(IQ)
    BY FileFacts DEF Allowed, Exists
  <2>3. \A path \in Paths : MayWrite(path) => Allowed(path)
    BY DEF Allowed, MayWrite
  <2>4. active /\ at # "exit" => Allowed(Backup(backup)) /\ Allowed(IQ)
    BY <1>1, <2>1, <2>2 DEF Allowed, FilesInv, Rollback, SetAside, IsRegular
  <2>. QED BY <2>1, <2>2, <2>3, <2>4
<1>2. ASSUME FilesInv, UNCHANGED files
      PROVE  A
  BY <1>2
<1>3. ASSUME FilesInv, NEW path \in Paths, NEW file \in Files,
             Put(path, file), Allowed(path)
      PROVE  A
  BY <1>3, PutFacts DEF FilesInv
<1>4. ASSUME FilesInv, NEW n \in Suffixes,
             \/ Rename(IQ, Backup(n))
             \/ Rename(Backup(n), IQ),
             Allowed(IQ), Allowed(Backup(n))
      PROVE  A
  BY <1>4, PathFacts, RenameFacts DEF FilesInv
<1>5. ASSUME FilesInv, [Next]_vars
      PROVE  A
  <2>1. CASE UNCHANGED files
    BY <1>2, <1>5, <2>1
  <2>2. CASE WriteSamples
    BY <1>1, <1>3, <1>5, <2>2, PathFacts, OwnFacts
       DEF WriteSamples, FilesInv, Holding
  <2>3. ASSUME NEW ok \in BOOLEAN, Preserve(ok), ~UNCHANGED files
        PROVE  A
    <3>1. /\ Rename(IQ, Backup(FreeSuffix)) /\ FreeSuffix \in Suffixes
          /\ ~Exists(Backup(FreeSuffix))
          /\ at = "preserve" /\ IsRegular(IQ)
      BY <2>3, FreeSuffixIsFree DEF Preserve
    <3>2. files[IQ] # Absent
      BY <3>1, FileFacts DEF IsRegular
    <3>3. Allowed(IQ) /\ Allowed(Backup(FreeSuffix))
      BY <1>5, <3>1, <3>2 DEF Allowed, FilesInv, Beginning
    <3>. QED BY <1>4, <1>5, <3>1, <3>3
  <2>4. ASSUME NEW ok \in BOOLEAN, ~UNCHANGED files,
               OpenFile(ok) \/ OpenMetadata(ok) \/ WriteMetadata(ok)
        PROVE  A
    <3>1. CASE OpenFile(ok)
      BY <1>1, <1>3, <1>5, <2>4, <3>1, PathFacts, OwnFacts
         DEF OpenFile, FilesInv
    <3>2. CASE OpenMetadata(ok)
      BY <1>1, <1>3, <1>5, <2>4, <3>2, PathFacts, OwnFacts
         DEF OpenMetadata, FilesInv
    <3>3. CASE WriteMetadata(ok)
      <4>1. files[Metadata] = File(run, FALSE)
        BY <1>5, <3>3 DEF WriteMetadata, FilesInv, Recorded
      <4>2. Allowed(Metadata)
        BY <1>5, <4>1, OwnFacts DEF Allowed, IsRegular, FilesInv, Own
      <4>. QED BY <1>3, <1>5, <2>4, <3>3, <4>2, PathFacts, OwnFacts
               DEF WriteMetadata, FilesInv
    <3>. QED BY <2>4, <3>1, <3>2, <3>3
  <2>5. ASSUME NEW ok \in BOOLEAN, ~UNCHANGED files, Commit(ok) \/ Discard(ok)
        PROVE  A
    <3>1. CASE Commit(ok)
      <4>1. at = "commit" /\ active /\ Remove(Backup(backup))
        BY <2>5, <3>1 DEF Commit
      <4>. QED BY <1>1, <1>3, <1>5, <4>1, PathFacts, FileFacts
               DEF Remove, FilesInv, TypeOK
    <3>2. CASE Discard(ok)
      <4>1. at = "discard" /\ Remove(IQ)
        BY <2>5, <3>2 DEF Discard
      <4>. QED BY <1>1, <1>3, <1>5, <4>1, PathFacts, FileFacts
               DEF Remove, FilesInv, Holding
    <3>. QED BY <2>5, <3>1, <3>2
  <2>6. ASSUME NEW ok \in BOOLEAN, ~UNCHANGED files,
               Restore(ok) \/ UndoRemove(ok)
        PROVE  A
    <3>1. active /\ at # "exit" /\ Remove(IQ)
      BY <1>5, <2>6 DEF Restore, UndoRemove, FilesInv, Rollback
    <3>. QED BY <1>1, <1>3, <1>5, <3>1, PathFacts, FileFacts
             DEF Remove, FilesInv
  <2>7. ASSUME NEW ok \in BOOLEAN, ~UNCHANGED files,
               RestoreRename(ok) \/ UndoRename(ok)
        PROVE  A
    <3>1. active /\ at # "exit" /\ Rename(Backup(backup), IQ)
      BY <1>5, <2>7 DEF RestoreRename, UndoRename, FilesInv, Rollback
    <3>. QED BY <1>1, <1>4, <1>5, <3>1 DEF FilesInv, TypeOK
  <2>8. \/ UNCHANGED files \/ WriteSamples
        \/ \E ok \in BOOLEAN :
             \/ Preserve(ok) \/ OpenFile(ok) \/ Commit(ok) \/ Discard(ok)
             \/ Restore(ok) \/ RestoreRename(ok) \/ OpenMetadata(ok)
             \/ WriteMetadata(ok) \/ UndoRemove(ok) \/ UndoRename(ok)
    BY <1>5
       DEF Next, vars, GiveUpEarly, CheckPaths, PreserveNothing, Abandon,
           Throw, Leave, Exit, Crash, End, Done, Start, Initialise, Finish
  <2>. QED BY <2>1, <2>2, <2>3, <2>4, <2>5, <2>6, <2>7, <2>8, Zenon
<1>6. FilesInv /\ [Next]_vars =>
        [\A path \in Paths :
           files'[path] # files[path] =>
             \/ ~Exists(path)
             \/ IsRegular(path) /\ (force \/ files[path].run = run)]_vars
  BY <1>5 DEF Allowed
<1>. QED BY <1>6, FilesInvariance, PTL DEF Spec, OnlyAuthorizedChanges
=============================================================================
