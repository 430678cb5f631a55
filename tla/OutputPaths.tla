----------------------------- MODULE OutputPaths -----------------------------
(***************************************************************************)
(* Which file the metadata goes to, and whether that could hold IQ data:   *)
(* metadataPathFor() (src/src/metadata.cpp), the checks before a capture   *)
(* (validateDistinctOutputPaths() in src/src/output_file.cpp), and, taken  *)
(* to succeed, the file operations of the capture that has passed them.    *)
(* How these may fail, and what is undone then, is in OutputFiles.         *)
(*                                                                         *)
(* A file name is the sequence of its parts between dots; both paths lie   *)
(* in one directory, which is left out.  The directory gives each name the *)
(* number of its file, 0 if there is none, so that hard links have one     *)
(* number, and contents tells what the file of a number holds.  Whether    *)
(* names that differ in case are one is up to the file system, whichever   *)
(* comparison the program was compiled with.                               *)
(***************************************************************************)
EXTENDS Integers, Sequences, SequencesExt

CONSTANTS
  IqNames,   \* the names that --out may give
  Files      \* bound: the files that exist before the capture

\* The parts of a name that play a part: TXT stands for every way of writing
\* txt that is not all lower case, "empty" for what is before a leading dot
\* or after a final one.
Parts == {"empty", "x", "iq", "raw", "txt", "TXT", "metadata"}

\* A name without a part that is not empty would be ".", ".." or the like.
ASSUME PathsAssumption ==
  /\ Files \in Nat
  /\ \A name \in IqNames :
       name \in Seq(Parts) /\ \E k \in 1 .. Len(name) : name[k] # "empty"

FoldAscii(part) == IF part = "TXT" THEN "txt" ELSE part

\* A leading dot does not begin an extension, a final dot is an empty one.
HasExtension(name) == Len(name) > 2 \/ (Len(name) = 2 /\ name[1] # "empty")

\* Faulty variant: only a lower-case extension is known.
CompanionByCase(name) ==
  CASE ~HasExtension(name) -> Append(name, "txt")
    [] HasExtension(name) /\ Last(name) = "txt" ->
         name \o <<"metadata", "txt">>
    [] OTHER -> Append(Front(name), "txt")

MetadataPathFor(name) ==
  CASE ~HasExtension(name) -> Append(name, "txt")
    [] HasExtension(name) /\ FoldAscii(Last(name)) = "txt" ->
         name \o <<"metadata", "txt">>
    [] OTHER -> Append(Front(name), "txt")

Names == IqNames \union {MetadataPathFor(name) : name \in IqNames}
               \union {CompanionByCase(name) : name \in IqNames}

VARIABLES
  comparesFolded,  \* the program was compiled to ignore case
  foldsCase,       \* the file system ignores case
  entries,         \* the directory
  contents,        \* "iq", "metadata", "other" or "none"
  out, force,      \* the options
  at               \* "check", "validate", "accepted", "preserved",
                   \* "recorded", "written"; "exists", "error", "alias",
                   \* "refused"

options == <<comparesFolded, foldsCase, out, force>>
vars    == <<options, entries, contents, at>>

Folded(name) == [k \in DOMAIN name |-> FoldAscii(name[k])]
Entry(name)  == IF foldsCase THEN Folded(name) ELSE name
File(name)   == entries[Entry(name)]
metadataPath == MetadataPathFor(out)

\* Only the two names that play a part have entries; what the first of them
\* names is taken to be an earlier recording.
Init ==
  /\ comparesFolded \in BOOLEAN /\ foldsCase \in BOOLEAN
  /\ force \in BOOLEAN /\ out \in IqNames
  /\ \E iqFile, metadataFile \in 0 .. Files :
       /\ Entry(metadataPath) = Entry(out) => metadataFile = iqFile
       /\ entries = [name \in Names \union {Folded(n) : n \in Names} |->
                       CASE name = Entry(out)          -> iqFile
                         [] name = Entry(metadataPath) -> metadataFile
                         [] OTHER                      -> 0]
       /\ contents = [file \in 1 .. Files + 2 |->
                        CASE file = iqFile -> "iq"
                          [] file > Files  -> "none"
                          [] OTHER         -> "other"]
  /\ at = "check"

-----------------------------------------------------------------------------
(* The checks.                                                             *)

Compared(name) == IF comparesFolded THEN Folded(name) ELSE name

\* Faulty variant: existing files are not compared.
AliasByName(iq, metadata) == Compared(iq) = Compared(metadata)

\* pathsEqualForPlatform(), and equivalent() if both exist.
Alias(iq, metadata) ==
  \/ Compared(iq) = Compared(metadata)
  \/ File(iq) # 0 /\ File(metadata) # 0 /\ File(iq) = File(metadata)

CheckOutputPaths ==
  /\ at = "check"
  /\ at' = IF ~force /\ (File(out) # 0 \/ File(metadataPath) # 0)
             THEN "exists" ELSE "validate"
  /\ UNCHANGED <<options, entries, contents>>

\* Normalizing or comparing the paths may fail.
ValidateDistinctOutputPaths(ok) ==
  /\ at = "validate"
  /\ at' = CASE ~ok -> "error"
             [] ok /\ Alias(out, metadataPath) -> "alias"
             [] OTHER -> "accepted"
  /\ UNCHANGED <<options, entries, contents>>

-----------------------------------------------------------------------------
(* The files.                                                              *)

\* An earlier recording leaves its name: it is to be found under a backup
\* name until commit() removes that.
Preserve ==
  /\ at = "accepted"
  /\ entries' = [entries EXCEPT ![Entry(out)] = 0]
  /\ at' = "preserved"
  /\ UNCHANGED <<options, contents>>

\* checkOutputPath() once more, and a stream that creates or truncates.
Replace(name, newFile, what, next) ==
  LET file == IF File(name) = 0 THEN newFile ELSE File(name)
  IN IF ~force /\ File(name) # 0
     THEN at' = "refused" /\ UNCHANGED <<entries, contents>>
     ELSE /\ entries' = [entries EXCEPT ![Entry(name)] = file]
          /\ contents' = [contents EXCEPT ![file] = what]
          /\ at' = next

OpenFile ==
  /\ at = "preserved"
  /\ Replace(out, Files + 1, "iq", "recorded")
  /\ UNCHANGED options

WriteMetadataFile ==
  /\ at = "recorded"
  /\ Replace(metadataPath, Files + 2, "metadata", "written")
  /\ UNCHANGED options

Ended == /\ at \in {"exists", "error", "alias", "refused", "written"}
         /\ UNCHANGED vars

Next == \/ CheckOutputPaths \/ Preserve \/ OpenFile \/ WriteMetadataFile
        \/ Ended
        \/ \E ok \in BOOLEAN : ValidateDistinctOutputPaths(ok)

Spec == Init /\ [][Next]_vars

-----------------------------------------------------------------------------
(* Properties.                                                             *)

\* "--force cannot authorize metadata to replace IQ data"
\* (output_file.cpp:118): what a file holds of the new recording, or of an
\* earlier one that was found at --out, metadata never replaces, whether the
\* companion would reach it by a name that differs in case, on a file system
\* that ignores it, or as a hard link.
RecordingKeptApart ==
  [][\A file \in DOMAIN contents :
       contents[file] = "iq" => contents'[file] = "iq"]_vars

\* No --out path is refused for its name: the companion's name differs from
\* it on every platform, so a refusal means that both files existed and were
\* one file, and that --force was given.  Nor does a capture that was let
\* through find the companion's name taken in the end, by its own recording.
OnlyHardLinksRefused ==
  /\ at = "alias" =>
       /\ force /\ Entry(out) # Entry(metadataPath)
       /\ File(out) # 0 /\ File(out) = File(metadataPath)
  /\ at # "refused"
=============================================================================
