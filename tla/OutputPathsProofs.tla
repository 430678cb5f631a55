-------------------------- MODULE OutputPathsProofs --------------------------
(***************************************************************************)
(* Proofs about OutputPaths, for every --out name of the parts told apart, *)
(* however many dots it has, any number of existing files, and any of the  *)
(* four combinations of program and file system.                           *)
(***************************************************************************)
EXTENDS OutputPaths, SequenceTheorems, TLAPS

-----------------------------------------------------------------------------
(* The names.                                                              *)

\* Folding a name keeps its parts apart and in their places.
LEMMA FoldingKeepsParts ==
  ASSUME NEW a \in Seq(Parts), NEW b \in Seq(Parts), Folded(a) = Folded(b)
  PROVE  /\ Len(a) = Len(b)
         /\ \A k \in 1 .. Len(a) : FoldAscii(a[k]) = FoldAscii(b[k])
<1>1. /\ DOMAIN a = 1 .. Len(a) /\ Len(a) \in Nat
      /\ DOMAIN b = 1 .. Len(b) /\ Len(b) \in Nat
  BY LenProperties
<1>2. DOMAIN a = DOMAIN b
  BY DEF Folded
<1>3. Len(a) = Len(b)
  <2>1. \A m, n \in Nat : 1 .. m = 1 .. n => m = n
    OBVIOUS
  <2>. QED BY <1>1, <1>2, <2>1
<1>4. ASSUME NEW k \in 1 .. Len(a)
      PROVE  FoldAscii(a[k]) = FoldAscii(b[k])
  <2>1. /\ Folded(a)[k] = FoldAscii(a[k])
        /\ Folded(b)[k] = FoldAscii(b[k])
    BY <1>1, <1>3 DEF Folded
  <2>. QED BY <2>1
<1>. QED BY <1>3, <1>4

\* A name is not empty.
LEMMA NamesHaveParts ==
  ASSUME NEW name \in IqNames
  PROVE  name \in Seq(Parts) /\ Len(name) \in Nat \ {0}
<1>1. name \in Seq(Parts) /\ \E k \in 1 .. Len(name) : name[k] # "empty"
  BY PathsAssumption
<1>2. Len(name) \in Nat
  BY <1>1, LenProperties
<1>. QED BY <1>1, <1>2

\* The companion of a recording has a name that is longer, or another last
\* part, whatever the case.
LEMMA CompanionDiffers ==
  ASSUME NEW name \in Seq(Parts), Len(name) \in Nat \ {0}
  PROVE  Folded(name) # Folded(MetadataPathFor(name))
<1>. DEFINE companion == MetadataPathFor(name)
<1>1. CASE ~HasExtension(name)
  <2>1. companion = Append(name, "txt")
    BY <1>1 DEF MetadataPathFor
  <2>2. companion \in Seq(Parts) /\ Len(companion) = Len(name) + 1
    BY <2>1, AppendProperties DEF Parts
  <2>. QED BY <2>2, FoldingKeepsParts
<1>2. CASE HasExtension(name) /\ FoldAscii(Last(name)) = "txt"
  <2>1. companion = name \o <<"metadata", "txt">>
    BY <1>2 DEF MetadataPathFor
  <2>2. /\ <<"metadata", "txt">> \in Seq(Parts)
        /\ Len(<<"metadata", "txt">>) = 2
    BY DEF Parts
  <2>3. companion \in Seq(Parts) /\ Len(companion) = Len(name) + 2
    BY <2>1, <2>2, ConcatProperties
  <2>. QED BY <2>3, FoldingKeepsParts
<1>3. CASE HasExtension(name) /\ FoldAscii(Last(name)) # "txt"
  <2>1. companion = Append(Front(name), "txt")
    BY <1>3 DEF MetadataPathFor
  <2>2. FoldAscii(name[Len(name)]) # "txt"
    BY <1>3 DEF Last
  <2>3. Front(name) \in Seq(Parts) /\ Len(Front(name)) = Len(name) - 1
    <3>1. \A k \in 1 .. Len(name) - 1 : name[k] \in Parts
      BY ElementOfSeq
    <3>2. Front(name) \in Seq(Parts)
      BY <3>1 DEF Front
    <3>3. Len(Front(name)) = Len(name) - 1
      <4>. DEFINE m == Len(name) - 1
      <4>1. m \in Nat /\ m \in Int
        OBVIOUS
      <4>2. \A k \in 1 .. m : name[k] \in Parts
        BY <3>1
      <4>. HIDE DEF m
      <4>3. Len(SubSeq(name, 1, m)) = IF 1 <= m THEN m - 1 + 1 ELSE 0
        BY <4>1, <4>2, SubSeqProperties
      <4>4. Len(SubSeq(name, 1, m)) = m
        BY <4>1, <4>3
      <4>. QED BY <4>4 DEF Front, m
    <3>. QED BY <3>2, <3>3
  <2>4. /\ companion \in Seq(Parts)
        /\ Len(companion) = Len(name) /\ companion[Len(name)] = "txt"
    BY <2>1, <2>3, AppendProperties DEF Parts
  <2>5. FoldAscii("txt") = "txt" /\ Len(name) \in 1 .. Len(name)
    BY DEF FoldAscii
  <2>. QED BY <2>2, <2>4, <2>5, FoldingKeepsParts
<1>. QED BY <1>1, <1>2, <1>3

\* So the two never share an entry of the directory, on any file system, nor
\* does any program find them equal.
LEMMA EntriesDiffer ==
  ASSUME out \in IqNames
  PROVE  /\ Entry(out) # Entry(metadataPath)
         /\ Compared(out) # Compared(metadataPath)
<1>1. Folded(out) # Folded(metadataPath)
  BY NamesHaveParts, CompanionDiffers DEF metadataPath
<1>2. out # metadataPath
  BY <1>1
<1>. QED BY <1>1, <1>2 DEF Entry, Compared

-----------------------------------------------------------------------------
(* The invariant.                                                          *)

Keys == Names \union {Folded(name) : name \in Names}

\* Both entries are in the directory, and only the files of a capture that
\* is under way have the two last numbers.
Typed ==
  /\ out \in IqNames
  /\ entries \in [Keys -> 0 .. Files + 2]
  /\ contents \in [1 .. Files + 2 -> {"iq", "metadata", "other", "none"}]
  /\ at \in {"check", "validate", "accepted", "preserved", "recorded"} =>
       File(metadataPath) \in 0 .. Files /\ contents[Files + 2] = "none"

\* Until the capture begins, IQ data is in the file at --out only.
Earlier ==
  at \in {"check", "validate", "accepted"} =>
    \A file \in 1 .. Files + 2 : contents[file] = "iq" => file = File(out)

\* What was checked stays true as long as it has to.
Checked ==
  /\ at \in {"validate", "accepted", "preserved", "recorded"} =>
       force \/ File(metadataPath) = 0
  /\ at = "validate" => force \/ File(out) = 0
  /\ at = "alias" => /\ force /\ File(out) # 0
                     /\ File(out) = File(metadataPath)
  /\ at = "preserved" => File(out) = 0
  /\ at \in {"accepted", "preserved", "recorded"} =>
       \A file \in 1 .. Files + 2 :
         contents[file] = "iq" => file # File(metadataPath)
  /\ at # "refused"

PathsInv == Typed /\ Earlier /\ Checked

\* The keys of the directory.
LEMMA EntriesAreKeys ==
  ASSUME out \in IqNames
  PROVE  Entry(out) \in Keys /\ Entry(metadataPath) \in Keys
<1>1. out \in Names /\ metadataPath \in Names
  BY DEF Names, metadataPath
<1>. QED BY <1>1 DEF Keys, Entry

LEMMA InitPaths == Init => PathsInv
<1>. SUFFICES ASSUME Init PROVE PathsInv
  OBVIOUS
<1>1. out \in IqNames /\ at = "check" /\ Files \in Nat
  BY PathsAssumption DEF Init
<1>2. PICK iqFile \in 0 .. Files, metadataFile \in 0 .. Files :
        /\ Entry(metadataPath) = Entry(out) => metadataFile = iqFile
        /\ entries = [name \in Keys |->
                        CASE name = Entry(out)          -> iqFile
                          [] name = Entry(metadataPath) -> metadataFile
                          [] OTHER                      -> 0]
        /\ contents = [file \in 1 .. Files + 2 |->
                         CASE file = iqFile -> "iq"
                           [] file > Files  -> "none"
                           [] OTHER         -> "other"]
  BY Zenon DEF Init, Keys
<1>3. /\ Entry(out) \in Keys /\ Entry(metadataPath) \in Keys
      /\ Entry(out) # Entry(metadataPath)
  BY <1>1, EntriesAreKeys, EntriesDiffer
<1>4. File(out) = iqFile /\ File(metadataPath) = metadataFile
  BY <1>2, <1>3 DEF File
<1>5. entries \in [Keys -> 0 .. Files + 2]
  BY <1>1, <1>2
<1>6. /\ contents \in [1 .. Files + 2 -> {"iq", "metadata", "other", "none"}]
      /\ contents[Files + 2] = "none"
      /\ \A file \in 1 .. Files + 2 : contents[file] = "iq" => file = iqFile
  BY <1>1, <1>2
<1>. QED BY <1>1, <1>4, <1>5, <1>6 DEF PathsInv, Typed, Earlier, Checked

\* No step changes what stands for the two names.
LEMMA OptionsStay ==
  ASSUME UNCHANGED options
  PROVE  /\ Entry(out)' = Entry(out)
         /\ Entry(metadataPath)' = Entry(metadataPath)
         /\ out' = out /\ force' = force
BY DEF options, Entry, metadataPath

LEMMA FilesStay ==
  ASSUME UNCHANGED <<options, entries>>
  PROVE  File(out)' = File(out) /\ File(metadataPath)' = File(metadataPath)
BY OptionsStay DEF File

\* The checks.
LEMMA CheckSteps ==
  ASSUME PathsInv,
         CheckOutputPaths
           \/ \E ok \in BOOLEAN : ValidateDistinctOutputPaths(ok)
  PROVE  PathsInv'
<1>1. /\ Compared(out) # Compared(metadataPath) /\ out \in IqNames
      /\ UNCHANGED <<options, entries, contents>>
  BY EntriesDiffer
     DEF PathsInv, Typed, CheckOutputPaths, ValidateDistinctOutputPaths
<1>2. /\ File(out)' = File(out) /\ File(metadataPath)' = File(metadataPath)
      /\ out' = out /\ force' = force
      /\ UNCHANGED <<entries, contents>>
  BY <1>1, FilesStay, OptionsStay
<1>3. CASE CheckOutputPaths
  BY <1>2, <1>3 DEF CheckOutputPaths, PathsInv, Typed, Earlier, Checked
<1>4. ASSUME NEW ok \in BOOLEAN, ValidateDistinctOutputPaths(ok)
      PROVE  PathsInv'
  <2>1. /\ at = "validate" /\ at' \in {"error", "alias", "accepted"}
        /\ at' = "alias" => Alias(out, metadataPath)
        /\ at' = "accepted" => ~Alias(out, metadataPath)
    BY <1>4, Zenon DEF ValidateDistinctOutputPaths
  <2>2. Alias(out, metadataPath) <=>
          File(out) # 0 /\ File(metadataPath) # 0
            /\ File(out) = File(metadataPath)
    BY <1>1 DEF Alias
  <2>. QED BY <1>2, <2>1, <2>2 DEF PathsInv, Typed, Earlier, Checked
<1>. QED BY <1>3, <1>4

\* The steps of a capture that was let through.
LEMMA FileSteps ==
  ASSUME PathsInv, Preserve \/ OpenFile \/ WriteMetadataFile
  PROVE  PathsInv' /\ \A file \in 1 .. Files + 2 :
                        contents[file] = "iq" => contents'[file] = "iq"
<1>1. /\ Entry(out) # Entry(metadataPath) /\ Files \in Nat
      /\ Entry(out) \in Keys /\ Entry(metadataPath) \in Keys
  BY EntriesDiffer, EntriesAreKeys, PathsAssumption DEF PathsInv, Typed
<1>. USE DEF PathsInv, Typed, Earlier, Checked
<1>2. /\ Entry(out)' = Entry(out)
      /\ Entry(metadataPath)' = Entry(metadataPath)
      /\ out' = out /\ force' = force
  BY OptionsStay DEF Preserve, OpenFile, WriteMetadataFile
<1>3. CASE Preserve
  <2>1. /\ at = "accepted" /\ at' = "preserved" /\ contents' = contents
        /\ entries' = [entries EXCEPT ![Entry(out)] = 0]
    BY <1>3 DEF Preserve
  <2>2. File(out)' = 0 /\ File(metadataPath)' = File(metadataPath)
    BY <1>1, <1>2, <2>1 DEF File
  <2>3. entries' \in [Keys -> 0 .. Files + 2]
    BY <1>1, <2>1
  <2>. QED BY <1>2, <2>1, <2>2, <2>3
<1>4. CASE OpenFile
  <2>1. /\ at = "preserved" /\ at' = "recorded"
        /\ entries' = [entries EXCEPT ![Entry(out)] = Files + 1]
        /\ contents' = [contents EXCEPT ![Files + 1] = "iq"]
    BY <1>4 DEF OpenFile, Replace
  <2>2. File(metadataPath)' = File(metadataPath)
    BY <1>1, <1>2, <2>1 DEF File
  <2>3. /\ entries' \in [Keys -> 0 .. Files + 2]
        /\ contents' \in
             [1 .. Files + 2 -> {"iq", "metadata", "other", "none"}]
        /\ contents'[Files + 2] = "none"
        /\ \A file \in 1 .. Files + 2 :
             contents'[file] = "iq" <=>
               contents[file] = "iq" \/ file = Files + 1
    BY <1>1, <2>1
  <2>. QED BY <1>1, <1>2, <2>1, <2>2, <2>3
<1>5. CASE WriteMetadataFile
  <2>. DEFINE file == IF File(metadataPath) = 0 THEN Files + 2
                      ELSE File(metadataPath)
  <2>1. /\ at = "recorded" /\ at' = "written"
        /\ entries' = [entries EXCEPT ![Entry(metadataPath)] = file]
        /\ contents' = [contents EXCEPT ![file] = "metadata"]
    BY <1>5 DEF WriteMetadataFile, Replace
  <2>2. file \in 1 .. Files + 2 /\ contents[file] # "iq"
    BY <1>1, <2>1
  <2>. HIDE DEF file
  <2>3. /\ entries' \in [Keys -> 0 .. Files + 2]
        /\ contents' \in
             [1 .. Files + 2 -> {"iq", "metadata", "other", "none"}]
        /\ \A f \in 1 .. Files + 2 :
             contents[f] = "iq" => contents'[f] = "iq"
    BY <1>1, <2>1, <2>2
  <2>. QED BY <1>2, <2>1, <2>3
<1>. QED BY <1>3, <1>4, <1>5

\* A capture that goes on has a companion of its own: no IQ data, earlier or
\* new, is in the file that its name will reach.
THEOREM PathsInvariance == Spec => []PathsInv
<1>1. PathsInv /\ [Next]_vars => PathsInv'
  <2>. SUFFICES ASSUME PathsInv, [Next]_vars PROVE PathsInv'
    OBVIOUS
  <2>1. CASE Ended \/ UNCHANGED vars
    <3>1. UNCHANGED <<options, entries, contents, at>>
      BY <2>1 DEF Ended, vars
    <3>2. /\ File(out)' = File(out) /\ out' = out /\ force' = force
          /\ File(metadataPath)' = File(metadataPath)
      BY <3>1, FilesStay, OptionsStay
    <3>. QED BY <3>1, <3>2 DEF PathsInv, Typed, Earlier, Checked
  <2>. QED BY <2>1, CheckSteps, FileSteps DEF Next
<1>. QED BY <1>1, InitPaths, PTL DEF Spec

-----------------------------------------------------------------------------
(* Theorems.                                                               *)

\* Metadata replaces no IQ data.
THEOREM KeptApart == Spec => RecordingKeptApart
<1>. DEFINE Stays == \A file \in DOMAIN contents :
                       contents[file] = "iq" => contents'[file] = "iq"
<1>1. PathsInv /\ [Next]_vars => [Stays]_vars
  <2>. SUFFICES ASSUME PathsInv, [Next]_vars PROVE Stays
    OBVIOUS
  <2>1. DOMAIN contents = 1 .. Files + 2
    BY DEF PathsInv, Typed
  <2>2. CASE Preserve \/ OpenFile \/ WriteMetadataFile
    BY <2>1, <2>2, FileSteps
  <2>3. CASE \/ CheckOutputPaths \/ Ended \/ UNCHANGED vars
             \/ \E ok \in BOOLEAN : ValidateDistinctOutputPaths(ok)
    BY <2>3 DEF CheckOutputPaths, Ended, vars, ValidateDistinctOutputPaths
  <2>. QED BY <2>2, <2>3 DEF Next
<1>. QED BY <1>1, PathsInvariance, PTL DEF Spec, RecordingKeptApart

\* No name is refused, only two names of one existing file.
THEOREM NoNameRefused == Spec => []OnlyHardLinksRefused
<1>1. PathsInv => OnlyHardLinksRefused
  BY EntriesDiffer DEF PathsInv, Typed, Checked, OnlyHardLinksRefused
<1>. QED BY <1>1, PathsInvariance, PTL
=============================================================================
