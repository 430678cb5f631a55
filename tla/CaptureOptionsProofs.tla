------------------------- MODULE CaptureOptionsProofs -------------------------
(***************************************************************************)
(* Proofs about CaptureOptions, for command lines of any length.  While    *)
(* the loop runs, what the parser holds is the meaning of the arguments    *)
(* before i, and i is a place that is read as an option.                   *)
(***************************************************************************)
EXTENDS CaptureOptions, SequenceTheorems, WellFoundedInduction, TLAPS

-----------------------------------------------------------------------------
(* The inductive invariant.                                                *)

Before == {k \in ReadAsOption : k < i}

\* The value is that of the last such option among the places.
IsLast(value, option, otherwise, args, places) ==
  \/ value = otherwise /\ \A k \in places : args[k] # option
  \/ \E k \in places :
       /\ args[k] = option /\ value = args[k + 1]
       /\ \A other \in places : args[other] = option => other <= k

\* The arguments so far are options, with a valid value where they take one.
Accepted ==
  \A k \in Before :
    /\ arguments[k] \in Options
    /\ arguments[k] \in TakesValue =>
         k + 1 < i /\ Valid(arguments[k], arguments[k + 1])

Seen(option) == \E k \in Before : arguments[k] = option

Held ==
  /\ (sawDuration <=> Seen("--duration")) /\ (sawOutput <=> Seen("--out"))
  /\ (options.force <=> Seen("--force"))
  /\ IsLast(options.duration, "--duration", "none", arguments, Before)
  /\ IsLast(options.center, "--center", "default", arguments, Before)
  /\ IsLast(options.rate, "--sample-rate", "default", arguments, Before)
  /\ IsLast(options.biasT, "--bias-t", "0", arguments, Before)
  /\ IsLast(options.out, "--out", "none", arguments, Before)

Fields ==
  [duration : {"5", "1", "none"}, center : {"5", "1", "default"},
   rate : {"5", "1", "default"}, biasT : {"0", "1"}, force : BOOLEAN,
   out : (Tokens \ {""}) \union {"none", "captures/default"}]

Typed ==
  /\ arguments \in Seq(Tokens) /\ i \in 1 .. Len(arguments) + 1
  /\ sawDuration \in BOOLEAN /\ sawOutput \in BOOLEAN
  /\ result \in {"parsing", "success", "help", "error"}
  /\ options \in Fields

ParserInv ==
  /\ Typed /\ AcceptedAsWritten
  /\ i <= Len(arguments) => i \in ReadAsOption
  /\ Accepted
  /\ result = "parsing" => Held

-----------------------------------------------------------------------------
(* The places that are read as options.                                    *)

\* The definition by recursion has a solution, whatever the arguments.
LEMMA ReadingExists ==
  ASSUME NEW args \in Seq(Tokens)
  PROVE  \E read : read = [k \in DOMAIN args |->
           \/ k = 1
           \/ read[k - 1] /\ args[k - 1] \notin TakesValue
           \/ k > 2 /\ read[k - 2] /\ args[k - 2] \in TakesValue]
<1>. DEFINE Reads(read, k) ==
              \/ k = 1
              \/ read[k - 1] /\ args[k - 1] \notin TakesValue
              \/ k > 2 /\ read[k - 2] /\ args[k - 2] \in TakesValue
            Solved(n) == \E read : read = [k \in 1 .. n |-> Reads(read, k)]
            Unsolved == {n \in Nat : ~Solved(n)}
            R == OpToRel(<, Nat)
<1>. HIDE DEF Reads
<1>1. Solved(0)
  <2>1. [k \in 1 .. 0 |-> TRUE] = [k \in 1 .. 0 |->
                                     Reads([j \in 1 .. 0 |-> TRUE], k)]
    OBVIOUS
  <2>. QED BY <2>1
<1>2. ASSUME NEW n \in Nat, Solved(n)
      PROVE  Solved(n + 1)
  <2>1. PICK read : read = [k \in 1 .. n |-> Reads(read, k)]
    BY <1>2
  <2>. DEFINE more == [k \in 1 .. n + 1 |-> Reads(read, k)]
  <2>2. \A k \in 1 .. n : more[k] = read[k]
    <3>1. \A k \in 1 .. n : k \in 1 .. n + 1
      OBVIOUS
    <3>2. \A k \in 1 .. n : read[k] = Reads(read, k)
      BY <2>1, Zenon
    <3>. QED BY <3>1, <3>2
  <2>3. ASSUME NEW k \in 1 .. n + 1
        PROVE  Reads(read, k) = Reads(more, k)
    <3>1. k # 1 => k - 1 \in 1 .. n
      OBVIOUS
    <3>2. k > 2 => k - 2 \in 1 .. n
      OBVIOUS
    <3>. QED BY <2>2, <3>1, <3>2 DEF Reads
  <2>4. more = [k \in 1 .. n + 1 |-> Reads(more, k)]
    BY <2>3
  <2>. QED BY <2>4
<1>. HIDE DEF Solved
<1>3. Unsolved = {}
  <2>. SUFFICES ASSUME Unsolved # {} PROVE FALSE
    OBVIOUS
  <2>1. \A m, n \in Nat : m < n => <<m, n>> \in R
    BY DEF OpToRel
  <2>2. IsWellFoundedOn(R, Nat) /\ Unsolved \subseteq Nat
    BY NatLessThanWellFounded
  <2>. HIDE DEF R
  <2>3. PICK n \in Unsolved : \A m \in Unsolved : <<m, n>> \notin R
    BY <2>2, WFMin
  <2>4. n \in Nat \ {0}
    BY <1>1
  <2>5. Solved(n - 1)
    <3>1. n - 1 \in Nat /\ n - 1 < n
      BY <2>4
    <3>2. n - 1 \notin Unsolved
      BY <2>1, <2>3, <2>4, <3>1
    <3>. QED BY <3>1, <3>2
  <2>. QED BY <1>2, <2>4, <2>5
<1>4. DOMAIN args = 1 .. Len(args) /\ Len(args) \in Nat
  OBVIOUS
<1>5. PICK read : read = [k \in 1 .. Len(args) |-> Reads(read, k)]
  BY <1>3, <1>4 DEF Solved
<1>6. read = [k \in DOMAIN args |-> Reads(read, k)]
  BY <1>4, <1>5
<1>. QED BY <1>6 DEF Reads

\* The first argument is read as an option, and one after an option without
\* a value, and one after an option's value; no other is.
LEMMA ReadAfter ==
  ASSUME arguments \in Seq(Tokens)
  PROVE  /\ ReadAsOption \subseteq 1 .. Len(arguments)
         /\ 1 <= Len(arguments) => 1 \in ReadAsOption
         /\ \A k \in 2 .. Len(arguments) :
              k \in ReadAsOption <=>
                \/ /\ k - 1 \in ReadAsOption
                   /\ arguments[k - 1] \notin TakesValue
                \/ /\ k - 2 \in ReadAsOption
                   /\ arguments[k - 2] \in TakesValue
<1>1. DOMAIN arguments = 1 .. Len(arguments) /\ Len(arguments) \in Nat
  OBVIOUS
<1>2. PICK read :
        /\ read = [k \in DOMAIN arguments |->
             \/ k = 1
             \/ read[k - 1] /\ arguments[k - 1] \notin TakesValue
             \/ k > 2 /\ read[k - 2] /\ arguments[k - 2] \in TakesValue]
        /\ ReadAsOption = {k \in DOMAIN arguments : read[k]}
  <2>1. \E read : read = [k \in DOMAIN arguments |->
             \/ k = 1
             \/ read[k - 1] /\ arguments[k - 1] \notin TakesValue
             \/ k > 2 /\ read[k - 2] /\ arguments[k - 2] \in TakesValue]
    BY ReadingExists
  <2>. QED BY <2>1 DEF ReadAsOption
<1>3. ASSUME NEW k \in 1 .. Len(arguments)
      PROVE  read[k] = (\/ k = 1
                        \/ read[k - 1] /\ arguments[k - 1] \notin TakesValue
                        \/ /\ k > 2 /\ read[k - 2]
                           /\ arguments[k - 2] \in TakesValue)
  BY <1>1, <1>2
<1>4. ReadAsOption \subseteq 1 .. Len(arguments)
  BY <1>1, <1>2
<1>5. 1 <= Len(arguments) => 1 \in ReadAsOption
  BY <1>1, <1>2, <1>3
<1>6. ASSUME NEW k \in 2 .. Len(arguments)
      PROVE  k \in ReadAsOption <=>
                \/ /\ k - 1 \in ReadAsOption
                   /\ arguments[k - 1] \notin TakesValue
                \/ /\ k - 2 \in ReadAsOption
                   /\ arguments[k - 2] \in TakesValue
  <2>1. k \in 1 .. Len(arguments) /\ k # 1 /\ k - 1 \in 1 .. Len(arguments)
    BY <1>1
  <2>2. k \in ReadAsOption <=> read[k]
    BY <1>1, <1>2, <2>1
  <2>3. k - 1 \in ReadAsOption <=> read[k - 1]
    BY <1>1, <1>2, <2>1
  <2>4. k - 2 \in ReadAsOption <=> k > 2 /\ read[k - 2]
    BY <1>1, <1>2, <2>1
  <2>. QED BY <1>3, <2>1, <2>2, <2>3, <2>4
<1>. QED BY <1>4, <1>5, <1>6

-----------------------------------------------------------------------------
(* One option further.                                                     *)

\* An option has been read: the place after it, or after its value, is the
\* next one to read as an option, and nothing in between is.
LEMMA PlaceAfter ==
  ASSUME ParserInv, i <= Len(arguments), arguments' = arguments,
         IF arguments[i] \in TakesValue THEN i < Len(arguments) /\ i' = i + 2
                                        ELSE i' = i + 1
  PROVE  /\ i \in ReadAsOption /\ Before' = Before \union {i}
         /\ i' \in 1 .. Len(arguments') + 1
         /\ i' <= Len(arguments') => i' \in ReadAsOption'
<1>1. /\ arguments \in Seq(Tokens) /\ Len(arguments) \in Nat
      /\ i \in 1 .. Len(arguments) /\ i \in ReadAsOption
  <2>1. /\ arguments \in Seq(Tokens) /\ i \in 1 .. Len(arguments) + 1
        /\ i \in ReadAsOption
    BY DEF ParserInv, Typed
  <2>2. Len(arguments) \in Nat
    BY <2>1
  <2>. QED BY <2>1, <2>2
<1>2. ReadAsOption' = ReadAsOption
  BY DEF ReadAsOption
<1>3. Before' = {k \in ReadAsOption : k < i'}
  BY <1>2 DEF Before
<1>4. ReadAsOption \subseteq 1 .. Len(arguments)
  BY <1>1, ReadAfter
<1>5. CASE arguments[i] \notin TakesValue
  <2>1. Before' = Before \union {i}
    <3>1. \A k \in 1 .. Len(arguments) : k < i + 1 <=> k < i \/ k = i
      BY <1>1
    <3>2. {k \in ReadAsOption : k < i + 1} =
            {k \in ReadAsOption : k < i} \union {i}
      BY <1>1, <1>4, <3>1
    <3>. QED BY <1>3, <1>5, <3>2 DEF Before
  <2>2. i' <= Len(arguments) => i' \in ReadAsOption
    <3>1. ASSUME i + 1 <= Len(arguments) PROVE i + 1 \in ReadAsOption
      <4>1. i + 1 \in 2 .. Len(arguments) /\ (i + 1) - 1 = i
        BY <1>1, <3>1
      <4>. QED BY <1>1, <1>5, <4>1, ReadAfter
    <3>. QED BY <1>5, <3>1
  <2>. QED BY <1>1, <1>2, <1>5, <2>1, <2>2
<1>6. CASE arguments[i] \in TakesValue
  <2>1. i + 1 \in 2 .. Len(arguments) /\ (i + 1) - 1 = i /\ (i + 1) - 2 = i - 1
    BY <1>1, <1>6
  <2>2. i + 1 \notin ReadAsOption
    <3>. SUFFICES ASSUME i + 1 \in ReadAsOption PROVE FALSE
      OBVIOUS
    <3>1. i - 1 \in ReadAsOption /\ arguments[i - 1] \in TakesValue
      BY <1>1, <1>6, <2>1, ReadAfter
    <3>2. i - 1 \in Before
      BY <1>1, <3>1 DEF Before
    <3>3. (i - 1) + 1 < i
      BY <3>1, <3>2 DEF ParserInv, Accepted
    <3>. QED BY <1>1, <3>3
  <2>3. Before' = Before \union {i}
    <3>1. \A k \in 1 .. Len(arguments) : k < i + 2 <=> k < i + 1 \/ k = i + 1
      BY <1>1
    <3>2. \A k \in 1 .. Len(arguments) : k < i + 1 <=> k < i \/ k = i
      BY <1>1
    <3>3. {k \in ReadAsOption : k < i + 2} =
            {k \in ReadAsOption : k < i} \union {i}
      BY <1>1, <1>4, <2>2, <3>1, <3>2
    <3>. QED BY <1>3, <1>6, <3>3 DEF Before
  <2>4. i' <= Len(arguments) => i' \in ReadAsOption
    <3>1. ASSUME i + 2 <= Len(arguments) PROVE i + 2 \in ReadAsOption
      <4>1. i + 2 \in 2 .. Len(arguments) /\ (i + 2) - 2 = i
        BY <1>1, <3>1
      <4>. QED BY <1>1, <1>6, <4>1, ReadAfter
    <3>. QED BY <1>6, <3>1
  <2>. QED BY <1>1, <1>2, <1>6, <2>3, <2>4
<1>. QED BY <1>5, <1>6

\* The value of the last option, when one more place has been read.
LEMMA LastAfter ==
  ASSUME NEW old, NEW new, NEW option, NEW otherwise, NEW args,
         NEW places \in SUBSET Int, NEW n \in Int, \A k \in places : k < n,
         IsLast(old, option, otherwise, args, places),
         new = IF args[n] = option THEN args[n + 1] ELSE old
  PROVE  IsLast(new, option, otherwise, args, places \union {n})
<1>1. CASE args[n] # option
  BY <1>1 DEF IsLast
<1>2. CASE args[n] = option
  <2>1. \A other \in places \union {n} : args[other] = option => other <= n
    OBVIOUS
  <2>. QED BY <1>2, <2>1 DEF IsLast
<1>. QED BY <1>1, <1>2

\* When there is no more to read, the last one so far is the last one.
LEMMA LastIsMeant ==
  ASSUME NEW value, NEW option, NEW otherwise, ReadAsOption \subseteq Int,
         IsLast(value, option, otherwise, arguments, ReadAsOption)
  PROVE  value = LastValue(option, otherwise)
<1>1. CASE Places(option) = {}
  BY <1>1 DEF IsLast, LastValue, Places
<1>2. CASE Places(option) # {}
  <2>1. PICK k \in ReadAsOption :
          /\ arguments[k] = option /\ value = arguments[k + 1]
          /\ \A other \in ReadAsOption :
               arguments[other] = option => other <= k
    BY <1>2 DEF IsLast, Places
  <2>2. k \in Places(option) /\ Places(option) \subseteq Int
    BY <2>1 DEF Places
  <2>3. \A other \in Places(option) : other <= k
    BY <2>1 DEF Places
  <2>. DEFINE last == CHOOSE m \in Places(option) :
                        \A other \in Places(option) : other <= m
  <2>4. last \in Places(option) /\ \A other \in Places(option) : other <= last
    BY <2>2, <2>3
  <2>. HIDE DEF last
  <2>5. last = k
    BY <2>2, <2>3, <2>4
  <2>6. value = arguments[1 + last]
    BY <2>1, <2>2, <2>5
  <2>. QED BY <1>2, <2>6 DEF LastValue, last
<1>. QED BY <1>1, <1>2

-----------------------------------------------------------------------------
(* The steps of the loop.                                                  *)

\* What one more place adds to what has been seen.
LEMMA SeenAfter ==
  ASSUME arguments' = arguments, Before' = Before \union {i}, NEW option
  PROVE  Seen(option)' <=> Seen(option) \/ arguments[i] = option
BY DEF Seen

\* The option at i, if it is a known one with a valid value, has been read,
\* and its field has been set, but no other.
OptionRead ==
  /\ arguments' = arguments /\ result = "parsing" /\ result' = "parsing"
  /\ i <= Len(arguments) /\ arguments[i] \in Options
  /\ IF arguments[i] \in TakesValue
       THEN /\ i < Len(arguments) /\ Valid(arguments[i], arguments[i + 1])
            /\ i' = i + 2
       ELSE i' = i + 1
  /\ sawDuration' = (sawDuration \/ arguments[i] = "--duration")
  /\ sawOutput' = (sawOutput \/ arguments[i] = "--out")
  /\ options' \in Fields
  /\ options'.force <=> options.force \/ arguments[i] = "--force"
  /\ options'.duration = IF arguments[i] = "--duration"
                           THEN arguments[i + 1] ELSE options.duration
  /\ options'.center   = IF arguments[i] = "--center"
                           THEN arguments[i + 1] ELSE options.center
  /\ options'.rate     = IF arguments[i] = "--sample-rate"
                           THEN arguments[i + 1] ELSE options.rate
  /\ options'.biasT    = IF arguments[i] = "--bias-t"
                           THEN arguments[i + 1] ELSE options.biasT
  /\ options'.out      = IF arguments[i] = "--out"
                           THEN arguments[i + 1] ELSE options.out

\* That is what an option with its value does,
LEMMA ValueIsRead ==
  ASSUME Typed, OptionWithValue
  PROVE  OptionRead
<1>1. arguments[i + 1] \in Tokens
  <2>1. /\ arguments \in Seq(Tokens) /\ i \in 1 .. Len(arguments) + 1
        /\ i < Len(arguments)
    BY DEF Typed, OptionWithValue
  <2>2. Len(arguments) \in Nat
    BY <2>1
  <2>3. i + 1 \in 1 .. Len(arguments)
    BY <2>1, <2>2
  <2>. QED BY <2>1, <2>3, ElementOfSeq
<1>2. i <= Len(arguments)
  <2>1. /\ arguments \in Seq(Tokens) /\ i \in 1 .. Len(arguments) + 1
        /\ i < Len(arguments)
    BY DEF Typed, OptionWithValue
  <2>. QED BY <2>1
<1>. USE <1>2 DEF Typed, OptionRead, OptionWithValue, Parsing, Fields, Field,
             Valid, PositiveFinite, Numbers, TakesValue, Options
<1>3. CASE arguments[i] = "--duration"
  BY <1>3
<1>4. CASE arguments[i] = "--center"
  BY <1>4
<1>5. CASE arguments[i] = "--sample-rate"
  BY <1>5
<1>6. CASE arguments[i] = "--bias-t"
  BY <1>6
<1>7. CASE arguments[i] = "--out"
  BY <1>1, <1>7
<1>. QED BY <1>3, <1>4, <1>5, <1>6, <1>7

\* and --force.
LEMMA ForceIsRead ==
  ASSUME Typed, ForceExisting
  PROVE  OptionRead
BY DEF Typed, OptionRead, ForceExisting, Parsing, Fields, Numbers, TakesValue,
       Options

\* The invariant holds one option further.
LEMMA OptionReadStep ==
  ASSUME ParserInv, OptionRead
  PROVE  ParserInv'
<1>1. /\ arguments' = arguments /\ i <= Len(arguments)
      /\ IF arguments[i] \in TakesValue THEN i < Len(arguments) /\ i' = i + 2
                                        ELSE i' = i + 1
  BY DEF OptionRead
<1>2. /\ arguments \in Seq(Tokens) /\ i \in 1 .. Len(arguments) + 1
      /\ sawDuration \in BOOLEAN /\ sawOutput \in BOOLEAN
      /\ options.force \in BOOLEAN
  BY DEF ParserInv, Typed, Fields
<1>3. i \in Int
  BY <1>2
<1>4. /\ i \in ReadAsOption /\ Before' = Before \union {i}
      /\ i' \in 1 .. Len(arguments') + 1
      /\ i' <= Len(arguments') => i' \in ReadAsOption'
  BY <1>1, PlaceAfter
<1>5. Before \subseteq Int /\ \A k \in Before : k < i
  BY <1>2, ReadAfter DEF Before
<1>6. Typed'
  BY <1>1, <1>2, <1>4 DEF Typed, OptionRead
<1>7. Accepted'
  <2>1. ASSUME NEW k \in Before
        PROVE  /\ arguments[k] \in Options
               /\ arguments[k] \in TakesValue =>
                    k + 1 < i' /\ Valid(arguments[k], arguments[k + 1])
    BY <1>1, <1>3, <1>5, <2>1 DEF ParserInv, Accepted
  <2>2. /\ arguments[i] \in Options
        /\ arguments[i] \in TakesValue =>
             i + 1 < i' /\ Valid(arguments[i], arguments[i + 1])
    BY <1>1, <1>3 DEF OptionRead
  <2>. QED BY <1>1, <1>4, <2>1, <2>2 DEF Accepted
<1>8. Held'
  <2>1. Held
    BY DEF ParserInv, OptionRead
  <2>2. /\ sawDuration' <=> Seen("--duration")'
        /\ sawOutput' <=> Seen("--out")'
        /\ options'.force <=> Seen("--force")'
    BY <1>1, <1>2, <1>4, <2>1, SeenAfter DEF Held, OptionRead
  <2>. USE <1>3, <1>5, LastAfter DEF Held, OptionRead
  <2>3. IsLast(options'.duration, "--duration", "none", arguments,
               Before \union {i})
    BY <2>1
  <2>4. IsLast(options'.center, "--center", "default", arguments,
               Before \union {i})
    BY <2>1
  <2>5. IsLast(options'.rate, "--sample-rate", "default", arguments,
               Before \union {i})
    BY <2>1
  <2>6. IsLast(options'.biasT, "--bias-t", "0", arguments,
               Before \union {i})
    BY <2>1
  <2>7. IsLast(options'.out, "--out", "none", arguments, Before \union {i})
    BY <2>1
  <2>. QED BY <1>1, <1>4, <2>2, <2>3, <2>4, <2>5, <2>6, <2>7 DEF Held
<1>9. AcceptedAsWritten'
  BY DEF AcceptedAsWritten, OptionRead
<1>. QED BY <1>4, <1>6, <1>7, <1>8, <1>9 DEF ParserInv

-----------------------------------------------------------------------------
(* The end of the loop.                                                    *)

\* What is meant does not change with what is understood.
LEMMA MeaningStays ==
  ASSUME arguments' = arguments
  PROVE  /\ ReadAsOption' = ReadAsOption /\ WantsHelp' = WantsHelp
         /\ Understood' = Understood /\ Meaning' = Meaning
         /\ Places("--out")' = Places("--out")
<1>. USE DEF ReadAsOption, Places, LastValue
<1>1. ReadAsOption' = ReadAsOption /\ WantsHelp' = WantsHelp
  BY DEF WantsHelp
<1>2. Understood' = Understood
  BY DEF Understood
<1>3. Meaning' = Meaning
  BY DEF Meaning
<1>4. Places("--out")' = Places("--out")
  OBVIOUS
<1>. QED BY <1>1, <1>2, <1>3, <1>4

\* Help and errors leave all else as it is.
LEMMA EndStep ==
  ASSUME ParserInv, End("help") \/ End("error"),
         result' = "help" => WantsHelp,
         result' = "error" =>
           ~WantsHelp /\ (Understood => Places("--out") = {})
  PROVE  ParserInv'
<1>1. /\ UNCHANGED <<arguments, i, options, sawDuration, sawOutput>>
      /\ result' \in {"help", "error"}
  BY DEF End
<1>2. Typed'
  BY <1>1 DEF ParserInv, Typed
<1>3. /\ ReadAsOption' = ReadAsOption /\ WantsHelp' = WantsHelp
      /\ Understood' = Understood /\ Places("--out")' = Places("--out")
      /\ Before' = Before
  BY <1>1, MeaningStays DEF Before
<1>4. AcceptedAsWritten'
  BY <1>1, <1>3 DEF AcceptedAsWritten
<1>5. /\ i' <= Len(arguments') => i' \in ReadAsOption'
      /\ Accepted'
  BY <1>1, <1>3 DEF ParserInv, Accepted
<1>. QED BY <1>1, <1>2, <1>4, <1>5 DEF ParserInv

\* An error while arguments remain: the one at i, which is read as an option,
\* is none, or has no valid value.
LEMMA RefusedIsMeaningless ==
  ASSUME ParserInv, i <= Len(arguments),
         \/ arguments[i] \notin Options
         \/ /\ arguments[i] \in TakesValue
            /\ i < Len(arguments) => ~Valid(arguments[i], arguments[i + 1])
  PROVE  ~Understood
<1>1. i \in ReadAsOption
  BY DEF ParserInv
<1>. QED BY <1>1 DEF Understood

\* At the end of the arguments, all options have been read.
LEMMA AllRead ==
  ASSUME ParserInv, i > Len(arguments)
  PROVE  Before = ReadAsOption /\ ReadAsOption \subseteq Int
<1>1. arguments \in Seq(Tokens) /\ i \in 1 .. Len(arguments) + 1
  BY DEF ParserInv, Typed
<1>2. Len(arguments) \in Nat
  BY <1>1
<1>3. ReadAsOption \subseteq 1 .. Len(arguments)
  BY <1>1, ReadAfter
<1>4. \A k \in 1 .. Len(arguments) : k \in Int /\ k < i
  BY <1>1, <1>2
<1>. QED BY <1>3, <1>4 DEF Before

\* The parser then holds the meaning of the command line, and reports an
\* error only for what has none.
LEMMA CompleteStep ==
  ASSUME ParserInv, NEW timestamp \in BOOLEAN, Complete(timestamp)
  PROVE  ParserInv'
<1>1. /\ result = "parsing" /\ ~WantsHelp /\ i > Len(arguments) /\ sawDuration
      /\ result' = IF sawOutput \/ timestamp THEN "success" ELSE "error"
      /\ options' = IF sawOutput \/ ~timestamp THEN options
                    ELSE [options EXCEPT !.out = "captures/default"]
      /\ UNCHANGED <<arguments, i, sawDuration, sawOutput>>
  BY DEF Complete, Parsing
<1>2. Typed /\ Held /\ sawOutput \in BOOLEAN /\ options \in Fields
  BY <1>1 DEF ParserInv, Typed
<1>3. options' \in Fields
  BY <1>1, <1>2 DEF Fields
<1>4. Typed'
  BY <1>1, <1>2, <1>3 DEF Typed
<1>5. /\ ReadAsOption' = ReadAsOption /\ WantsHelp' = WantsHelp
      /\ Understood' = Understood /\ Meaning' = Meaning
      /\ Places("--out")' = Places("--out") /\ Before' = Before
  BY <1>1, MeaningStays DEF Before
<1>6. Before = ReadAsOption /\ ReadAsOption \subseteq Int
  BY <1>1, AllRead
<1>7. ~sawOutput => Places("--out") = {}
  BY <1>2, <1>6 DEF Held, Seen, Places
<1>8. CASE sawOutput \/ timestamp
  <2>1. result' = "success"
    BY <1>1, <1>8
  <2>2. Understood
    <3>1. Places("--duration") # {}
      BY <1>1, <1>2, <1>6 DEF Held, Seen, Places
    <3>2. ASSUME NEW k \in ReadAsOption
          PROVE  /\ arguments[k] \in Options
                 /\ arguments[k] \in TakesValue =>
                      /\ k < Len(arguments)
                      /\ Valid(arguments[k], arguments[k + 1])
      <4>1. /\ arguments[k] \in Options
            /\ arguments[k] \in TakesValue =>
                 k + 1 < i /\ Valid(arguments[k], arguments[k + 1])
        BY <1>6 DEF ParserInv, Accepted
      <4>2. /\ arguments \in Seq(Tokens) /\ i \in 1 .. Len(arguments) + 1
            /\ k \in Int
        BY <1>2, <1>6 DEF Typed
      <4>. QED BY <4>1, <4>2
    <3>. QED BY <3>1, <3>2 DEF Understood
  <2>3. /\ options.duration = LastValue("--duration", "none")
        /\ options.center = LastValue("--center", "default")
        /\ options.rate = LastValue("--sample-rate", "default")
        /\ options.biasT = LastValue("--bias-t", "0")
    BY <1>2, <1>6, LastIsMeant DEF Held
  <2>4. options.force <=> Places("--force") # {}
    BY <1>2, <1>6 DEF Held, Seen, Places
  <2>5. options'.out = LastValue("--out", "captures/default")
    <3>1. CASE sawOutput
      <4>1. IsLast(options.out, "--out", "captures/default", arguments,
                   ReadAsOption)
        BY <1>2, <1>6, <3>1 DEF Held, Seen, IsLast
      <4>. QED BY <1>1, <1>6, <3>1, <4>1, LastIsMeant
    <3>2. CASE ~sawOutput
      BY <1>1, <1>2, <1>7, <1>8, <3>2 DEF LastValue, Fields
    <3>. QED BY <3>1, <3>2
  <2>6. /\ options'.duration = options.duration
        /\ options'.center = options.center /\ options'.rate = options.rate
        /\ options'.biasT = options.biasT /\ options'.force = options.force
    BY <1>1, <1>2 DEF Fields
  <2>7. options' = Meaning
    BY <1>2, <1>3, <2>3, <2>4, <2>5, <2>6 DEF Meaning, Fields
  <2>8. AcceptedAsWritten'
    BY <1>1, <1>5, <2>1, <2>2, <2>7 DEF AcceptedAsWritten
  <2>. QED BY <1>1, <1>4, <1>5, <2>1, <2>8 DEF ParserInv, Accepted
<1>9. CASE ~(sawOutput \/ timestamp)
  <2>1. result' = "error" /\ Places("--out") = {}
    BY <1>1, <1>7, <1>9
  <2>2. AcceptedAsWritten'
    BY <1>1, <1>5, <2>1 DEF AcceptedAsWritten
  <2>. QED BY <1>1, <1>4, <1>5, <2>1, <2>2 DEF ParserInv, Accepted
<1>. QED BY <1>8, <1>9

-----------------------------------------------------------------------------
(* The invariant, and what follows from it.                                *)

LEMMA InitParserInv == Init => ParserInv
<1>. SUFFICES ASSUME Init PROVE ParserInv
  OBVIOUS
<1>1. /\ arguments \in Seq(Tokens) /\ i = 1 /\ options = Defaults
      /\ result = "parsing" /\ ~sawDuration /\ ~sawOutput
      /\ sawDuration \in BOOLEAN /\ sawOutput \in BOOLEAN
  <2>1. PICK n \in 0 .. MaxArguments : arguments \in [1 .. n -> Tokens]
    BY DEF Init
  <2>2. n \in Nat
    BY ArgumentsAssumption
  <2>3. arguments \in Seq(Tokens)
    BY <2>1, <2>2
  <2>. QED BY <2>3 DEF Init
<1>2. Typed
  <2>1. Len(arguments) \in Nat
    BY <1>1
  <2>. QED BY <1>1, <2>1 DEF Typed, Fields, Defaults
<1>3. ReadAsOption \subseteq 1 .. Len(arguments) /\ Len(arguments) \in Nat
  BY <1>1, ReadAfter
<1>4. Before = {}
  <2>1. \A k \in 1 .. Len(arguments) : ~(k < 1)
    BY <1>3
  <2>. QED BY <1>1, <1>3, <2>1 DEF Before
<1>5. Held /\ Accepted
  BY <1>1, <1>4 DEF Held, Accepted, Seen, IsLast, Defaults
<1>6. AcceptedAsWritten
  BY <1>1 DEF AcceptedAsWritten
<1>7. i <= Len(arguments) => i \in ReadAsOption
  BY <1>1, ReadAfter
<1>. QED BY <1>1, <1>2, <1>5, <1>6, <1>7 DEF ParserInv

\* The parser's state is the meaning of the arguments it has gone through.
THEOREM ParserInvariance == Spec => []ParserInv
<1>1. ParserInv /\ [Next]_vars => ParserInv'
  <2>. SUFFICES ASSUME ParserInv, [Next]_vars PROVE ParserInv'
    OBVIOUS
  <2>1. CASE Help
    BY <2>1, EndStep DEF Help, End
  <2>2. CASE OptionWithValue
    BY <2>2, ValueIsRead, OptionReadStep DEF ParserInv
  <2>3. CASE ValueMissingOrInvalid
    <3>1. ~Understood
      BY <2>3, RefusedIsMeaningless DEF ValueMissingOrInvalid
    <3>. QED BY <2>3, <3>1, EndStep DEF ValueMissingOrInvalid, Parsing, End
  <2>4. CASE ForceExisting
    BY <2>4, ForceIsRead, OptionReadStep DEF ParserInv
  <2>5. CASE UnknownArgument
    <3>1. ~Understood
      BY <2>5, RefusedIsMeaningless DEF UnknownArgument
    <3>. QED BY <2>5, <3>1, EndStep DEF UnknownArgument, Parsing, End
  <2>6. CASE DurationMissing
    <3>1. Before = ReadAsOption /\ Held /\ ~sawDuration
      BY <2>6, AllRead DEF DurationMissing, Parsing, ParserInv
    <3>2. ~Understood
      BY <3>1 DEF Held, Seen, Understood, Places
    <3>. QED BY <2>6, <3>2, EndStep DEF DurationMissing, Parsing, End
  <2>7. ASSUME NEW timestamp \in BOOLEAN, Complete(timestamp)
        PROVE  ParserInv'
    BY <2>7, CompleteStep
  <2>8. CASE Returned \/ UNCHANGED vars
    <3>1. UNCHANGED vars
      BY <2>8 DEF Returned
    <3>2. /\ UNCHANGED <<arguments, i, options, sawDuration, sawOutput>>
          /\ result' = result
      BY <3>1 DEF vars
    <3>3. /\ ReadAsOption' = ReadAsOption /\ WantsHelp' = WantsHelp
          /\ Understood' = Understood /\ Meaning' = Meaning
          /\ Places("--out")' = Places("--out") /\ Before' = Before
      BY <3>2, MeaningStays DEF Before
    <3>4. Typed' /\ Accepted' /\ AcceptedAsWritten'
      BY <3>2, <3>3 DEF ParserInv, Typed, Accepted, AcceptedAsWritten
    <3>5. result' = "parsing" => Held'
      BY <3>2, <3>3 DEF ParserInv, Held, Seen
    <3>. QED BY <3>2, <3>3, <3>4, <3>5 DEF ParserInv
  <2>. QED BY <2>1, <2>2, <2>3, <2>4, <2>5, <2>6, <2>7, <2>8 DEF Next
<1>. QED BY <1>1, InitParserInv, PTL DEF Spec

\* Only values that were checked get into the options.
THEOREM OptionsTypeCorrect == Spec => []OptionsTypeOK
<1>1. ParserInv => OptionsTypeOK
  BY DEF ParserInv, Typed, Fields, OptionsTypeOK
<1>. QED BY <1>1, ParserInvariance, PTL

\* The loop understands a command line as the definition without a loop says.
THEOREM ParsedAsWritten == Spec => []AcceptedAsWritten
<1>1. ParserInv => AcceptedAsWritten
  BY DEF ParserInv
<1>. QED BY <1>1, ParserInvariance, PTL
=============================================================================
