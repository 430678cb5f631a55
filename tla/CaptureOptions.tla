--------------------------- MODULE CaptureOptions ---------------------------
(***************************************************************************)
(* parseCaptureOptions() (src/src/capture_options.cpp), one action per     *)
(* iteration of its loop.  An argument is a member of Tokens: the options, *)
(* and values that stand for the cases the parser tells apart.             *)
(***************************************************************************)
EXTENDS Integers, Sequences

CONSTANT MaxArguments   \* bound: the arguments after the program's name

ASSUME ArgumentsAssumption == MaxArguments \in Nat

\* "5" and "1" are positive finite numbers, "0" is not positive, "inf" not
\* finite (nor are numbers out of strtod's range accepted), "" is no number,
\* and neither are the options.
Numbers    == {"--duration", "--center", "--sample-rate"}
TakesValue == Numbers \union {"--out", "--bias-t"}
Options    == TakesValue \union {"--force"}
Tokens     == Options \union {"--help", "5", "1", "0", "inf", ""}

\* Faulty variant: a value that is not a finite number passes.
PositiveAnyhow(value) == value \in {"5", "1", "inf"}

\* parsePositiveFiniteDouble() returns true.
PositiveFinite(value) == value \in {"5", "1"}

Valid(option, value) ==
  CASE option \in Numbers   -> PositiveFinite(value)
    [] option = "--out"     -> value # ""
    [] option = "--bias-t"  -> value \in {"0", "1"}

VARIABLES
  arguments,                \* without the program's name
  i,                        \* the next argument
  options,                  \* what has been understood so far
  sawDuration, sawOutput,
  result                    \* "parsing", "success", "help" or "error"

vars == <<arguments, i, options, sawDuration, sawOutput, result>>

Defaults == [duration |-> "none", center |-> "default", rate |-> "default",
             biasT |-> "0", force |-> FALSE, out |-> "none"]

Init ==
  /\ arguments \in UNION {[1 .. n -> Tokens] : n \in 0 .. MaxArguments}
  /\ i = 1 /\ options = Defaults
  /\ sawDuration = FALSE /\ sawOutput = FALSE
  /\ result = "parsing"

Field(option) ==
  CASE option = "--duration"    -> "duration"
    [] option = "--center"      -> "center"
    [] option = "--sample-rate" -> "rate"
    [] option = "--out"         -> "out"
    [] option = "--bias-t"      -> "biasT"

WantsHelp == \E k \in DOMAIN arguments : arguments[k] = "--help"
Parsing   == result = "parsing" /\ ~WantsHelp

End(outcome) ==
  /\ result' = outcome
  /\ UNCHANGED <<arguments, i, options, sawDuration, sawOutput>>

-----------------------------------------------------------------------------
(* Faulty variant, not part of Next.                                       *)

\* An option is not taken as the value of the one before it.
ValueUnlessOption ==
  /\ Parsing /\ i < Len(arguments)
  /\ arguments[i] \in TakesValue /\ Valid(arguments[i], arguments[i + 1])
  /\ options' = [options EXCEPT ![Field(arguments[i])] = arguments[i + 1]]
  /\ sawDuration' = (sawDuration \/ arguments[i] = "--duration")
  /\ sawOutput' = (sawOutput \/ arguments[i] = "--out")
  /\ i' = IF arguments[i + 1] \in Options THEN i + 1 ELSE i + 2
  /\ UNCHANGED <<arguments, result>>

-----------------------------------------------------------------------------

\* A request for help anywhere comes before everything else.
Help == result = "parsing" /\ WantsHelp /\ End("help")

\* Whatever follows such an option is its value; the last one counts.
OptionWithValue ==
  /\ Parsing /\ i < Len(arguments)
  /\ arguments[i] \in TakesValue /\ Valid(arguments[i], arguments[i + 1])
  /\ options' = [options EXCEPT ![Field(arguments[i])] = arguments[i + 1]]
  /\ sawDuration' = (sawDuration \/ arguments[i] = "--duration")
  /\ sawOutput' = (sawOutput \/ arguments[i] = "--out")
  /\ i' = i + 2
  /\ UNCHANGED <<arguments, result>>

ValueMissingOrInvalid ==
  /\ Parsing /\ i <= Len(arguments) /\ arguments[i] \in TakesValue
  /\ i < Len(arguments) => ~Valid(arguments[i], arguments[i + 1])
  /\ End("error")

ForceExisting ==
  /\ Parsing /\ i <= Len(arguments) /\ arguments[i] = "--force"
  /\ options' = [options EXCEPT !.force = TRUE]
  /\ i' = i + 1
  /\ UNCHANGED <<arguments, sawDuration, sawOutput, result>>

UnknownArgument ==
  /\ Parsing /\ i <= Len(arguments) /\ arguments[i] \notin Options
  /\ End("error")

DurationMissing ==
  /\ Parsing /\ i > Len(arguments) /\ ~sawDuration
  /\ End("error")

\* Without --out the path is made of the time, which may be unavailable.
Complete(timestamp) ==
  /\ Parsing /\ i > Len(arguments) /\ sawDuration
  /\ result' = IF sawOutput \/ timestamp THEN "success" ELSE "error"
  /\ options' = IF sawOutput \/ ~timestamp THEN options
                ELSE [options EXCEPT !.out = "captures/default"]
  /\ UNCHANGED <<arguments, i, sawDuration, sawOutput>>

Returned == result # "parsing" /\ UNCHANGED vars

Next ==
  \/ Help \/ OptionWithValue \/ ValueMissingOrInvalid \/ ForceExisting
  \/ UnknownArgument \/ DurationMissing \/ Returned
  \/ \E timestamp \in BOOLEAN : Complete(timestamp)

Spec == Init /\ [][Next]_vars

-----------------------------------------------------------------------------
(* The meaning of a command line, without a loop: which arguments are read *)
(* as options follows from the place, and the last value of each counts.   *)

ReadAsOption ==
  LET read[k \in DOMAIN arguments] ==
        \/ k = 1
        \/ read[k - 1] /\ arguments[k - 1] \notin TakesValue
        \/ k > 2 /\ read[k - 2] /\ arguments[k - 2] \in TakesValue
  IN {k \in DOMAIN arguments : read[k]}

Places(option) == {k \in ReadAsOption : arguments[k] = option}

LastValue(option, otherwise) ==
  IF Places(option) = {} THEN otherwise
  ELSE arguments[1 + CHOOSE k \in Places(option) :
                       \A other \in Places(option) : other <= k]

Understood ==
  /\ \A k \in ReadAsOption :
       /\ arguments[k] \in Options
       /\ arguments[k] \in TakesValue =>
            k < Len(arguments) /\ Valid(arguments[k], arguments[k + 1])
  /\ Places("--duration") # {}

Meaning == [duration |-> LastValue("--duration", "none"),
            center   |-> LastValue("--center", "default"),
            rate     |-> LastValue("--sample-rate", "default"),
            biasT    |-> LastValue("--bias-t", "0"),
            force    |-> Places("--force") # {},
            out      |-> LastValue("--out", "captures/default")]

-----------------------------------------------------------------------------
(* Properties.                                                             *)

OptionsTypeOK ==
  /\ i \in 1 .. Len(arguments) + 1
  /\ result \in {"parsing", "success", "help", "error"}
  /\ options.duration \in {"5", "1"} \union {"none"}
  /\ options.center \in {"5", "1", "default"}
  /\ options.rate \in {"5", "1", "default"}
  /\ options.biasT \in {"0", "1"} /\ options.force \in BOOLEAN
  /\ options.out \in (Tokens \ {""}) \union {"none", "captures/default"}

\* The parser accepts exactly the command lines that have a meaning and
\* returns that meaning: antenna power is on only if the last --bias-t says
\* so, an existing file may be replaced only if --force is an argument of its
\* own and not, say, the value of --out, and help prevails over both.
AcceptedAsWritten ==
  /\ result = "help" => WantsHelp
  /\ result = "success" => ~WantsHelp /\ Understood /\ options = Meaning
  /\ result = "error" =>
       ~WantsHelp /\ (Understood => Places("--out") = {})
=============================================================================
