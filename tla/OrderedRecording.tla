-------------------------- MODULE OrderedRecording --------------------------
(***************************************************************************)
(* What an IQ writer promises to the code that feeds it, whatever threads, *)
(* queues and streams it uses inside: README.md:230-235 of the repository. *)
(* Blocks enter a log in the order in which they are accepted, the         *)
(* recording is always a prefix of that log, every block that is offered   *)
(* and does not reach the recording is counted as lost exactly once, and   *)
(* the final verdict is favourable only for a complete recording.          *)
(***************************************************************************)
EXTENDS Integers, Sequences

CONSTANT Blocks   \* what can be recorded

VARIABLES
  log,        \* the blocks accepted so far, in order
  recording,  \* the blocks recorded so far, in order
  lost,       \* how many offered blocks will never be recorded
  open,       \* may the next block still be accepted?
  failed,     \* has the recording failed?
  verdict     \* what the client was told when the recording ended

vars == <<log, recording, lost, open, failed, verdict>>

\* A writer that is given no stream or no queue space is born failed.
Init ==
  /\ log = <<>> /\ recording = <<>> /\ lost = 0
  /\ open \in BOOLEAN /\ failed = ~open
  /\ verdict = "none"

Accept(b) ==
  /\ open
  /\ log' = Append(log, b)
  /\ UNCHANGED <<recording, lost, open, failed, verdict>>

\* A refusal is never silent: it is counted, and it ends the recording.
Refuse ==
  /\ lost' = lost + 1 /\ open' = FALSE
  /\ UNCHANGED <<log, recording, failed, verdict>>

\* The next block recorded is the oldest one that is still missing.
Record ==
  /\ ~failed /\ verdict = "none" /\ Len(recording) < Len(log)
  /\ recording' = Append(recording, log[Len(recording) + 1])
  /\ UNCHANGED <<log, lost, open, failed, verdict>>

Close ==
  /\ open /\ open' = FALSE
  /\ UNCHANGED <<log, recording, lost, failed, verdict>>

\* A failure gives up every accepted block that was not recorded yet.
Fail ==
  /\ ~failed /\ verdict = "none"
  /\ failed' = TRUE /\ open' = FALSE
  /\ lost' = lost + (Len(log) - Len(recording))
  /\ UNCHANGED <<log, recording, verdict>>

Conclude ==
  /\ ~open /\ (failed \/ recording = log)
  /\ verdict' = IF failed THEN "failed" ELSE "ok"
  /\ UNCHANGED <<log, recording, lost, open, failed>>

Next ==
  \/ \E b \in Blocks : Accept(b)
  \/ Refuse \/ Record \/ Close \/ Fail \/ Conclude

Spec == Init /\ [][Next]_vars
=============================================================================
