------------------------------- MODULE Capture -------------------------------
(***************************************************************************)
(* runCapture() and streamCallback() (src/src/rsp1b_capture.cpp): one      *)
(* capture, composed of the receiver session (the variables of             *)
(* DeviceSession, which this module extends), an IQ writer of which only   *)
(* the promise OrderedRecording is used, and the stop signal               *)
(* (src/src/signal_stop.cpp).  Four threads meet here: the application,    *)
(* the writer, and the service's stream and event callbacks; a signal may  *)
(* arrive at any point.  What happens to the files is in OutputFiles.      *)
(***************************************************************************)
EXTENDS DeviceSession, FiniteSets, Sequences

CONSTANTS
  MaxDeliveries,   \* bound: sample blocks; the n-th call brings block n
  MaxFailures      \* bound: how many of the API's functions ever fail

ASSUME CaptureAssumption == MaxDeliveries \in Nat /\ MaxFailures \in Nat

VARIABLES
  log, recording, lost, accepting, writerFailure, verdict,  \* the IQ writer
  step,          \* where the application thread is in runCapture()
  signal,        \* signalStopRequested(); a signal after the last look at
                 \* it makes no difference and is left out
  interrupted, committed,
  thrown,        \* an exception left runCapture() before finish() was called
  succeeded,     \* the exit status, when the program returns, is zero
  writerExists,  \* the writer was created
  writerSet,     \* CaptureStreamState::writer is not null
  alive,         \* events, capture and callbackContext exist
  delivering,    \* the block in streamCallback(), which has read the pointer
  delivered,     \* history: how many blocks the service delivered
  callbackFailure, overflow   \* CaptureStreamState, WriterStatistics

W == INSTANCE OrderedRecording
       WITH Blocks <- 1 .. MaxDeliveries, open <- accepting,
            failed <- writerFailure

writerVars  == <<log, recording, lost, accepting, writerFailure, verdict>>
outcome     == <<interrupted, committed, thrown, succeeded>>
objects     == <<writerExists, writerSet, alive>>
stream      == <<delivering, delivered, callbackFailure, overflow>>
own         == <<writerVars, signal, outcome, objects, stream>>
captureVars == <<vars, own, step>>

CaptureInit ==
  /\ Init
  /\ log = <<>> /\ recording = <<>> /\ lost = 0
  /\ accepting = TRUE /\ writerFailure = FALSE /\ verdict = "none"
  /\ step = "connect" /\ signal = FALSE
  /\ interrupted = FALSE /\ committed = FALSE
  /\ thrown = FALSE /\ succeeded = FALSE
  /\ writerExists = FALSE /\ writerSet = FALSE /\ alive = TRUE
  /\ delivering = <<>> /\ delivered = 0
  /\ callbackFailure = FALSE /\ overflow = FALSE

\* The program sets the flag that ends the loop; DeviceSession knows it too.
RequestStop ==
  /\ stopRequested' = TRUE
  /\ UNCHANGED <<apiVars, flags, params, control, contextSession, callback,
                 deviceRemoved, overloads, ackFailures, acknowledged>>

\* The application thread goes on when no session operation is under way.
Go(from, to) == step = from /\ at = "client" /\ step' = to

-----------------------------------------------------------------------------
(* Faulty variants, none of them part of CaptureNext.                      *)

\* The loop does not look at stopRequested.
StopSeenOnlyWithSignal ==
  /\ Go("stream", "look") /\ stopRequested /\ signal
  /\ UNCHANGED <<vars, own>>

\* The loop does not look at the signal.
SignalSeenOnlyWithStop ==
  /\ Go("stream", "look") /\ stopRequested /\ signal
  /\ interrupted' = TRUE /\ RequestStop
  /\ UNCHANGED <<writerVars, signal, committed, thrown, succeeded, objects,
                 stream>>

\* There is no second look at the signal after the loop.
LookAway ==
  /\ Go("look", "stop")
  /\ UNCHANGED <<vars, own>>

\* The writer is drained before the receiver is stopped.
LookAndDrain ==
  /\ Go("look", "detach")
  /\ interrupted' = (interrupted \/ signal)
  /\ UNCHANGED <<vars, writerVars, signal, committed, thrown, succeeded,
                 objects, stream>>

\* The statistics are read without waiting for the writer.
DetachAndReport ==
  /\ Go("detach", IF committed THEN "report" ELSE "finish")
  /\ writerSet' = FALSE
  /\ UNCHANGED <<vars, writerVars, signal, outcome, writerExists, alive,
                 stream>>

\* callbackFailure does not count.
ReportIgnoringCallback ==
  /\ Go("report", "metadata")
  /\ succeeded' = (clean /\ verdict = "ok" /\ ~overflow /\ ~writerFailure
                    /\ ~interrupted /\ ~deviceRemoved /\ ackFailures = 0)
  /\ UNCHANGED <<vars, writerVars, signal, interrupted, committed, thrown,
                 objects, stream>>

\* A failed start leaves the writer to its destructor.
InitialiseFailedOnly ==
  /\ Go("initialising", IF deviceInitialised THEN "commit" ELSE "leave")
  /\ UNCHANGED <<vars, own>>

\* The objects the callbacks use are declared after the session.
LeaveObjectsFirst ==
  /\ step = "leave" /\ Destroy /\ step' = "unwind" /\ alive' = FALSE
  /\ UNCHANGED <<writerVars, signal, outcome, writerExists, writerSet, stream>>

\* A block that was refused may be offered again.
CallbackRetries ==
  /\ delivering # <<>> /\ alive /\ step # "crashed"
  /\ delivering' \in {<<>>, delivering}
  /\ UNCHANGED <<step, signal, outcome, objects, delivered>>

-----------------------------------------------------------------------------
(* Startup.                                                                *)

ConnectReceiver ==
  /\ Go("connect", "connected") /\ Connect
  /\ UNCHANGED own

\* connect() succeeded exactly when the parameters are complete.
Connected ==
  /\ Go("connected", IF deviceParams = "complete" /\ ~signal
                       THEN "configure" ELSE "leave")
  /\ UNCHANGED <<vars, own>>

ConfigureReceiver(biasT) ==
  /\ Go("configure", "configured") /\ Configure(biasT)
  /\ UNCHANGED own

Configured ==
  /\ Go("configured", IF signal THEN "leave" ELSE "open")
  /\ UNCHANGED <<vars, own>>

\* preserve() and openFile(); either may fail.
OpenWriter(ok) ==
  /\ Go("open", IF ok THEN "opened" ELSE "leave")
  /\ writerExists' = ok /\ writerSet' = ok
  /\ UNCHANGED <<vars, writerVars, signal, outcome, alive, stream>>

Opened ==
  /\ Go("opened", IF signal THEN "detach" ELSE "initialise")
  /\ UNCHANGED <<vars, own>>

InitialiseReceiver ==
  /\ Go("initialise", "initialising") /\ Initialise
  /\ UNCHANGED own

Initialised ==
  /\ Go("initialising", IF deviceInitialised THEN "commit" ELSE "detach")
  /\ UNCHANGED <<vars, own>>

\* The rollback's commit(); if it fails, the stream is stopped at once.
CommitOutput(ok) ==
  /\ Go("commit", IF ok THEN "stream" ELSE "stop")
  /\ committed' = ok
  /\ IF ok THEN UNCHANGED vars ELSE RequestStop
  /\ UNCHANGED <<writerVars, signal, interrupted, thrown, succeeded, objects,
                 stream>>

-----------------------------------------------------------------------------
(* The loop, and the way down.                                             *)

StopSeen ==
  /\ Go("stream", "look") /\ stopRequested
  /\ UNCHANGED <<vars, own>>

\* The duration is not part of the model: it may be over at any time.
DurationOver ==
  /\ Go("stream", "look")
  /\ UNCHANGED <<vars, own>>

SignalSeen ==
  /\ Go("stream", "look") /\ ~stopRequested /\ signal
  /\ interrupted' = TRUE /\ RequestStop
  /\ UNCHANGED <<writerVars, signal, committed, thrown, succeeded, objects,
                 stream>>

LookAgain ==
  /\ Go("look", "stop")
  /\ interrupted' = (interrupted \/ signal)
  /\ UNCHANGED <<vars, writerVars, signal, committed, thrown, succeeded,
                 objects, stream>>

StopReceiver ==
  /\ Go("stop", "shutdown") /\ StopStreaming
  /\ UNCHANGED own

ShutdownReceiver ==
  /\ Go("shutdown", "forget") /\ Shutdown
  /\ UNCHANGED own

ForgetReceiver ==
  /\ Go("forget", "detach") /\ ForgetSession
  /\ UNCHANGED own

Detach ==
  /\ Go("detach", "finish")
  /\ writerSet' = FALSE
  /\ UNCHANGED <<vars, writerVars, signal, outcome, writerExists, alive,
                 stream>>

\* IqWriter::finish() closes the queue and then waits for the writer thread.
FinishWriter ==
  /\ Go("finish", "join")
  /\ IF accepting THEN W!Close ELSE UNCHANGED writerVars
  /\ UNCHANGED <<vars, signal, outcome, objects, stream>>

JoinWriter ==
  /\ Go("join", IF ~alive THEN "exited"
                ELSE IF committed THEN "report" ELSE "leave")
  /\ W!Conclude
  /\ UNCHANGED <<vars, signal, outcome, objects, stream>>

\* The statistics are read, and everything that went wrong is a failure.
Report ==
  /\ Go("report", "metadata")
  /\ succeeded' = (clean /\ verdict = "ok" /\ ~callbackFailure /\ ~overflow
                    /\ ~writerFailure /\ ~interrupted /\ ~deviceRemoved
                    /\ ackFailures = 0)
  /\ UNCHANGED <<vars, writerVars, signal, interrupted, committed, thrown,
                 objects, stream>>

\* The timestamp and the companion file.
WriteMetadata(ok) ==
  /\ Go("metadata", "leave")
  /\ succeeded' = (succeeded /\ ok)
  /\ UNCHANGED <<vars, writerVars, signal, interrupted, committed, thrown,
                 objects, stream>>

\* Whatever allocates a string between two operations may throw.
Throw ==
  /\ step \in {"connected", "configured", "open", "opened", "commit", "stop",
               "report", "metadata"}
  /\ Go(step, "leave")
  /\ thrown' = (writerExists /\ verdict = "none") /\ succeeded' = FALSE
  /\ UNCHANGED <<vars, writerVars, signal, interrupted, committed, objects,
                 stream>>

\* Locals are destroyed in reverse order: the session first, the callbacks'
\* objects next, and the writer, whose destructor calls finish(), last.
Leave ==
  /\ Go("leave", "unwind") /\ Destroy
  /\ UNCHANGED own

DestroyObjects ==
  /\ Go("unwind", IF writerExists /\ verdict = "none"
                    THEN "finish" ELSE "exited")
  /\ alive' = FALSE
  /\ UNCHANGED <<vars, writerVars, signal, outcome, writerExists, writerSet,
                 stream>>

\* Inside a session operation.  Uninit waits for the stream callback, too.
SessionStep ==
  /\ Proceed /\ step # "crashed" /\ Cardinality(failed') <= MaxFailures
  /\ service.streaming /\ ~service'.streaming => delivering = <<>>
  /\ UNCHANGED <<own, step>>

\* The application thread, apart from what is decided outside the program.
Application ==
  \/ ConnectReceiver \/ Connected \/ Configured \/ Opened
  \/ InitialiseReceiver \/ Initialised \/ StopSeen \/ SignalSeen \/ LookAgain
  \/ StopReceiver \/ ShutdownReceiver \/ ForgetReceiver \/ Detach
  \/ FinishWriter \/ JoinWriter \/ Report \/ Leave \/ DestroyObjects
  \/ SessionStep
  \/ \E biasT \in BOOLEAN : ConfigureReceiver(biasT)
  \/ \E ok \in BOOLEAN : OpenWriter(ok) \/ CommitOutput(ok)
                          \/ WriteMetadata(ok)

-----------------------------------------------------------------------------
(* The other threads.  What a callback does after its objects are gone is  *)
(* undefined and not modelled.                                             *)

CallbacksRun == service.streaming /\ alive /\ step # "crashed"

\* Input that is invalid is dropped: so is any input without a writer.
StreamCallback(valid) ==
  /\ CallbacksRun /\ delivering = <<>> /\ delivered < MaxDeliveries
  /\ delivered' = delivered + 1
  /\ IF valid /\ writerSet
       THEN /\ delivering' = <<delivered + 1>>
            /\ UNCHANGED <<vars, callbackFailure>>
       ELSE /\ callbackFailure' = TRUE /\ RequestStop
            /\ UNCHANGED delivering
  /\ UNCHANGED <<writerVars, step, signal, outcome, objects, overflow>>

CallbackReturns ==
  /\ delivering # <<>> /\ alive /\ step # "crashed"
  /\ delivering' = <<>>
  /\ UNCHANGED <<step, signal, outcome, objects, delivered>>

EnqueueAccepted ==
  /\ CallbackReturns /\ W!Accept(delivering[1])
  /\ UNCHANGED <<vars, callbackFailure, overflow>>

\* The queue is full, or the writer closed; the refusal itself may throw.
EnqueueRefused ==
  /\ CallbackReturns /\ W!Refuse /\ RequestStop
  /\ overflow' = (overflow \/ accepting)
  /\ callbackFailure' \in {callbackFailure, callbackFailure \/ accepting}

\* The block cannot be allocated, or not be appended to the queue.
EnqueueThrows ==
  /\ CallbackReturns /\ RequestStop
  /\ callbackFailure' = TRUE
  /\ UNCHANGED <<writerVars, overflow>>

Enqueue == EnqueueAccepted \/ EnqueueRefused \/ EnqueueThrows

\* The pointer is read twice; it may have been set to null in between.
EnqueueNull ==
  /\ delivering # <<>> /\ alive /\ ~writerSet /\ step # "exited"
  /\ step' = "crashed"
  /\ UNCHANGED <<vars, own>>

EventCallbackRuns ==
  /\ EventCallback /\ alive /\ step # "crashed"
  /\ Cardinality(failed') <= MaxFailures
  /\ UNCHANGED <<own, step>>

WriterRecords ==
  /\ writerExists /\ step # "crashed" /\ W!Record
  /\ UNCHANGED <<vars, step, signal, outcome, objects, stream>>

\* A write fails, or the flush after the last one.
WriterFails ==
  /\ writerExists /\ step # "crashed" /\ W!Fail
  /\ Len(recording) < Len(log) \/ ~accepting
  /\ IF alive THEN RequestStop ELSE UNCHANGED vars
  /\ UNCHANGED <<step, signal, outcome, objects, stream>>

SignalArrives ==
  /\ ~signal
  /\ step \in {"connect", "connected", "configure", "configured", "open",
               "opened", "initialise", "initialising", "commit", "stream",
               "look"}
  /\ signal' = TRUE
  /\ UNCHANGED <<vars, writerVars, step, outcome, objects, stream>>

CaptureDone ==
  /\ step \in {"exited", "crashed"}
  /\ UNCHANGED captureVars

CaptureNext ==
  \/ Application \/ DurationOver \/ Throw
  \/ Enqueue \/ EnqueueNull
  \/ EventCallbackRuns \/ WriterRecords \/ WriterFails \/ SignalArrives
  \/ CaptureDone
  \/ \E valid \in BOOLEAN : StreamCallback(valid)

CaptureSpec == CaptureInit /\ [][CaptureNext]_captureVars

\* An event callback that has begun to answer an overload goes on.
AnswerOverload ==
  /\ CheckSelected \/ RecordAckFailure \/ \E ok \in BOOLEAN : Acknowledge(ok)
  /\ alive /\ step # "crashed" /\ Cardinality(failed') <= MaxFailures
  /\ UNCHANGED <<own, step>>

\* The program's two threads run, and a callback that was called goes on.  The
\* service need not call one: it may never deliver a block or an event.
FairCaptureSpec ==
  /\ CaptureSpec
  /\ WF_captureVars(Application) /\ WF_captureVars(WriterRecords)
  /\ WF_captureVars(Enqueue) /\ WF_captureVars(AnswerOverload)

-----------------------------------------------------------------------------
(* Properties.                                                             *)

CaptureTypeOK ==
  /\ TypeOK
  /\ log \in Seq(1 .. MaxDeliveries) /\ recording \in Seq(1 .. MaxDeliveries)
  /\ lost \in 0 .. delivered
  /\ accepting \in BOOLEAN /\ writerFailure \in BOOLEAN
  /\ verdict \in {"none", "ok", "failed"}
  /\ step \in {"connect", "connected", "configure", "configured", "open",
               "opened", "initialise", "initialising", "commit", "stream",
               "look", "stop", "shutdown", "forget", "detach", "finish",
               "join", "report", "metadata", "leave", "unwind", "exited",
               "crashed"}
  /\ signal \in BOOLEAN
  /\ interrupted \in BOOLEAN /\ committed \in BOOLEAN /\ thrown \in BOOLEAN
  /\ succeeded \in BOOLEAN /\ writerExists \in BOOLEAN
  /\ writerSet \in BOOLEAN /\ alive \in BOOLEAN
  /\ delivering \in {<<>>} \union {<<n>> : n \in 1 .. MaxDeliveries}
  /\ delivered \in 0 .. MaxDeliveries
  /\ callbackFailure \in BOOLEAN /\ overflow \in BOOLEAN

ExitedZero == step = "exited" /\ succeeded

\* Exit status zero is a promise about the whole run: every block the service
\* delivered is in the recording, in order, the receiver was there to the end
\* and every overload acknowledged, and the service holds nothing any more,
\* the antenna port being without power.
ExitTellsTheTruth ==
  ExitedZero =>
    /\ recording = [n \in 1 .. delivered |-> n] /\ lost = 0
    /\ ~deviceRemoved /\ acknowledged = overloads
    /\ service = Idle

\* A signal that arrives before the last look, however late in the loop or
\* early in the startup, makes the exit status nonzero (README.md:200-201).
InterruptionReported == signal => ~ExitedZero

\* A callback finds the objects it uses: the writer it is about to feed, and
\* the structures in runCapture()'s frame.  A failed Uninit ends that.
CallbackFindsItsObjects ==
  "Uninit" \notin failed =>
    /\ service.streaming => alive
    /\ delivering # <<>> => alive /\ writerSet /\ service.streaming

\* As long as the writer thread runs, the stop flag it may set is there,
\* although it is destroyed before the writer: no return leaves before
\* finish().  Only an exception does (rsp1b_capture.cpp:163).
StopFlagOutlivesWriter ==
  writerExists /\ verdict = "none" => alive \/ thrown

\* What was reported stays true: nothing is delivered, recorded, lost or
\* noted once the statistics have been read.  A failed Uninit ends that.
reported == <<delivered, log, recording, lost, callbackFailure, overflow,
              writerFailure, deviceRemoved, overloads, ackFailures>>

Reported == /\ step \in {"metadata", "leave", "unwind", "exited"}
            /\ committed /\ ~thrown /\ "Uninit" \notin failed

StatisticsFinal == [][Reported => UNCHANGED reported]_captureVars

\* A block that enqueue() refuses, or accepts and gives up, is told of by the
\* writer's statistics, on which the exit status relies: they say nothing of
\* EnqueueResult::closed, which a callback gets that outlives finish().  None
\* does, since the stream was stopped before, on whichever way finish() was
\* reached.  A failed Uninit ends that.
LossIsTold == lost > 0 /\ "Uninit" \notin failed => writerFailure \/ overflow

\* A stop request, whoever makes it, and a signal end a running capture, even
\* if the service delivers nothing any more and its duration is never over.
StopEndsCapture ==
  (step = "stream" /\ (stopRequested \/ signal))
    ~> step \in {"exited", "crashed"}

\* README.md:198-200 says of an interrupted capture that the writer is drained
\* and closed, and the metadata written, before the receiver is released;
\* runCapture() shuts the session down first.
DrainedBeforeRelease ==
  interrupted /\ ~thrown /\ ~service.selected => verdict # "none"
=============================================================================
