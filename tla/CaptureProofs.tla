---------------------------- MODULE CaptureProofs ----------------------------
(***************************************************************************)
(* Proofs about Capture, for any number of blocks and overload events and  *)
(* any failing calls.  The first part shows that a capture uses session    *)
(* and writer as they may be used, so that SessionInv holds in it; on that *)
(* the invariant of the capture itself rests, which relates the place of   *)
(* the application thread to the session, the writer and the callbacks.    *)
(***************************************************************************)
EXTENDS Capture, DeviceSessionProofs, SequenceTheorems

-----------------------------------------------------------------------------
(* What can be said without looking at the session.                        *)

\* Each block delivered is in the log, lost, in the callback, or none of it.
Blocks == 1 .. MaxDeliveries

Counted ==
  /\ delivered \in 0 .. MaxDeliveries
  /\ delivering \in {<<>>} \union {<<n>> : n \in Blocks}
  /\ log \in Seq(Blocks) /\ recording \in Seq(Blocks) /\ lost \in Nat
  /\ Len(recording) <= Len(log)
  /\ lost + Len(recording) + Len(delivering) <= delivered
  /\ ~writerFailure => lost + Len(log) + Len(delivering) <= delivered
  /\ writerFailure => ~accepting

-----------------------------------------------------------------------------
(* The inductive invariant.                                                *)

Early  == {"connect", "connected", "configure", "configured", "open"}
Before == Early \union {"opened", "initialise", "initialising", "commit"}
After  == {"report", "metadata", "leave", "unwind", "exited", "crashed"}

\* Where the session is, seen from a place in runCapture().
Where ==
  /\ step = "connect" => life = "new"
  /\ step = "connected" =>
       life = "used" /\ at \in Connecting \union {"client"}
  /\ step \in {"configure", "configured", "open", "opened", "initialise",
               "commit", "stream", "look", "stop"} =>
       life = "used" /\ at = "client"
  /\ step = "initialising" =>
       life = "used" /\ at \in {"init", "initialised", "client"}
  /\ step = "shutdown" =>
       life = "used" /\ (at = "client" \/ (at \in Ending /\ op = "stop"))
  /\ step = "forget" =>
       \/ at = "client" /\ life = "shut"
       \/ at \in Ending /\ op = "shutdown" /\ life = "used"
  /\ step \in {"detach", "report", "metadata", "leave"} =>
       at = "client" /\ life \in {"used", "shut"}
  /\ step \in {"finish", "join"} =>
       at = "client" /\ (alive => life \in {"used", "shut"})
  /\ step = "unwind" => life \in {"dying", "destroyed"}
  /\ step = "exited" => life = "destroyed" /\ ~alive
  /\ ~alive => life = "destroyed" /\ step \in {"finish", "join", "exited"}

\* Places where the session is known to be over, or not to have begun.
Stopped ==
  /\ step \in Early \union {"opened", "initialise", "detach", "finish",
                            "join", "report", "metadata"} =>
       ~deviceInitialised
  /\ step \in {"leave", "unwind"} /\ ~thrown => ~deviceInitialised
  /\ step \in {"detach", "finish", "join", "report", "metadata", "leave"}
       /\ committed /\ ~thrown => life = "shut"

\* The writer and the verdict about the recording.
Writer ==
  /\ step \in Early =>
       ~writerExists /\ ~writerSet /\ accepting /\ delivering = <<>>
  /\ step \in {"opened", "initialise", "initialising", "commit", "stream",
               "look", "stop", "shutdown", "forget", "detach", "finish",
               "join", "report", "metadata"} => writerExists
  /\ committed => writerExists
  /\ step \notin After => verdict = "none"
  /\ step \in {"report", "metadata"} => verdict # "none"
  /\ writerExists /\ verdict = "none" =>
       thrown \/ (alive /\ step \notin {"leave", "unwind"})
  /\ step \in {"finish", "join"} /\ alive => ~writerSet /\ ~thrown
  /\ step \notin {"finish", "join", "leave", "unwind", "exited", "crashed"} =>
       ~thrown
  /\ verdict = "ok" => recording = log /\ ~accepting /\ ~writerFailure
  /\ ~accepting => overflow \/ writerFailure \/ ~writerSet \/ ~alive

\* A callback that is under way has its objects, and the stream.
InCallback ==
  delivering # <<>> /\ "Uninit" \notin failed =>
    alive /\ writerSet /\ service.streaming

\* A signal that came in time will not have come in vain.
Signal ==
  /\ step \in Before => ~committed
  /\ step \in {"report", "metadata"} => committed
  /\ committed /\ signal /\ step \notin {"stream", "look", "crashed"} =>
       interrupted

\* Nothing is missing, or a flag tells.
UpTo(n) == [k \in 1 .. n |-> k]

Complete ==
  \/ callbackFailure \/ overflow \/ writerFailure \/ "Uninit" \in failed
  \/ /\ lost = 0
     /\ \/ delivering = <<>> /\ log = UpTo(delivered)
        \/ /\ delivering = <<delivered>> /\ delivered > 0
           /\ log = UpTo(delivered - 1)

\* Success is reported of a session that is over and a recording complete.
Success ==
  succeeded =>
    /\ step \in {"metadata", "leave", "unwind", "exited"}
    /\ committed /\ ~thrown /\ ~signal
    /\ verdict = "ok" /\ ~callbackFailure /\ ~overflow
    /\ ~deviceRemoved /\ ackFailures = 0
    /\ ~apiOpen /\ ~apiLocked /\ ~deviceSelected /\ ~deviceInitialised
    /\ service = Idle /\ clean /\ (at \in Ending => success)

CaptureInv ==
  /\ Where /\ Stopped /\ Writer /\ InCallback /\ Signal /\ Complete
  /\ UninitReported /\ Success

\* The flags, and the places in runCapture().
WriterTyped ==
  /\ accepting \in BOOLEAN /\ writerFailure \in BOOLEAN
  /\ verdict \in {"none", "ok", "failed"}

PlaceTyped ==
  step \in {"connect", "connected", "configure", "configured", "open",
            "opened", "initialise", "initialising", "commit", "stream",
            "look", "stop", "shutdown", "forget", "detach", "finish",
            "join", "report", "metadata", "leave", "unwind", "exited",
            "crashed"}

OutcomeTyped ==
  /\ signal \in BOOLEAN
  /\ interrupted \in BOOLEAN /\ committed \in BOOLEAN /\ thrown \in BOOLEAN
  /\ succeeded \in BOOLEAN

ObjectsTyped ==
  /\ writerExists \in BOOLEAN /\ writerSet \in BOOLEAN /\ alive \in BOOLEAN
  /\ callbackFailure \in BOOLEAN /\ overflow \in BOOLEAN

OwnTyped == WriterTyped /\ PlaceTyped /\ OutcomeTyped /\ ObjectsTyped

-----------------------------------------------------------------------------
(* The capture uses its components as they may be used.                    *)

LEMMA CountedStep ==
  ASSUME Counted, [CaptureNext]_captureVars
  PROVE  Counted'
<1>1. CASE UNCHANGED <<log, recording, lost, writerFailure, delivering,
                       delivered>> /\ (accepting' => accepting)
  BY <1>1 DEF Counted
<1>2. ASSUME NEW valid \in BOOLEAN, StreamCallback(valid)
      PROVE  Counted'
  <2>1. /\ delivering = <<>> /\ delivered' = delivered + 1
        /\ delivered < MaxDeliveries
        /\ delivering' = <<delivered + 1>> \/ delivering' = <<>>
        /\ log' = log /\ recording' = recording /\ lost' = lost
        /\ writerFailure' = writerFailure /\ accepting' = accepting
    BY <1>2 DEF StreamCallback, writerVars
  <2>2. /\ delivered + 1 \in Blocks /\ delivered + 1 \in 0 .. MaxDeliveries
        /\ delivered \in Nat
    BY <2>1, CaptureAssumption DEF Counted, Blocks
  <2>3. /\ Len(delivering) = 0 /\ Len(delivering') \in {0, 1}
        /\ delivering' \in {<<>>} \union {<<n>> : n \in Blocks}
    BY <2>1, <2>2
  <2>4. Len(log) \in Nat /\ Len(recording) \in Nat /\ lost \in Nat
    BY DEF Counted
  <2>5. /\ lost + Len(recording) + Len(delivering) <= delivered
        /\ ~writerFailure => lost + Len(log) + Len(delivering) <= delivered
    BY DEF Counted
  <2>6. \A a, b \in Nat : a + b + 0 <= delivered =>
          \A c \in {0, 1} : a + b + c <= delivered + 1
    BY <2>2
  <2>7. /\ lost + Len(recording) + Len(delivering') <= delivered + 1
        /\ ~writerFailure =>
             lost + Len(log) + Len(delivering') <= delivered + 1
    BY <2>3, <2>4, <2>5, <2>6
  <2>. QED BY <2>1, <2>2, <2>3, <2>7 DEF Counted
<1>3. CASE EnqueueAccepted
  <2>1. PICK n \in Blocks : delivering = <<n>>
    BY <1>3 DEF EnqueueAccepted, CallbackReturns, Counted
  <2>2. /\ delivering' = <<>> /\ delivered' = delivered
        /\ log' = Append(log, n) /\ recording' = recording /\ lost' = lost
        /\ writerFailure' = writerFailure /\ accepting' = accepting
        /\ accepting
    BY <1>3, <2>1 DEF EnqueueAccepted, CallbackReturns, W!Accept
  <2>3. Len(log') = Len(log) + 1 /\ log' \in Seq(Blocks)
    BY <2>2 DEF Counted
  <2>4. Len(delivering) = 1 /\ Len(delivering') = 0
    BY <2>1, <2>2
  <2>5. /\ Len(log) \in Nat /\ Len(recording) \in Nat /\ lost \in Nat
        /\ delivered \in Nat
    BY DEF Counted
  <2>. QED BY <2>2, <2>3, <2>4, <2>5 DEF Counted
<1>4. CASE EnqueueRefused \/ EnqueueThrows
  <2>1. PICK n \in Blocks : delivering = <<n>>
    BY <1>4 DEF EnqueueRefused, EnqueueThrows, CallbackReturns, Counted
  <2>2. /\ delivering' = <<>> /\ delivered' = delivered
        /\ log' = log /\ recording' = recording
        /\ lost' = lost + 1 \/ lost' = lost
        /\ writerFailure' = writerFailure /\ (accepting' => accepting)
    BY <1>4 DEF EnqueueRefused, EnqueueThrows, CallbackReturns, W!Refuse,
                writerVars
  <2>3. Len(delivering) = 1 /\ Len(delivering') = 0
    BY <2>1, <2>2
  <2>4. /\ Len(log) \in Nat /\ Len(recording) \in Nat /\ lost \in Nat
        /\ delivered \in Nat
    BY DEF Counted
  <2>. QED BY <2>2, <2>3, <2>4 DEF Counted
<1>5. CASE WriterRecords
  <2>1. /\ delivering' = delivering /\ delivered' = delivered
        /\ log' = log /\ lost' = lost /\ writerFailure' = writerFailure
        /\ accepting' = accepting /\ ~writerFailure
        /\ Len(recording) < Len(log)
        /\ recording' = Append(recording, log[Len(recording) + 1])
    BY <1>5 DEF WriterRecords, W!Record, stream
  <2>2. /\ Len(log) \in Nat /\ Len(recording) \in Nat /\ lost \in Nat
        /\ delivered \in Nat /\ Len(delivering) \in Nat
    BY DEF Counted
  <2>3. log[Len(recording) + 1] \in Blocks
    BY <2>1, <2>2 DEF Counted
  <2>4. recording' \in Seq(Blocks) /\ Len(recording') = Len(recording) + 1
    BY <2>1, <2>3 DEF Counted
  <2>. QED BY <2>1, <2>2, <2>4 DEF Counted
<1>6. CASE WriterFails
  <2>1. /\ delivering' = delivering /\ delivered' = delivered
        /\ log' = log /\ recording' = recording /\ ~writerFailure
        /\ lost' = lost + (Len(log) - Len(recording))
        /\ writerFailure' /\ ~accepting'
    BY <1>6 DEF WriterFails, W!Fail, stream
  <2>2. /\ Len(log) \in Nat /\ Len(recording) \in Nat /\ lost \in Nat
        /\ delivered \in Nat /\ Len(delivering) \in Nat
    BY DEF Counted
  <2>. QED BY <2>1, <2>2 DEF Counted
<1>7. \/ UNCHANGED <<log, recording, lost, writerFailure, delivering,
                     delivered>> /\ (accepting' => accepting)
      \/ Enqueue \/ WriterRecords \/ WriterFails
      \/ \E valid \in BOOLEAN : StreamCallback(valid)
  BY DEF CaptureNext, captureVars, Application, own, writerVars, stream,
         ConnectReceiver, Connected, Opened, InitialiseReceiver, Initialised,
         StopSeen, SignalSeen, LookAgain, StopReceiver, ShutdownReceiver,
         ForgetReceiver, Detach, FinishWriter, JoinWriter, Report, Leave,
         DestroyObjects, SessionStep, ConfigureReceiver, OpenWriter,
         CommitOutput, WriteMetadata, DurationOver, Throw, EnqueueNull,
         EventCallbackRuns, SignalArrives, CaptureDone, Configured,
         W!Close, W!Conclude
<1>. QED BY <1>1, <1>2, <1>3, <1>4, <1>5, <1>6, <1>7 DEF Enqueue

\* Each step is one of the session's, or leaves the session alone.
LEMMA SessionUsed ==
  ASSUME [CaptureNext]_captureVars
  PROVE  [Next]_vars
<1>1. CASE UNCHANGED vars
  BY <1>1
<1>2. CASE RequestStop
  <2>1. CASE stopRequested' = stopRequested
    BY <1>2, <2>1 DEF RequestStop, vars, events
  <2>2. CASE stopRequested' # stopRequested
    BY <1>2, <2>2 DEF RequestStop, StopRequestedElsewhere, Next
  <2>. QED BY <2>1, <2>2
<1>3. CASE ConnectReceiver \/ InitialiseReceiver \/ ForgetReceiver
  BY <1>3 DEF ConnectReceiver, InitialiseReceiver, ForgetReceiver, Next
<1>4. CASE StopReceiver \/ ShutdownReceiver \/ Leave
  BY <1>4 DEF StopReceiver, ShutdownReceiver, Leave, Next
<1>5. CASE SessionStep
  BY <1>5 DEF SessionStep, Next
<1>6. CASE EventCallbackRuns
  BY <1>6 DEF EventCallbackRuns, Next
<1>7. ASSUME NEW biasT \in BOOLEAN, ConfigureReceiver(biasT)
      PROVE  Next
  BY <1>7 DEF ConfigureReceiver, Next
<1>8. \/ UNCHANGED vars \/ RequestStop
      \/ ConnectReceiver \/ InitialiseReceiver \/ ForgetReceiver
      \/ StopReceiver \/ ShutdownReceiver \/ Leave
      \/ SessionStep \/ EventCallbackRuns
      \/ \E biasT \in BOOLEAN : ConfigureReceiver(biasT)
  <2>1. CASE UNCHANGED captureVars \/ Application \/ DurationOver \/ Throw
    BY <2>1
       DEF captureVars, Application, Connected, Configured, Opened,
           Initialised, StopSeen, SignalSeen, LookAgain, Detach,
           FinishWriter, JoinWriter, Report, DestroyObjects, OpenWriter,
           CommitOutput, WriteMetadata, DurationOver, Throw
  <2>2. CASE Enqueue \/ EnqueueNull \/ WriterRecords \/ WriterFails
    BY <2>2
       DEF Enqueue, EnqueueAccepted, EnqueueRefused, EnqueueThrows,
           EnqueueNull, WriterRecords, WriterFails
  <2>3. CASE SignalArrives \/ CaptureDone
    BY <2>3 DEF SignalArrives, CaptureDone, captureVars
  <2>4. ASSUME NEW valid \in BOOLEAN, StreamCallback(valid)
        PROVE  UNCHANGED vars \/ RequestStop
    BY <2>4 DEF StreamCallback
  <2>. QED BY <2>1, <2>2, <2>3, <2>4 DEF CaptureNext
<1>. QED BY <1>1, <1>2, <1>3, <1>4, <1>5, <1>6, <1>7, <1>8

\* So is it with the writer.
LEMMA WriterUsed ==
  ASSUME Counted, [CaptureNext]_captureVars
  PROVE  [W!Next]_W!vars
<1>1. CASE UNCHANGED writerVars
  BY <1>1 DEF writerVars, W!vars
<1>2. CASE EnqueueAccepted
  <2>1. delivering[1] \in 1 .. MaxDeliveries
    BY <1>2 DEF EnqueueAccepted, CallbackReturns, Counted, Blocks
  <2>. QED BY <1>2, <2>1 DEF EnqueueAccepted, W!Next
<1>3. CASE EnqueueRefused
  BY <1>3 DEF EnqueueRefused, W!Next
<1>4. CASE FinishWriter \/ JoinWriter
  BY <1>1, <1>4 DEF FinishWriter, JoinWriter, W!Next
<1>5. CASE WriterRecords \/ WriterFails
  BY <1>5 DEF WriterRecords, WriterFails, W!Next
<1>6. \/ UNCHANGED writerVars \/ EnqueueAccepted \/ EnqueueRefused
      \/ FinishWriter \/ JoinWriter \/ WriterRecords \/ WriterFails
  BY DEF CaptureNext, captureVars, Application, own, Enqueue,
         ConnectReceiver, Connected, Opened, InitialiseReceiver, Initialised,
         StopSeen, SignalSeen, LookAgain, StopReceiver, ShutdownReceiver,
         ForgetReceiver, Detach, Report, Leave, DestroyObjects, SessionStep,
         ConfigureReceiver, OpenWriter, CommitOutput, WriteMetadata,
         DurationOver, Throw, EnqueueNull, EnqueueThrows, EventCallbackRuns,
         SignalArrives, CaptureDone, Configured, StreamCallback
<1>. QED BY <1>1, <1>2, <1>3, <1>4, <1>5, <1>6

\* Blocks, log and recording have their types, and a block that is lost was
\* delivered.
THEOREM BlocksCounted == CaptureSpec => []Counted
<1>1. CaptureInit => Counted
  <2>. SUFFICES ASSUME CaptureInit PROVE Counted
    OBVIOUS
  <2>1. /\ log = <<>> /\ recording = <<>> /\ lost = 0 /\ delivered = 0
        /\ delivering = <<>> /\ (accepting <=> TRUE)
        /\ (writerFailure <=> FALSE)
    BY DEF CaptureInit
  <2>2. 0 \in 0 .. MaxDeliveries
    BY ONLY CaptureAssumption
  <2>. QED BY <2>1, <2>2 DEF Counted
<1>2. Counted /\ [CaptureNext]_captureVars => Counted'
  BY CountedStep
<1>. QED BY <1>1, <1>2, PTL DEF CaptureSpec

\* So a capture is a behaviour of both.
LEMMA Composition == CaptureSpec => Spec /\ W!Spec
<1>1. CaptureInit => Init /\ W!Init
  BY DEF CaptureInit, W!Init
<1>2. Counted /\ [CaptureNext]_captureVars => [Next]_vars /\ [W!Next]_W!vars
  BY SessionUsed, WriterUsed
<1>. QED
  BY <1>1, <1>2, BlocksCounted, PTL DEF CaptureSpec, Spec, W!Spec

\* Whatever was proved of the session holds in a capture.
THEOREM SessionInCapture ==
  CaptureSpec => []SessionInv /\ []NothingLeaked /\ []OnlyLegalCalls
BY Composition, SessionInvariance, NoLeak, LegalCalls, PTL

-----------------------------------------------------------------------------
(* The invariant, part by part.                                            *)

\* The log grows by the block whose turn it is.
LEMMA AppendUpTo ==
  ASSUME NEW n \in Nat, n > 0
  PROVE  Append(UpTo(n - 1), n) = UpTo(n)
BY DEF UpTo

\* Once success is noted there is nothing left that could call back.
LEMMA QuietAfterSuccess ==
  ASSUME SessionInv, CaptureInv, succeeded
  PROVE  /\ ~service.streaming /\ callback = "idle"
         /\ delivering = <<>> /\ "Uninit" \notin failed
<1>1. ~service.streaming
  BY DEF CaptureInv, Success, Idle
<1>2. callback = "idle"
  BY <1>1 DEF SessionInv, CallbackStreams
<1>3. "Uninit" \notin failed
  BY DEF CaptureInv, Success, UninitReported, Blemished
<1>. QED BY <1>1, <1>2, <1>3 DEF CaptureInv, InCallback

\* The application thread goes where the session lets it.
LEMMA WhereStep ==
  ASSUME SessionInv, Counted, CaptureInv,
         [CaptureNext]_captureVars
  PROVE  Where'
<1>. USE DEF CaptureInv, Where, Early, Ending, Clearing, Connecting
<1>1. CASE \/ ConnectReceiver \/ Connected
           \/ (\E biasT \in BOOLEAN : ConfigureReceiver(biasT)) \/ Configured
  BY <1>1 DEF ConnectReceiver, Connected, ConfigureReceiver, Configured, Go,
     Connect, Configure, vars, flags, params, control, events, apiVars, own,
     writerVars, outcome, objects, stream
<1>2. CASE \/ (\E ok \in BOOLEAN : OpenWriter(ok)) \/ Opened
           \/ InitialiseReceiver \/ Initialised
  BY <1>2 DEF OpenWriter, Opened, InitialiseReceiver, Initialised, Go,
     Initialise, vars, flags, params, control, events, apiVars, own,
     writerVars, outcome, objects, stream
<1>3. ASSUME NEW ok \in BOOLEAN, CommitOutput(ok)
      PROVE  Where'
  BY <1>3 DEF CommitOutput, Go, RequestStop, vars, flags, params, control,
     events, apiVars, own, writerVars, outcome, objects, stream
<1>4. CASE \/ StopSeen \/ DurationOver \/ SignalSeen \/ LookAgain
  BY <1>4 DEF StopSeen, DurationOver, SignalSeen, LookAgain, Go, RequestStop,
     vars, flags, params, control, events, apiVars, own, writerVars, outcome,
     objects, stream
<1>5. CASE \/ StopReceiver \/ ShutdownReceiver \/ ForgetReceiver \/ Detach
  BY <1>5 DEF StopReceiver, ShutdownReceiver, ForgetReceiver, Detach, Go,
     StopStreaming, Begin, Shutdown, ForgetSession, vars, flags, params,
     control, events, apiVars, own, writerVars, outcome, objects, stream
<1>6. CASE \/ FinishWriter \/ JoinWriter
  BY <1>6 DEF FinishWriter, JoinWriter, Go, W!Close, W!Conclude, vars, flags,
     params, control, events, apiVars, own, writerVars, outcome, objects,
     stream
<1>7. CASE \/ Report \/ (\E ok \in BOOLEAN : WriteMetadata(ok))
  BY <1>7 DEF Report, WriteMetadata, Go, vars, flags, params, control, events,
     apiVars, own, writerVars, outcome, objects, stream
<1>8. CASE Throw
  BY <1>8 DEF Throw, Go, vars, flags, params, control, events, apiVars, own,
     writerVars, outcome, objects, stream
<1>9. CASE \/ Leave \/ DestroyObjects
  BY <1>9 DEF Leave, DestroyObjects, Go, Destroy, Begin, vars, flags, params,
     control, events, apiVars, own, writerVars, outcome, objects, stream,
     SessionInv, Place
<1>10. CASE SessionStep
  BY <1>10, OperationsProgress, EventsStay DEF SessionStep, vars, flags,
     params, control, events, apiVars, own, writerVars, outcome, objects,
     stream, Progress, Place, SessionInv
<1>11. ASSUME NEW valid \in BOOLEAN, StreamCallback(valid)
      PROVE  Where'
  BY <1>11 DEF StreamCallback, RequestStop, vars, flags, params, control,
     events, apiVars, own, writerVars, outcome, objects, stream
<1>12. CASE \/ EnqueueAccepted \/ EnqueueRefused \/ EnqueueThrows
  BY <1>12 DEF EnqueueAccepted, EnqueueRefused, EnqueueThrows,
     CallbackReturns, W!Accept, W!Refuse, RequestStop, vars, flags, params,
     control, events, apiVars, own, writerVars, outcome, objects, stream
<1>13. CASE EnqueueNull
  BY <1>13 DEF EnqueueNull, vars, flags, params, control, events, apiVars,
     own, writerVars, outcome, objects, stream
<1>14. CASE \/ EventCallbackRuns \/ SignalArrives
  BY <1>14 DEF EventCallbackRuns, SignalArrives, EventCallback,
     PowerOverloadChange, CheckSelected, RecordAckFailure, DeviceRemoved,
     Acknowledge, AcknowledgeOverload, Attempt, vars, flags, params, control,
     events, apiVars, own, writerVars, outcome, objects, stream
<1>15. CASE \/ WriterRecords \/ WriterFails
  BY <1>15 DEF WriterRecords, WriterFails, W!Record, W!Fail, RequestStop,
     vars, flags, params, control, events, apiVars, own, writerVars, outcome,
     objects, stream
<1>16. CASE UNCHANGED captureVars
  BY <1>16 DEF captureVars, vars, flags, params, control, events, apiVars,
     own, writerVars, outcome, objects, stream
<1>. HIDE DEF CaptureInv, Where, Early, Ending, Clearing, Connecting
<1>. QED BY <1>1, <1>2, <1>3, <1>4, <1>5, <1>6, <1>7, <1>8, <1>9, <1>10,
            <1>11, <1>12, <1>13, <1>14, <1>15, <1>16 DEF CaptureNext,
            Application, Enqueue, CaptureDone

\* No step leads to one of these places while the session streams, unless an
\* exception does.
LEMMA StoppedStep ==
  ASSUME SessionInv, Counted, CaptureInv,
         [CaptureNext]_captureVars
  PROVE  Stopped'
<1>. USE DEF CaptureInv, Where, Stopped, Early, Ending, Clearing, Connecting,
             Signal, Before
<1>1. CASE \/ ConnectReceiver \/ Connected
           \/ (\E biasT \in BOOLEAN : ConfigureReceiver(biasT)) \/ Configured
  BY <1>1 DEF ConnectReceiver, Connected, ConfigureReceiver, Configured, Go,
     Connect, Configure, vars, flags, params, control, events, apiVars, own,
     writerVars, outcome, objects, stream, SessionInv, Obtaining
<1>2. CASE \/ (\E ok \in BOOLEAN : OpenWriter(ok)) \/ Opened
           \/ InitialiseReceiver \/ Initialised
  BY <1>2 DEF OpenWriter, Opened, InitialiseReceiver, Initialised, Go,
     Initialise, vars, flags, params, control, events, apiVars, own,
     writerVars, outcome, objects, stream
<1>3. ASSUME NEW ok \in BOOLEAN, CommitOutput(ok)
      PROVE  Stopped'
  BY <1>3 DEF CommitOutput, Go, RequestStop, vars, flags, params, control,
     events, apiVars, own, writerVars, outcome, objects, stream
<1>4. CASE \/ StopSeen \/ DurationOver \/ SignalSeen \/ LookAgain
  BY <1>4 DEF StopSeen, DurationOver, SignalSeen, LookAgain, Go, RequestStop,
     vars, flags, params, control, events, apiVars, own, writerVars, outcome,
     objects, stream
<1>5. CASE \/ StopReceiver \/ ShutdownReceiver \/ ForgetReceiver \/ Detach
  BY <1>5 DEF StopReceiver, ShutdownReceiver, ForgetReceiver, Detach, Go,
     StopStreaming, Begin, Shutdown, ForgetSession, vars, flags, params,
     control, events, apiVars, own, writerVars, outcome, objects, stream,
     SessionInv, GivingBack, Over
<1>6. CASE \/ FinishWriter \/ JoinWriter
  BY <1>6 DEF FinishWriter, JoinWriter, Go, W!Close, W!Conclude, vars, flags,
     params, control, events, apiVars, own, writerVars, outcome, objects,
     stream
<1>7. CASE \/ Report \/ (\E ok \in BOOLEAN : WriteMetadata(ok))
  BY <1>7 DEF Report, WriteMetadata, Go, vars, flags, params, control, events,
     apiVars, own, writerVars, outcome, objects, stream
<1>8. CASE Throw
  BY <1>8 DEF Throw, Go, vars, flags, params, control, events, apiVars, own,
     writerVars, outcome, objects, stream, Writer, After
<1>9. CASE \/ Leave \/ DestroyObjects
  BY <1>9 DEF Leave, DestroyObjects, Go, Destroy, Begin, vars, flags, params,
     control, events, apiVars, own, writerVars, outcome, objects, stream,
     SessionInv, GivingBack, Over, Place, Writer, After
<1>10. CASE SessionStep
  BY <1>10, OperationsProgress, EventsStay DEF SessionStep, vars, flags,
     params, control, events, apiVars, own, writerVars, outcome, objects,
     stream, Progress, Place, SessionInv
<1>11. ASSUME NEW valid \in BOOLEAN, StreamCallback(valid)
      PROVE  Stopped'
  BY <1>11 DEF StreamCallback, RequestStop, vars, flags, params, control,
     events, apiVars, own, writerVars, outcome, objects, stream
<1>12. CASE \/ EnqueueAccepted \/ EnqueueRefused \/ EnqueueThrows
  BY <1>12 DEF EnqueueAccepted, EnqueueRefused, EnqueueThrows,
     CallbackReturns, W!Accept, W!Refuse, RequestStop, vars, flags, params,
     control, events, apiVars, own, writerVars, outcome, objects, stream
<1>13. CASE EnqueueNull
  BY <1>13 DEF EnqueueNull, vars, flags, params, control, events, apiVars,
     own, writerVars, outcome, objects, stream
<1>14. CASE \/ EventCallbackRuns \/ SignalArrives
  BY <1>14 DEF EventCallbackRuns, SignalArrives, EventCallback,
     PowerOverloadChange, CheckSelected, RecordAckFailure, DeviceRemoved,
     Acknowledge, AcknowledgeOverload, Attempt, vars, flags, params, control,
     events, apiVars, own, writerVars, outcome, objects, stream
<1>15. CASE \/ WriterRecords \/ WriterFails
  BY <1>15 DEF WriterRecords, WriterFails, W!Record, W!Fail, RequestStop,
     vars, flags, params, control, events, apiVars, own, writerVars, outcome,
     objects, stream
<1>16. CASE UNCHANGED captureVars
  BY <1>16 DEF captureVars, vars, flags, params, control, events, apiVars,
     own, writerVars, outcome, objects, stream
<1>. HIDE DEF CaptureInv, Where, Stopped, Early, Ending, Clearing, Connecting,
             Signal, Before
<1>. QED BY <1>1, <1>2, <1>3, <1>4, <1>5, <1>6, <1>7, <1>8, <1>9, <1>10,
            <1>11, <1>12, <1>13, <1>14, <1>15, <1>16 DEF CaptureNext,
            Application, Enqueue, CaptureDone

\* No step forgets the writer: only finish() gives the verdict, and a writer
\* that stops accepting has a reason on record.
LEMMA WriterStep ==
  ASSUME SessionInv, Counted, CaptureInv,
         [CaptureNext]_captureVars
  PROVE  Writer'
<1>. USE DEF CaptureInv, Where, Writer, Early, After, Signal, Before
<1>1. CASE \/ ConnectReceiver \/ Connected
           \/ (\E biasT \in BOOLEAN : ConfigureReceiver(biasT)) \/ Configured
  BY <1>1 DEF ConnectReceiver, Connected, ConfigureReceiver, Configured, Go,
     Connect, Configure, vars, flags, params, control, events, apiVars, own,
     writerVars, outcome, objects, stream
<1>2. CASE \/ (\E ok \in BOOLEAN : OpenWriter(ok)) \/ Opened
           \/ InitialiseReceiver \/ Initialised
  BY <1>2 DEF OpenWriter, Opened, InitialiseReceiver, Initialised, Go,
     Initialise, vars, flags, params, control, events, apiVars, own,
     writerVars, outcome, objects, stream
<1>3. ASSUME NEW ok \in BOOLEAN, CommitOutput(ok)
      PROVE  Writer'
  BY <1>3 DEF CommitOutput, Go, RequestStop, vars, flags, params, control,
     events, apiVars, own, writerVars, outcome, objects, stream
<1>4. CASE \/ StopSeen \/ DurationOver \/ SignalSeen \/ LookAgain
  BY <1>4 DEF StopSeen, DurationOver, SignalSeen, LookAgain, Go, RequestStop,
     vars, flags, params, control, events, apiVars, own, writerVars, outcome,
     objects, stream
<1>5. CASE \/ StopReceiver \/ ShutdownReceiver \/ ForgetReceiver \/ Detach
  BY <1>5 DEF StopReceiver, ShutdownReceiver, ForgetReceiver, Detach, Go,
     StopStreaming, Begin, Shutdown, ForgetSession, vars, flags, params,
     control, events, apiVars, own, writerVars, outcome, objects, stream
<1>6. CASE \/ FinishWriter \/ JoinWriter
  BY <1>6 DEF FinishWriter, JoinWriter, Go, W!Close, W!Conclude, vars, flags,
     params, control, events, apiVars, own, writerVars, outcome, objects,
     stream
<1>7. CASE \/ Report \/ (\E ok \in BOOLEAN : WriteMetadata(ok))
  BY <1>7 DEF Report, WriteMetadata, Go, vars, flags, params, control, events,
     apiVars, own, writerVars, outcome, objects, stream
<1>8. CASE Throw
  BY <1>8 DEF Throw, Go, vars, flags, params, control, events, apiVars, own,
     writerVars, outcome, objects, stream
<1>9. CASE \/ Leave \/ DestroyObjects
  BY <1>9 DEF Leave, DestroyObjects, Go, Destroy, Begin, vars, flags, params,
     control, events, apiVars, own, writerVars, outcome, objects, stream
<1>10. CASE SessionStep
  BY <1>10, OperationsProgress, EventsStay DEF SessionStep, vars, flags,
     params, control, events, apiVars, own, writerVars, outcome, objects,
     stream, Progress, Place, SessionInv
<1>11. ASSUME NEW valid \in BOOLEAN, StreamCallback(valid)
      PROVE  Writer'
  BY <1>11 DEF StreamCallback, RequestStop, vars, flags, params, control,
     events, apiVars, own, writerVars, outcome, objects, stream
<1>12. CASE \/ EnqueueAccepted \/ EnqueueThrows
  BY <1>12 DEF EnqueueAccepted, EnqueueThrows, CallbackReturns, W!Accept,
     RequestStop, vars, flags, params, control, events, apiVars, own,
     writerVars, outcome, objects, stream
<1>13. CASE EnqueueRefused
  <2>1. /\ step' = step /\ alive' = alive /\ thrown' = thrown
        /\ writerExists' = writerExists /\ writerSet' = writerSet
        /\ log' = log /\ recording' = recording /\ verdict' = verdict
        /\ writerFailure' = writerFailure
    BY <1>13 DEF EnqueueRefused, CallbackReturns, W!Refuse, outcome, objects
  <2>2. ~accepting' /\ (overflow' <=> overflow \/ accepting)
    BY <1>13 DEF EnqueueRefused, W!Refuse
  <2>3. step \notin Early
    BY <1>13 DEF EnqueueRefused, CallbackReturns
  <2>4. overflow' \/ writerFailure' \/ ~writerSet' \/ ~alive'
    BY <2>1, <2>2 DEF CaptureInv, Writer
  <2>5. verdict' = "ok" =>
          recording' = log' /\ ~accepting' /\ ~writerFailure'
    BY <2>1, <2>2 DEF CaptureInv, Writer
  <2>. HIDE DEF Where, Signal, Before
  <2>6. committed' = committed
    BY <1>13 DEF EnqueueRefused, CallbackReturns, outcome
  <2>. QED BY <2>1, <2>3, <2>4, <2>5, <2>6
<1>14. CASE EnqueueNull
  BY <1>14 DEF EnqueueNull, vars, flags, params, control, events, apiVars,
     own, writerVars, outcome, objects, stream
<1>15. CASE \/ EventCallbackRuns \/ SignalArrives
  BY <1>15 DEF EventCallbackRuns, SignalArrives, EventCallback,
     PowerOverloadChange, CheckSelected, RecordAckFailure, DeviceRemoved,
     Acknowledge, AcknowledgeOverload, Attempt, vars, flags, params, control,
     events, apiVars, own, writerVars, outcome, objects, stream
<1>16. CASE \/ WriterRecords \/ WriterFails
  BY <1>16 DEF WriterRecords, WriterFails, W!Record, W!Fail, RequestStop,
     vars, flags, params, control, events, apiVars, own, writerVars, outcome,
     objects, stream
<1>17. CASE UNCHANGED captureVars
  BY <1>17 DEF captureVars, vars, flags, params, control, events, apiVars,
     own, writerVars, outcome, objects, stream
<1>. HIDE DEF CaptureInv, Where, Writer, Early, After, Signal, Before
<1>. QED BY <1>1, <1>2, <1>3, <1>4, <1>5, <1>6, <1>7, <1>8, <1>9, <1>10,
            <1>11, <1>12, <1>13, <1>14, <1>15, <1>16, <1>17 DEF CaptureNext,
            Application, Enqueue, CaptureDone

\* A signal is noted when the loop is left, or the output is not committed.
LEMMA SignalStep ==
  ASSUME SessionInv, Counted, CaptureInv,
         [CaptureNext]_captureVars
  PROVE  Signal'
<1>. USE DEF CaptureInv, Signal, Early, Before, Writer, After
<1>1. CASE \/ ConnectReceiver \/ Connected
           \/ (\E biasT \in BOOLEAN : ConfigureReceiver(biasT)) \/ Configured
  BY <1>1 DEF ConnectReceiver, Connected, ConfigureReceiver, Configured, Go,
     Connect, Configure, vars, flags, params, control, events, apiVars, own,
     writerVars, outcome, objects, stream
<1>2. CASE \/ (\E ok \in BOOLEAN : OpenWriter(ok)) \/ Opened
           \/ InitialiseReceiver \/ Initialised
  BY <1>2 DEF OpenWriter, Opened, InitialiseReceiver, Initialised, Go,
     Initialise, vars, flags, params, control, events, apiVars, own,
     writerVars, outcome, objects, stream
<1>3. ASSUME NEW ok \in BOOLEAN, CommitOutput(ok)
      PROVE  Signal'
  BY <1>3 DEF CommitOutput, Go, RequestStop, vars, flags, params, control,
     events, apiVars, own, writerVars, outcome, objects, stream
<1>4. CASE StopSeen
  BY <1>4 DEF StopSeen, Go, vars, flags, params, control, events, apiVars,
     own, writerVars, outcome, objects, stream
<1>5. CASE DurationOver
  BY <1>5 DEF DurationOver, Go, vars, flags, params, control, events, apiVars,
     own, writerVars, outcome, objects, stream
<1>6. CASE SignalSeen
  BY <1>6 DEF SignalSeen, Go, RequestStop, vars, flags, params, control,
     events, apiVars, own, writerVars, outcome, objects, stream
<1>7. CASE LookAgain
  BY <1>7 DEF LookAgain, Go, vars, flags, params, control, events, apiVars,
     own, writerVars, outcome, objects, stream
<1>8. CASE \/ StopReceiver \/ ShutdownReceiver \/ ForgetReceiver \/ Detach
  BY <1>8 DEF StopReceiver, ShutdownReceiver, ForgetReceiver, Detach, Go,
     StopStreaming, Begin, Shutdown, ForgetSession, vars, flags, params,
     control, events, apiVars, own, writerVars, outcome, objects, stream
<1>9. CASE \/ FinishWriter \/ JoinWriter
  BY <1>9 DEF FinishWriter, JoinWriter, Go, W!Close, W!Conclude, vars, flags,
     params, control, events, apiVars, own, writerVars, outcome, objects,
     stream
<1>10. CASE \/ Report \/ (\E ok \in BOOLEAN : WriteMetadata(ok))
  BY <1>10 DEF Report, WriteMetadata, Go, vars, flags, params, control,
     events, apiVars, own, writerVars, outcome, objects, stream
<1>11. CASE Throw
  BY <1>11 DEF Throw, Go, vars, flags, params, control, events, apiVars, own,
     writerVars, outcome, objects, stream
<1>12. CASE \/ Leave \/ DestroyObjects
  BY <1>12 DEF Leave, DestroyObjects, Go, Destroy, Begin, vars, flags, params,
     control, events, apiVars, own, writerVars, outcome, objects, stream
<1>13. CASE SessionStep
  BY <1>13, OperationsProgress, EventsStay DEF SessionStep, vars, flags,
     params, control, events, apiVars, own, writerVars, outcome, objects,
     stream, Progress, Place, SessionInv
<1>14. ASSUME NEW valid \in BOOLEAN, StreamCallback(valid)
      PROVE  Signal'
  BY <1>14 DEF StreamCallback, RequestStop, vars, flags, params, control,
     events, apiVars, own, writerVars, outcome, objects, stream
<1>15. CASE \/ EnqueueAccepted \/ EnqueueRefused \/ EnqueueThrows
  BY <1>15 DEF EnqueueAccepted, EnqueueRefused, EnqueueThrows,
     CallbackReturns, W!Accept, W!Refuse, RequestStop, vars, flags, params,
     control, events, apiVars, own, writerVars, outcome, objects, stream
<1>16. CASE EnqueueNull
  BY <1>16 DEF EnqueueNull, vars, flags, params, control, events, apiVars,
     own, writerVars, outcome, objects, stream
<1>17. CASE \/ EventCallbackRuns \/ SignalArrives
  BY <1>17 DEF EventCallbackRuns, SignalArrives, EventCallback,
     PowerOverloadChange, CheckSelected, RecordAckFailure, DeviceRemoved,
     Acknowledge, AcknowledgeOverload, Attempt, vars, flags, params, control,
     events, apiVars, own, writerVars, outcome, objects, stream
<1>18. CASE \/ WriterRecords \/ WriterFails
  BY <1>18 DEF WriterRecords, WriterFails, W!Record, W!Fail, RequestStop,
     vars, flags, params, control, events, apiVars, own, writerVars, outcome,
     objects, stream
<1>19. CASE UNCHANGED captureVars
  BY <1>19 DEF captureVars, vars, flags, params, control, events, apiVars,
     own, writerVars, outcome, objects, stream
<1>. HIDE DEF CaptureInv, Signal, Early, Before, Writer, After
<1>. QED BY <1>1, <1>2, <1>3, <1>4, <1>5, <1>6, <1>7, <1>8, <1>9, <1>10,
            <1>11, <1>12, <1>13, <1>14, <1>15, <1>16, <1>17, <1>18, <1>19 DEF
            CaptureNext, Application, Enqueue, CaptureDone

\* While a block is in the callback, nothing it uses is taken away.
LEMMA InCallbackStep ==
  ASSUME SessionInv, Counted, CaptureInv,
         [CaptureNext]_captureVars
  PROVE  InCallback'
<1>. USE DEF CaptureInv, Where, Stopped, InCallback, Early
<1>1. CASE \/ ConnectReceiver \/ Connected
           \/ (\E biasT \in BOOLEAN : ConfigureReceiver(biasT)) \/ Configured
  BY <1>1 DEF ConnectReceiver, Connected, ConfigureReceiver, Configured, Go,
     Connect, Configure, vars, flags, params, control, events, apiVars, own,
     writerVars, outcome, objects, stream
<1>2. CASE \/ (\E ok \in BOOLEAN : OpenWriter(ok)) \/ Opened
           \/ InitialiseReceiver \/ Initialised
  BY <1>2 DEF OpenWriter, Opened, InitialiseReceiver, Initialised, Go,
     Initialise, vars, flags, params, control, events, apiVars, own,
     writerVars, outcome, objects, stream, Writer
<1>3. ASSUME NEW ok \in BOOLEAN, CommitOutput(ok)
      PROVE  InCallback'
  BY <1>3 DEF CommitOutput, Go, RequestStop, vars, flags, params, control,
     events, apiVars, own, writerVars, outcome, objects, stream
<1>4. CASE \/ StopSeen \/ DurationOver \/ SignalSeen \/ LookAgain
  BY <1>4 DEF StopSeen, DurationOver, SignalSeen, LookAgain, Go, RequestStop,
     vars, flags, params, control, events, apiVars, own, writerVars, outcome,
     objects, stream
<1>5. CASE \/ StopReceiver \/ ShutdownReceiver \/ ForgetReceiver \/ Detach
  BY <1>5 DEF StopReceiver, ShutdownReceiver, ForgetReceiver, Detach, Go,
     StopStreaming, Begin, Shutdown, ForgetSession, vars, flags, params,
     control, events, apiVars, own, writerVars, outcome, objects, stream,
     Ending, Clearing, SessionInv, Owed, GivingBack, Over, Noted, Place
<1>6. CASE \/ FinishWriter \/ JoinWriter
  BY <1>6 DEF FinishWriter, JoinWriter, Go, W!Close, W!Conclude, vars, flags,
     params, control, events, apiVars, own, writerVars, outcome, objects,
     stream
<1>7. CASE \/ Report \/ (\E ok \in BOOLEAN : WriteMetadata(ok))
  BY <1>7 DEF Report, WriteMetadata, Go, vars, flags, params, control, events,
     apiVars, own, writerVars, outcome, objects, stream
<1>8. CASE Throw
  BY <1>8 DEF Throw, Go, vars, flags, params, control, events, apiVars, own,
     writerVars, outcome, objects, stream
<1>9. CASE \/ Leave \/ DestroyObjects
  BY <1>9 DEF Leave, DestroyObjects, Go, Destroy, Begin, vars, flags, params,
     control, events, apiVars, own, writerVars, outcome, objects, stream,
     Ending, Clearing, SessionInv, Owed, GivingBack, Over, Noted, Place
<1>10. CASE SessionStep
  BY <1>10, EventsStay DEF SessionStep, vars, flags, params, control, events,
     apiVars, own, writerVars, outcome, objects, stream
<1>11. ASSUME NEW valid \in BOOLEAN, StreamCallback(valid)
      PROVE  InCallback'
  BY <1>11 DEF StreamCallback, RequestStop, vars, flags, params, control,
     events, apiVars, own, writerVars, outcome, objects, stream, CallbacksRun
<1>12. CASE \/ EnqueueAccepted \/ EnqueueRefused \/ EnqueueThrows
  BY <1>12 DEF EnqueueAccepted, EnqueueRefused, EnqueueThrows,
     CallbackReturns, W!Accept, W!Refuse, RequestStop, vars, flags, params,
     control, events, apiVars, own, writerVars, outcome, objects, stream
<1>13. CASE EnqueueNull
  BY <1>13 DEF EnqueueNull, vars, flags, params, control, events, apiVars,
     own, writerVars, outcome, objects, stream
<1>14. CASE \/ EventCallbackRuns \/ SignalArrives
  BY <1>14 DEF EventCallbackRuns, SignalArrives, EventCallback,
     PowerOverloadChange, CheckSelected, RecordAckFailure, DeviceRemoved,
     Acknowledge, AcknowledgeOverload, Attempt, vars, flags, params, control,
     events, apiVars, own, writerVars, outcome, objects, stream
<1>15. CASE \/ WriterRecords \/ WriterFails
  BY <1>15 DEF WriterRecords, WriterFails, W!Record, W!Fail, RequestStop,
     vars, flags, params, control, events, apiVars, own, writerVars, outcome,
     objects, stream
<1>16. CASE UNCHANGED captureVars
  BY <1>16 DEF captureVars, vars, flags, params, control, events, apiVars,
     own, writerVars, outcome, objects, stream
<1>. HIDE DEF CaptureInv, Where, Stopped, InCallback, Early
<1>. QED BY <1>1, <1>2, <1>3, <1>4, <1>5, <1>6, <1>7, <1>8, <1>9, <1>10,
            <1>11, <1>12, <1>13, <1>14, <1>15, <1>16 DEF CaptureNext,
            Application, Enqueue, CaptureDone

\* A block that is delivered goes to the log in its turn, or a flag is set.
LEMMA CompleteStep ==
  ASSUME SessionInv, Counted, CaptureInv,
         [CaptureNext]_captureVars
  PROVE  Complete'
<1>. USE DEF CaptureInv, Complete
<1>1. CASE \/ ConnectReceiver \/ Connected
           \/ (\E biasT \in BOOLEAN : ConfigureReceiver(biasT)) \/ Configured
  BY <1>1 DEF ConnectReceiver, Connected, ConfigureReceiver, Configured, Go,
     Connect, Configure, vars, flags, params, control, events, apiVars, own,
     writerVars, outcome, objects, stream
<1>2. CASE \/ (\E ok \in BOOLEAN : OpenWriter(ok)) \/ Opened
           \/ InitialiseReceiver \/ Initialised
  BY <1>2 DEF OpenWriter, Opened, InitialiseReceiver, Initialised, Go,
     Initialise, vars, flags, params, control, events, apiVars, own,
     writerVars, outcome, objects, stream
<1>3. ASSUME NEW ok \in BOOLEAN, CommitOutput(ok)
      PROVE  Complete'
  BY <1>3 DEF CommitOutput, Go, RequestStop, vars, flags, params, control,
     events, apiVars, own, writerVars, outcome, objects, stream
<1>4. CASE \/ StopSeen \/ DurationOver \/ SignalSeen \/ LookAgain
  BY <1>4 DEF StopSeen, DurationOver, SignalSeen, LookAgain, Go, RequestStop,
     vars, flags, params, control, events, apiVars, own, writerVars, outcome,
     objects, stream
<1>5. CASE \/ StopReceiver \/ ShutdownReceiver \/ ForgetReceiver \/ Detach
  BY <1>5 DEF StopReceiver, ShutdownReceiver, ForgetReceiver, Detach, Go,
     StopStreaming, Begin, Shutdown, ForgetSession, vars, flags, params,
     control, events, apiVars, own, writerVars, outcome, objects, stream
<1>6. CASE \/ FinishWriter \/ JoinWriter
  BY <1>6 DEF FinishWriter, JoinWriter, Go, W!Close, W!Conclude, vars, flags,
     params, control, events, apiVars, own, writerVars, outcome, objects,
     stream
<1>7. CASE \/ Report \/ (\E ok \in BOOLEAN : WriteMetadata(ok))
  BY <1>7 DEF Report, WriteMetadata, Go, vars, flags, params, control, events,
     apiVars, own, writerVars, outcome, objects, stream
<1>8. CASE Throw
  BY <1>8 DEF Throw, Go, vars, flags, params, control, events, apiVars, own,
     writerVars, outcome, objects, stream
<1>9. CASE \/ Leave \/ DestroyObjects
  BY <1>9 DEF Leave, DestroyObjects, Go, Destroy, Begin, vars, flags, params,
     control, events, apiVars, own, writerVars, outcome, objects, stream
<1>10. CASE SessionStep
  BY <1>10, EventsStay DEF SessionStep, vars, flags, params, control, events,
     apiVars, own, writerVars, outcome, objects, stream
<1>11. ASSUME NEW valid \in BOOLEAN, StreamCallback(valid)
      PROVE  Complete'
  <2>1. /\ delivering = <<>> /\ delivered' = delivered + 1
        /\ log' = log /\ lost' = lost /\ (overflow' <=> overflow)
        /\ (writerFailure' <=> writerFailure) /\ failed' = failed
    BY <1>11
       DEF StreamCallback, RequestStop, writerVars, vars, apiVars
  <2>2. callbackFailure' \/ /\ delivering' = <<delivered + 1>>
                            /\ (callbackFailure' <=> callbackFailure)
    BY <1>11 DEF StreamCallback
  <2>3. delivered \in Nat /\ delivered' > 0 /\ delivered' - 1 = delivered
    BY <2>1 DEF Counted
  <2>4. delivering # <<delivered>>
    BY <2>1
  <2>. QED BY <2>1, <2>2, <2>3, <2>4
<1>12. CASE EnqueueThrows
  BY <1>12 DEF EnqueueThrows, CallbackReturns, RequestStop, vars, flags,
     params, control, events, apiVars, own, writerVars, outcome, objects,
     stream
<1>13. CASE EnqueueAccepted
  <2>1. /\ delivering # <<>> /\ delivering' = <<>> /\ delivered' = delivered
        /\ log' = Append(log, delivering[1]) /\ lost' = lost
        /\ failed' = failed
        /\ (callbackFailure' <=> callbackFailure)
        /\ (overflow' <=> overflow) /\ (writerFailure' <=> writerFailure)
    BY <1>13
       DEF EnqueueAccepted, CallbackReturns, W!Accept, vars, apiVars
  <2>2. ASSUME delivering = <<delivered>>, delivered > 0,
               log = UpTo(delivered - 1)
        PROVE  log' = UpTo(delivered)
    <3>1. delivering[1] = delivered /\ delivered \in Nat
      BY <2>2 DEF Counted
    <3>. QED BY <2>1, <2>2, <3>1, AppendUpTo
  <2>. QED BY <2>1, <2>2
<1>14. CASE EnqueueRefused
  <2>1. delivering # <<>> /\ alive /\ failed' = failed
        /\ (overflow' <=> overflow \/ accepting)
        /\ (callbackFailure => callbackFailure')
        /\ (writerFailure' <=> writerFailure)
    BY <1>14
       DEF EnqueueRefused, CallbackReturns, W!Refuse, RequestStop, apiVars
  <2>2. accepting \/ overflow \/ writerFailure \/ ~writerSet
    BY <2>1 DEF Writer
  <2>3. writerSet \/ "Uninit" \in failed
    BY <2>1 DEF InCallback
  <2>. QED BY <2>1, <2>2, <2>3
<1>15. CASE EnqueueNull
  BY <1>15 DEF EnqueueNull, vars, flags, params, control, events, apiVars,
     own, writerVars, outcome, objects, stream
<1>16. CASE \/ EventCallbackRuns \/ SignalArrives
  BY <1>16 DEF EventCallbackRuns, SignalArrives, EventCallback,
     PowerOverloadChange, CheckSelected, RecordAckFailure, DeviceRemoved,
     Acknowledge, AcknowledgeOverload, Attempt, vars, flags, params, control,
     events, apiVars, own, writerVars, outcome, objects, stream
<1>17. CASE \/ WriterRecords \/ WriterFails
  BY <1>17 DEF WriterRecords, WriterFails, W!Record, W!Fail, RequestStop,
     vars, flags, params, control, events, apiVars, own, writerVars, outcome,
     objects, stream
<1>18. CASE UNCHANGED captureVars
  BY <1>18 DEF captureVars, vars, flags, params, control, events, apiVars,
     own, writerVars, outcome, objects, stream
<1>. HIDE DEF CaptureInv, Complete
<1>. QED BY <1>1, <1>2, <1>3, <1>4, <1>5, <1>6, <1>7, <1>8, <1>9, <1>10,
            <1>11, <1>12, <1>13, <1>14, <1>15, <1>16, <1>17, <1>18 DEF
            CaptureNext, Application, Enqueue, CaptureDone

\* No step takes back that a failed Uninit makes the shutdown fail.
LEMMA UninitStep ==
  ASSUME SessionInv, Counted, CaptureInv,
         [CaptureNext]_captureVars
  PROVE  UninitReported'
<1>. USE DEF CaptureInv, UninitReported, Blemished, Ending, Clearing
<1>1. CASE \/ ConnectReceiver \/ Connected
           \/ (\E biasT \in BOOLEAN : ConfigureReceiver(biasT)) \/ Configured
  BY <1>1 DEF ConnectReceiver, Connected, ConfigureReceiver, Configured, Go,
     Connect, Configure, vars, flags, params, control, events, apiVars, own,
     writerVars, outcome, objects, stream
<1>2. CASE \/ (\E ok \in BOOLEAN : OpenWriter(ok)) \/ Opened
           \/ InitialiseReceiver \/ Initialised
  BY <1>2 DEF OpenWriter, Opened, InitialiseReceiver, Initialised, Go,
     Initialise, vars, flags, params, control, events, apiVars, own,
     writerVars, outcome, objects, stream
<1>3. ASSUME NEW ok \in BOOLEAN, CommitOutput(ok)
      PROVE  UninitReported'
  BY <1>3 DEF CommitOutput, Go, RequestStop, vars, flags, params, control,
     events, apiVars, own, writerVars, outcome, objects, stream
<1>4. CASE \/ StopSeen \/ DurationOver \/ SignalSeen \/ LookAgain
  BY <1>4 DEF StopSeen, DurationOver, SignalSeen, LookAgain, Go, RequestStop,
     vars, flags, params, control, events, apiVars, own, writerVars, outcome,
     objects, stream
<1>5. CASE \/ StopReceiver \/ ShutdownReceiver \/ ForgetReceiver \/ Detach
  BY <1>5 DEF StopReceiver, ShutdownReceiver, ForgetReceiver, Detach, Go,
     StopStreaming, Begin, Shutdown, ForgetSession, vars, flags, params,
     control, events, apiVars, own, writerVars, outcome, objects, stream
<1>6. CASE \/ FinishWriter \/ JoinWriter
  BY <1>6 DEF FinishWriter, JoinWriter, Go, W!Close, W!Conclude, vars, flags,
     params, control, events, apiVars, own, writerVars, outcome, objects,
     stream
<1>7. CASE \/ Report \/ (\E ok \in BOOLEAN : WriteMetadata(ok))
  BY <1>7 DEF Report, WriteMetadata, Go, vars, flags, params, control, events,
     apiVars, own, writerVars, outcome, objects, stream
<1>8. CASE Throw
  BY <1>8 DEF Throw, Go, vars, flags, params, control, events, apiVars, own,
     writerVars, outcome, objects, stream
<1>9. CASE \/ Leave \/ DestroyObjects
  BY <1>9 DEF Leave, DestroyObjects, Go, Destroy, Begin, vars, flags, params,
     control, events, apiVars, own, writerVars, outcome, objects, stream
<1>10. CASE SessionStep
  BY <1>10, UninitIsReported DEF SessionStep, vars, flags, params, control,
     events, apiVars, own, writerVars, outcome, objects, stream,
     UninitReported, Blemished
<1>11. ASSUME NEW valid \in BOOLEAN, StreamCallback(valid)
      PROVE  UninitReported'
  BY <1>11 DEF StreamCallback, RequestStop, vars, flags, params, control,
     events, apiVars, own, writerVars, outcome, objects, stream
<1>12. CASE \/ EnqueueAccepted \/ EnqueueRefused \/ EnqueueThrows
  BY <1>12 DEF EnqueueAccepted, EnqueueRefused, EnqueueThrows,
     CallbackReturns, W!Accept, W!Refuse, RequestStop, vars, flags, params,
     control, events, apiVars, own, writerVars, outcome, objects, stream
<1>13. CASE EnqueueNull
  BY <1>13 DEF EnqueueNull, vars, flags, params, control, events, apiVars,
     own, writerVars, outcome, objects, stream
<1>14. CASE \/ EventCallbackRuns \/ SignalArrives
  BY <1>14 DEF EventCallbackRuns, SignalArrives, EventCallback,
     PowerOverloadChange, CheckSelected, RecordAckFailure, DeviceRemoved,
     Acknowledge, AcknowledgeOverload, Attempt, vars, flags, params, control,
     events, apiVars, own, writerVars, outcome, objects, stream
<1>15. CASE \/ WriterRecords \/ WriterFails
  BY <1>15 DEF WriterRecords, WriterFails, W!Record, W!Fail, RequestStop,
     vars, flags, params, control, events, apiVars, own, writerVars, outcome,
     objects, stream
<1>16. CASE UNCHANGED captureVars
  BY <1>16 DEF captureVars, vars, flags, params, control, events, apiVars,
     own, writerVars, outcome, objects, stream
<1>. HIDE DEF CaptureInv, UninitReported, Blemished, Ending, Clearing
<1>. QED BY <1>1, <1>2, <1>3, <1>4, <1>5, <1>6, <1>7, <1>8, <1>9, <1>10,
            <1>11, <1>12, <1>13, <1>14, <1>15, <1>16 DEF CaptureNext,
            Application, Enqueue, CaptureDone

\* Success is noted when everything has come to an end, and stays true.
LEMMA SuccessStep ==
  ASSUME SessionInv, Counted, CaptureInv,
         [CaptureNext]_captureVars
  PROVE  Success'
<1>. USE DEF CaptureInv, Success, Where, Ending, Clearing
<1>1. CASE \/ ConnectReceiver \/ Connected
           \/ (\E biasT \in BOOLEAN : ConfigureReceiver(biasT)) \/ Configured
  BY <1>1 DEF ConnectReceiver, Connected, ConfigureReceiver, Configured, Go,
     Connect, Configure, vars, flags, params, control, events, apiVars, own,
     writerVars, outcome, objects, stream
<1>2. CASE \/ (\E ok \in BOOLEAN : OpenWriter(ok)) \/ Opened
           \/ InitialiseReceiver \/ Initialised
  BY <1>2 DEF OpenWriter, Opened, InitialiseReceiver, Initialised, Go,
     Initialise, vars, flags, params, control, events, apiVars, own,
     writerVars, outcome, objects, stream
<1>3. ASSUME NEW ok \in BOOLEAN, CommitOutput(ok)
      PROVE  Success'
  BY <1>3 DEF CommitOutput, Go, RequestStop, vars, flags, params, control,
     events, apiVars, own, writerVars, outcome, objects, stream
<1>4. CASE \/ StopSeen \/ DurationOver \/ SignalSeen \/ LookAgain
  BY <1>4 DEF StopSeen, DurationOver, SignalSeen, LookAgain, Go, RequestStop,
     vars, flags, params, control, events, apiVars, own, writerVars, outcome,
     objects, stream
<1>5. CASE \/ StopReceiver \/ ShutdownReceiver \/ ForgetReceiver \/ Detach
  BY <1>5 DEF StopReceiver, ShutdownReceiver, ForgetReceiver, Detach, Go,
     StopStreaming, Begin, Shutdown, ForgetSession, vars, flags, params,
     control, events, apiVars, own, writerVars, outcome, objects, stream
<1>6. CASE \/ FinishWriter \/ JoinWriter
  BY <1>6 DEF FinishWriter, JoinWriter, Go, W!Close, W!Conclude, vars, flags,
     params, control, events, apiVars, own, writerVars, outcome, objects,
     stream
<1>7. ASSUME NEW ok \in BOOLEAN, WriteMetadata(ok)
      PROVE  Success'
  BY <1>7 DEF WriteMetadata, Go, vars, flags, params, control, events,
     apiVars, own, writerVars, outcome, objects, stream
<1>8. CASE Report
  <2>1. /\ step = "report" /\ step' = "metadata" /\ at = "client"
        /\ succeeded' =>
             /\ clean /\ verdict = "ok" /\ ~callbackFailure /\ ~overflow
             /\ ~interrupted /\ ~deviceRemoved /\ ackFailures = 0
    BY <1>8 DEF Report, Go
  <2>2. /\ UNCHANGED <<apiVars, flags, control, verdict, thrown, signal>>
        /\ UNCHANGED <<callbackFailure, overflow, committed>>
        /\ UNCHANGED <<deviceRemoved, ackFailures>>
    BY <1>8 DEF Report, vars, writerVars, stream, events
  <2>3. committed /\ ~thrown /\ life = "shut" /\ (signal => interrupted)
    BY <2>1 DEF Signal, Writer, Stopped, After
  <2>4. /\ ~apiOpen /\ ~apiLocked /\ ~deviceSelected /\ ~deviceInitialised
    BY <2>3 DEF SessionInv, GivingBack, Over
  <2>5. clean => service = Idle
    BY <2>1, <2>3, CleanIsIdle DEF CleanMeansIdle, Ended
  <2>. QED BY <2>1, <2>2, <2>3, <2>4, <2>5 DEF apiVars, flags, control
<1>9. CASE Throw
  BY <1>9 DEF Throw, Go, vars, flags, params, control, events, apiVars, own,
     writerVars, outcome, objects, stream
<1>10. CASE \/ Leave \/ DestroyObjects
  BY <1>10 DEF Leave, DestroyObjects, Go, Destroy, Begin, vars, flags, params,
     control, events, apiVars, own, writerVars, outcome, objects, stream
<1>11. CASE SessionStep
  BY <1>11, NothingHappens, EventsStay, OperationsProgress DEF SessionStep,
     vars, flags, params, control, events, apiVars, own, writerVars, outcome,
     objects, stream, Nothing, Progress, SessionInv, Place
<1>12. ASSUME NEW valid \in BOOLEAN, StreamCallback(valid)
      PROVE  Success'
  BY <1>12, QuietAfterSuccess DEF StreamCallback, RequestStop, vars, flags,
     params, control, events, apiVars, own, writerVars, outcome, objects,
     stream, CallbacksRun
<1>13. CASE \/ EnqueueAccepted \/ EnqueueRefused \/ EnqueueThrows
  BY <1>13, QuietAfterSuccess DEF EnqueueAccepted, EnqueueRefused,
     EnqueueThrows, CallbackReturns, W!Accept, W!Refuse, RequestStop, vars,
     flags, params, control, events, apiVars, own, writerVars, outcome,
     objects, stream
<1>14. CASE EnqueueNull
  BY <1>14, QuietAfterSuccess DEF EnqueueNull, vars, flags, params, control,
     events, apiVars, own, writerVars, outcome, objects, stream
<1>15. CASE \/ EventCallbackRuns \/ SignalArrives
  BY <1>15, QuietAfterSuccess DEF EventCallbackRuns, SignalArrives,
     EventCallback, PowerOverloadChange, CheckSelected, RecordAckFailure,
     DeviceRemoved, Acknowledge, AcknowledgeOverload, Attempt, vars, flags,
     params, control, events, apiVars, own, writerVars, outcome, objects,
     stream
<1>16. CASE \/ WriterRecords \/ WriterFails
  BY <1>16 DEF WriterRecords, WriterFails, W!Record, W!Fail, RequestStop,
     vars, flags, params, control, events, apiVars, own, writerVars, outcome,
     objects, stream
<1>17. CASE UNCHANGED captureVars
  BY <1>17 DEF captureVars, vars, flags, params, control, events, apiVars,
     own, writerVars, outcome, objects, stream
<1>. HIDE DEF CaptureInv, Success, Where, Ending, Clearing
<1>. QED BY <1>1, <1>2, <1>3, <1>4, <1>5, <1>6, <1>7, <1>8, <1>9, <1>10,
            <1>11, <1>12, <1>13, <1>14, <1>15, <1>16, <1>17 DEF CaptureNext,
            Application, Enqueue, CaptureDone

\* Every action leads to a place of runCapture().
LEMMA PlaceTypedStep ==
  ASSUME PlaceTyped, [CaptureNext]_captureVars
  PROVE  PlaceTyped'
<1>. USE DEF PlaceTyped
<1>1. CASE \/ ConnectReceiver \/ Connected
           \/ (\E biasT \in BOOLEAN : ConfigureReceiver(biasT)) \/ Configured
  BY <1>1 DEF ConnectReceiver, Connected, ConfigureReceiver, Configured, Go,
     Connect, Configure
<1>2. CASE \/ (\E ok \in BOOLEAN : OpenWriter(ok)) \/ Opened
           \/ InitialiseReceiver \/ Initialised
  BY <1>2 DEF OpenWriter, Opened, InitialiseReceiver, Initialised, Go,
     Initialise
<1>3. ASSUME NEW ok \in BOOLEAN, CommitOutput(ok)
      PROVE  PlaceTyped'
  BY <1>3 DEF CommitOutput, Go, RequestStop
<1>4. CASE \/ StopSeen \/ DurationOver \/ SignalSeen \/ LookAgain
  BY <1>4 DEF StopSeen, DurationOver, SignalSeen, LookAgain, Go, RequestStop
<1>5. CASE \/ StopReceiver \/ ShutdownReceiver \/ ForgetReceiver \/ Detach
  BY <1>5 DEF StopReceiver, ShutdownReceiver, ForgetReceiver, Detach, Go,
     StopStreaming, Begin, Shutdown, ForgetSession
<1>6. CASE \/ FinishWriter \/ JoinWriter
  BY <1>6 DEF FinishWriter, JoinWriter, Go, W!Close, W!Conclude
<1>7. CASE \/ Report \/ (\E ok \in BOOLEAN : WriteMetadata(ok))
  BY <1>7 DEF Report, WriteMetadata, Go
<1>8. CASE Throw
  BY <1>8 DEF Throw, Go
<1>9. CASE \/ Leave \/ DestroyObjects
  BY <1>9 DEF Leave, DestroyObjects, Go, Destroy, Begin
<1>10. CASE SessionStep
  BY <1>10 DEF SessionStep
<1>11. ASSUME NEW valid \in BOOLEAN, StreamCallback(valid)
      PROVE  PlaceTyped'
  BY <1>11 DEF StreamCallback, RequestStop
<1>12. CASE \/ EnqueueAccepted \/ EnqueueRefused \/ EnqueueThrows
  BY <1>12 DEF EnqueueAccepted, EnqueueRefused, EnqueueThrows,
     CallbackReturns, W!Accept, W!Refuse, RequestStop
<1>13. CASE EnqueueNull
  BY <1>13 DEF EnqueueNull
<1>14. CASE \/ EventCallbackRuns \/ SignalArrives
  BY <1>14 DEF EventCallbackRuns, SignalArrives, EventCallback,
     PowerOverloadChange, CheckSelected, RecordAckFailure, DeviceRemoved,
     Acknowledge, AcknowledgeOverload, Attempt
<1>15. CASE \/ WriterRecords \/ WriterFails
  BY <1>15 DEF WriterRecords, WriterFails, W!Record, W!Fail, RequestStop
<1>16. CASE UNCHANGED captureVars
  BY <1>16 DEF captureVars, vars, flags, params, control, events, apiVars,
     own, writerVars, outcome, objects, stream
<1>. HIDE DEF PlaceTyped
<1>. QED BY <1>1, <1>2, <1>3, <1>4, <1>5, <1>6, <1>7, <1>8, <1>9, <1>10,
            <1>11, <1>12, <1>13, <1>14, <1>15, <1>16 DEF CaptureNext,
            Application, Enqueue, CaptureDone

\* What is noted about the outcome is true or false.
LEMMA OutcomeTypedStep ==
  ASSUME OutcomeTyped, [CaptureNext]_captureVars
  PROVE  OutcomeTyped'
<1>. USE DEF OutcomeTyped
<1>1. CASE \/ ConnectReceiver \/ Connected
           \/ (\E biasT \in BOOLEAN : ConfigureReceiver(biasT)) \/ Configured
  BY <1>1 DEF ConnectReceiver, Connected, ConfigureReceiver, Configured, Go,
     Connect, Configure, outcome, own
<1>2. CASE \/ (\E ok \in BOOLEAN : OpenWriter(ok)) \/ Opened
           \/ InitialiseReceiver \/ Initialised
  BY <1>2 DEF OpenWriter, Opened, InitialiseReceiver, Initialised, Go,
     Initialise, outcome, own
<1>3. ASSUME NEW ok \in BOOLEAN, CommitOutput(ok)
      PROVE  OutcomeTyped'
  BY <1>3 DEF CommitOutput, Go, RequestStop, outcome, own
<1>4. CASE \/ StopSeen \/ DurationOver \/ SignalSeen \/ LookAgain
  BY <1>4 DEF StopSeen, DurationOver, SignalSeen, LookAgain, Go, RequestStop,
     outcome, own
<1>5. CASE \/ StopReceiver \/ ShutdownReceiver \/ ForgetReceiver \/ Detach
  BY <1>5 DEF StopReceiver, ShutdownReceiver, ForgetReceiver, Detach, Go,
     StopStreaming, Begin, Shutdown, ForgetSession, outcome, own
<1>6. CASE \/ FinishWriter \/ JoinWriter
  BY <1>6 DEF FinishWriter, JoinWriter, Go, W!Close, W!Conclude, outcome, own
<1>7. CASE \/ Report \/ (\E ok \in BOOLEAN : WriteMetadata(ok))
  BY <1>7 DEF Report, WriteMetadata, Go, outcome, own
<1>8. CASE Throw
  BY <1>8 DEF Throw, Go, outcome, own
<1>9. CASE \/ Leave \/ DestroyObjects
  BY <1>9 DEF Leave, DestroyObjects, Go, Destroy, Begin, outcome, own
<1>10. CASE SessionStep
  BY <1>10 DEF SessionStep, outcome, own
<1>11. ASSUME NEW valid \in BOOLEAN, StreamCallback(valid)
      PROVE  OutcomeTyped'
  BY <1>11 DEF StreamCallback, RequestStop, outcome, own
<1>12. CASE \/ EnqueueAccepted \/ EnqueueRefused \/ EnqueueThrows
  BY <1>12 DEF EnqueueAccepted, EnqueueRefused, EnqueueThrows,
     CallbackReturns, W!Accept, W!Refuse, RequestStop, outcome, own
<1>13. CASE EnqueueNull
  BY <1>13 DEF EnqueueNull, outcome, own
<1>14. CASE \/ EventCallbackRuns \/ SignalArrives
  BY <1>14 DEF EventCallbackRuns, SignalArrives, EventCallback,
     PowerOverloadChange, CheckSelected, RecordAckFailure, DeviceRemoved,
     Acknowledge, AcknowledgeOverload, Attempt, outcome, own
<1>15. CASE \/ WriterRecords \/ WriterFails
  BY <1>15 DEF WriterRecords, WriterFails, W!Record, W!Fail, RequestStop,
     outcome, own
<1>16. CASE UNCHANGED captureVars
  BY <1>16 DEF captureVars, vars, flags, params, control, events, apiVars,
     own, writerVars, outcome, objects, stream
<1>. HIDE DEF OutcomeTyped
<1>. QED BY <1>1, <1>2, <1>3, <1>4, <1>5, <1>6, <1>7, <1>8, <1>9, <1>10,
            <1>11, <1>12, <1>13, <1>14, <1>15, <1>16 DEF CaptureNext,
            Application, Enqueue, CaptureDone

\* So is what is said of the objects and the statistics.
LEMMA ObjectsTypedStep ==
  ASSUME ObjectsTyped, [CaptureNext]_captureVars
  PROVE  ObjectsTyped'
<1>. USE DEF ObjectsTyped
<1>1. CASE \/ ConnectReceiver \/ Connected
           \/ (\E biasT \in BOOLEAN : ConfigureReceiver(biasT)) \/ Configured
  BY <1>1 DEF ConnectReceiver, Connected, ConfigureReceiver, Configured, Go,
     Connect, Configure, objects, stream, own
<1>2. CASE \/ (\E ok \in BOOLEAN : OpenWriter(ok)) \/ Opened
           \/ InitialiseReceiver \/ Initialised
  BY <1>2 DEF OpenWriter, Opened, InitialiseReceiver, Initialised, Go,
     Initialise, objects, stream, own
<1>3. ASSUME NEW ok \in BOOLEAN, CommitOutput(ok)
      PROVE  ObjectsTyped'
  BY <1>3 DEF CommitOutput, Go, RequestStop, objects, stream, own
<1>4. CASE \/ StopSeen \/ DurationOver \/ SignalSeen \/ LookAgain
  BY <1>4 DEF StopSeen, DurationOver, SignalSeen, LookAgain, Go, RequestStop,
     objects, stream, own
<1>5. CASE \/ StopReceiver \/ ShutdownReceiver \/ ForgetReceiver \/ Detach
  BY <1>5 DEF StopReceiver, ShutdownReceiver, ForgetReceiver, Detach, Go,
     StopStreaming, Begin, Shutdown, ForgetSession, objects, stream, own
<1>6. CASE \/ FinishWriter \/ JoinWriter
  BY <1>6 DEF FinishWriter, JoinWriter, Go, W!Close, W!Conclude, objects,
     stream, own
<1>7. CASE \/ Report \/ (\E ok \in BOOLEAN : WriteMetadata(ok))
  BY <1>7 DEF Report, WriteMetadata, Go, objects, stream, own
<1>8. CASE Throw
  BY <1>8 DEF Throw, Go, objects, stream, own
<1>9. CASE \/ Leave \/ DestroyObjects
  BY <1>9 DEF Leave, DestroyObjects, Go, Destroy, Begin, objects, stream, own
<1>10. CASE SessionStep
  BY <1>10 DEF SessionStep, objects, stream, own
<1>11. ASSUME NEW valid \in BOOLEAN, StreamCallback(valid)
      PROVE  ObjectsTyped'
  BY <1>11 DEF StreamCallback, RequestStop, objects, stream, own
<1>12. CASE \/ EnqueueAccepted \/ EnqueueRefused \/ EnqueueThrows
  BY <1>12 DEF EnqueueAccepted, EnqueueRefused, EnqueueThrows,
     CallbackReturns, W!Accept, W!Refuse, RequestStop, objects, stream, own
<1>13. CASE EnqueueNull
  BY <1>13 DEF EnqueueNull, objects, stream, own
<1>14. CASE \/ EventCallbackRuns \/ SignalArrives
  BY <1>14 DEF EventCallbackRuns, SignalArrives, EventCallback,
     PowerOverloadChange, CheckSelected, RecordAckFailure, DeviceRemoved,
     Acknowledge, AcknowledgeOverload, Attempt, objects, stream, own
<1>15. CASE \/ WriterRecords \/ WriterFails
  BY <1>15 DEF WriterRecords, WriterFails, W!Record, W!Fail, RequestStop,
     objects, stream, own
<1>16. CASE UNCHANGED captureVars
  BY <1>16 DEF captureVars, vars, flags, params, control, events, apiVars,
     own, writerVars, outcome, objects, stream
<1>. HIDE DEF ObjectsTyped
<1>. QED BY <1>1, <1>2, <1>3, <1>4, <1>5, <1>6, <1>7, <1>8, <1>9, <1>10,
            <1>11, <1>12, <1>13, <1>14, <1>15, <1>16 DEF CaptureNext,
            Application, Enqueue, CaptureDone


-----------------------------------------------------------------------------
(* The invariance theorem.                                                 *)

LEMMA InitCaptureInv == CaptureInit => CaptureInv
<1>. SUFFICES ASSUME CaptureInit PROVE CaptureInv
  OBVIOUS
<1>1. /\ step = "connect" /\ life = "new" /\ alive /\ ~deviceInitialised
      /\ ~writerExists /\ ~writerSet /\ accepting /\ verdict = "none"
      /\ ~thrown /\ ~committed /\ ~succeeded
      /\ log = <<>> /\ lost = 0 /\ delivering = <<>> /\ delivered = 0
      /\ failed = {}
  <2>1. ~deviceInitialised /\ life = "new" /\ failed = {}
    BY DEF CaptureInit, Init, ApiInit
  <2>2. /\ alive /\ ~writerExists /\ ~writerSet /\ accepting
        /\ ~thrown /\ ~committed /\ ~succeeded
    BY DEF CaptureInit
  <2>3. /\ step = "connect" /\ verdict = "none" /\ log = <<>> /\ lost = 0
        /\ delivering = <<>> /\ delivered = 0
    BY DEF CaptureInit
  <2>. QED BY <2>1, <2>2, <2>3
<1>2. Where /\ Stopped
  BY <1>1 DEF Where, Stopped, Early
<1>3. Writer /\ Signal
  BY <1>1 DEF Writer, Signal, Early, After
<1>4. InCallback /\ UninitReported /\ Success
  BY <1>1 DEF InCallback, UninitReported, Success
<1>5. UpTo(0) = <<>>
  BY DEF UpTo
<1>6. Complete
  BY <1>1, <1>5 DEF Complete
<1>. QED BY <1>2, <1>3, <1>4, <1>6 DEF CaptureInv

LEMMA NextCaptureInv ==
  SessionInv /\ Counted /\ CaptureInv /\ [CaptureNext]_captureVars
    => CaptureInv'
<1>. SUFFICES ASSUME SessionInv, Counted, CaptureInv,
                     [CaptureNext]_captureVars
              PROVE  CaptureInv'
  OBVIOUS
<1>. QED
  BY WhereStep, StoppedStep, WriterStep, InCallbackStep, SignalStep,
     CompleteStep, UninitStep, SuccessStep DEF CaptureInv

\* At every place of runCapture() the session is where it should be, the
\* writer is waited for, callbacks have their objects, and what is missing in
\* the recording is on record.
THEOREM CaptureInvariance == CaptureSpec => []CaptureInv
<1>1. SessionInv /\ Counted /\ CaptureInv /\ [CaptureNext]_captureVars
        => CaptureInv'
  BY NextCaptureInv
<1>. QED
  BY <1>1, InitCaptureInv, SessionInCapture, BlocksCounted, PTL
     DEF CaptureSpec

\* The flags and the places keep their types.
LEMMA OwnTypeCorrect == CaptureSpec => []OwnTyped
<1>1. CaptureInit => OwnTyped
  BY DEF CaptureInit, OwnTyped, WriterTyped, PlaceTyped, OutcomeTyped,
         ObjectsTyped
<1>2. Counted /\ OwnTyped /\ [CaptureNext]_captureVars => OwnTyped'
  <2>. SUFFICES ASSUME Counted, OwnTyped, [CaptureNext]_captureVars
                PROVE  OwnTyped'
    OBVIOUS
  <2>1. WriterTyped'
    BY WriterUsed
       DEF OwnTyped, WriterTyped, W!Next, W!Accept, W!Refuse, W!Record,
           W!Close, W!Fail, W!Conclude, W!vars
  <2>. QED
    BY <2>1, PlaceTypedStep, OutcomeTypedStep, ObjectsTypedStep
       DEF OwnTyped
<1>. QED BY <1>1, <1>2, BlocksCounted, PTL DEF CaptureSpec

\* Every variable keeps its type; so there are never more blocks lost than
\* were delivered.
THEOREM CaptureTypeCorrect == CaptureSpec => []CaptureTypeOK
<1>1. SessionInv /\ Counted /\ OwnTyped => CaptureTypeOK
  <2>. SUFFICES ASSUME SessionInv, Counted, OwnTyped PROVE CaptureTypeOK
    OBVIOUS
  <2>1. TypeOK
    BY DEF SessionInv
  <2>2. lost \in 0 .. delivered
    <3>1. /\ lost \in Nat /\ Len(recording) \in Nat /\ Len(delivering) \in Nat
          /\ delivered \in 0 .. MaxDeliveries
          /\ lost + Len(recording) + Len(delivering) <= delivered
      BY DEF Counted
    <3>. QED BY <3>1, CaptureAssumption
  <2>3. /\ log \in Seq(1 .. MaxDeliveries)
        /\ recording \in Seq(1 .. MaxDeliveries)
        /\ delivering \in {<<>>} \union {<<n>> : n \in 1 .. MaxDeliveries}
        /\ delivered \in 0 .. MaxDeliveries
    BY DEF Counted, Blocks
  <2>. QED
    BY <2>1, <2>2, <2>3
       DEF CaptureTypeOK, OwnTyped, WriterTyped, PlaceTyped, OutcomeTyped,
           ObjectsTyped
<1>. QED
  BY <1>1, SessionInCapture, BlocksCounted, OwnTypeCorrect, PTL

-----------------------------------------------------------------------------
(* What the exit status says.                                              *)

\* Whatever fails, is lost or is refused on the way, in whichever thread, the
\* program does not return zero.
THEOREM ZeroMeansComplete == CaptureSpec => []ExitTellsTheTruth
<1>1. SessionInv /\ CaptureInv => ExitTellsTheTruth
  <2>. SUFFICES ASSUME SessionInv, CaptureInv, succeeded
                PROVE  /\ recording = [n \in 1 .. delivered |-> n]
                       /\ lost = 0 /\ ~deviceRemoved
                       /\ acknowledged = overloads /\ service = Idle
    BY DEF ExitTellsTheTruth, ExitedZero
  <2>1. callback = "idle" /\ delivering = <<>> /\ "Uninit" \notin failed
    BY QuietAfterSuccess
  <2>2. /\ verdict = "ok" /\ ~callbackFailure /\ ~overflow
        /\ ~deviceRemoved /\ ackFailures = 0 /\ service = Idle
    BY DEF CaptureInv, Success
  <2>3. recording = log /\ ~writerFailure
    BY <2>2 DEF CaptureInv, Writer
  <2>4. <<delivered>> # <<>>
    OBVIOUS
  <2>5. lost = 0 /\ log = UpTo(delivered)
    BY <2>1, <2>2, <2>3, <2>4 DEF CaptureInv, Complete
  <2>6. /\ overloads = acknowledged + ackFailures
        /\ acknowledged \in Nat
    BY <2>1 DEF SessionInv, OverloadsAnswered, TypeOK
  <2>. QED BY <2>2, <2>3, <2>5, <2>6 DEF UpTo
<1>. QED BY <1>1, SessionInCapture, CaptureInvariance, PTL

\* The service forgets no failure.
LEMMA FailuresStay ==
  ASSUME [CaptureNext]_captureVars
  PROVE  failed \subseteq failed'
<1>1. CASE Proceed
  BY <1>1, EventsStay
<1>2. CASE EventCallback
  BY <1>2 DEF EventCallback, PowerOverloadChange, CheckSelected, Acknowledge,
     RecordAckFailure, DeviceRemoved, AcknowledgeOverload, Attempt, apiVars
<1>3. Proceed \/ EventCallback \/ failed' = failed
  BY SessionUsed
     DEF Next, Connect, Configure, Initialise, StopStreaming, Shutdown,
         ForgetSession, Destroy, Begin, StopRequestedElsewhere, Done,
         vars, apiVars
<1>. QED BY <1>1, <1>2, <1>3

\* A refusal finds the writer closed for a reason that is on record, or is
\* the overflow that closes it; a failure is on record itself.
LEMMA LossStep ==
  ASSUME CaptureInv, LossIsTold, [CaptureNext]_captureVars
  PROVE  LossIsTold'
<1>. SUFFICES ASSUME lost' > 0, "Uninit" \notin failed'
              PROVE  writerFailure' \/ overflow'
  BY DEF LossIsTold
<1>1. "Uninit" \notin failed
  BY FailuresStay
<1>2. CASE EnqueueRefused
  <2>1. /\ delivering # <<>> /\ writerFailure' = writerFailure
        /\ overflow' = (overflow \/ accepting)
    BY <1>2 DEF EnqueueRefused, CallbackReturns, W!Refuse
  <2>2. alive /\ writerSet
    BY <1>1, <2>1 DEF CaptureInv, InCallback
  <2>3. accepting \/ overflow \/ writerFailure
    BY <2>2 DEF CaptureInv, Writer
  <2>. QED BY <2>1, <2>3
<1>3. CASE WriterFails
  BY <1>3 DEF WriterFails, W!Fail
<1>4. EnqueueRefused \/ WriterFails
        \/ UNCHANGED <<lost, writerFailure, overflow>>
  BY DEF CaptureNext, captureVars, Application, own, writerVars, stream,
         Enqueue, ConnectReceiver, Connected, Opened, InitialiseReceiver,
         Initialised, StopSeen, SignalSeen, LookAgain, StopReceiver,
         ShutdownReceiver, ForgetReceiver, Detach, FinishWriter, JoinWriter,
         Report, Leave, DestroyObjects, SessionStep, ConfigureReceiver,
         OpenWriter, CommitOutput, WriteMetadata, DurationOver, Throw,
         EnqueueNull, EnqueueAccepted, EnqueueThrows, EventCallbackRuns,
         WriterRecords, SignalArrives, CaptureDone, Configured,
         StreamCallback, CallbackReturns, W!Accept, W!Record, W!Close,
         W!Conclude
<1>5. CASE UNCHANGED <<lost, writerFailure, overflow>>
  BY <1>1, <1>5 DEF LossIsTold
<1>. QED BY <1>2, <1>3, <1>4, <1>5

\* No block is refused only because runCapture() had closed the writer.
THEOREM LossHasCause == CaptureSpec => []LossIsTold
<1>1. CaptureInit => LossIsTold
  BY DEF CaptureInit, LossIsTold
<1>2. CaptureInv /\ LossIsTold /\ [CaptureNext]_captureVars => LossIsTold'
  BY LossStep
<1>. QED BY <1>1, <1>2, CaptureInvariance, PTL DEF CaptureSpec

\* A signal the program had a chance to see makes the exit status nonzero.
THEOREM SignalMeansNonzero == CaptureSpec => []InterruptionReported
<1>1. CaptureInv => InterruptionReported
  BY DEF CaptureInv, Success, InterruptionReported, ExitedZero
<1>. QED BY <1>1, CaptureInvariance, PTL

-----------------------------------------------------------------------------
(* Lifetimes.                                                              *)

\* A callback that may still run finds its objects: the session, which ends
\* the stream, is destroyed before them.
THEOREM ObjectsOutliveCallbacks == CaptureSpec => []CallbackFindsItsObjects
<1>1. SessionInv /\ CaptureInv => CallbackFindsItsObjects
  <2>. SUFFICES ASSUME SessionInv, CaptureInv, "Uninit" \notin failed
                PROVE  /\ service.streaming => alive
                       /\ delivering # <<>> =>
                            alive /\ writerSet /\ service.streaming
    BY DEF CallbackFindsItsObjects
  <2>1. ASSUME ~alive PROVE ~service.streaming
    <3>1. life = "destroyed"
      BY <2>1 DEF CaptureInv, Where
    <3>2. ~deviceInitialised /\ at = "client"
      BY <3>1 DEF SessionInv, Place, GivingBack, Over
    <3>. QED BY <3>2 DEF SessionInv, Owed
  <2>. QED BY <2>1 DEF CaptureInv, InCallback
<1>. QED BY <1>1, SessionInCapture, CaptureInvariance, PTL

\* The writer thread finds the stop flag, unless an exception passed by.
THEOREM FlagOutlivesWriter == CaptureSpec => []StopFlagOutlivesWriter
<1>1. CaptureInv => StopFlagOutlivesWriter
  BY DEF CaptureInv, Writer, StopFlagOutlivesWriter
<1>. QED BY <1>1, CaptureInvariance, PTL

-----------------------------------------------------------------------------
(* The statistics.                                                         *)

\* Once they have been read, stream, callbacks and writer are at rest.
LEMMA ReportedAtRest ==
  ASSUME SessionInv, CaptureInv, Reported
  PROVE  /\ step \in {"metadata", "leave", "unwind", "exited"}
         /\ ~service.streaming /\ callback = "idle" /\ delivering = <<>>
         /\ verdict # "none"
<1>1. /\ step \in {"metadata", "leave", "unwind", "exited"}
      /\ committed /\ ~thrown /\ "Uninit" \notin failed
  BY DEF Reported
<1>2. ~service.streaming
  <2>1. CASE step \in {"metadata", "leave"}
    <3>1. life = "shut"
      BY <1>1, <2>1 DEF CaptureInv, Stopped
    <3>. QED BY <1>1, <3>1 DEF SessionInv, Place, GivingBack, Over, Owed
  <2>2. CASE step \in {"unwind", "exited"}
    <3>1. life \in {"dying", "destroyed"}
      BY <2>2 DEF CaptureInv, Where
    <3>2. ~deviceInitialised
      BY <1>1, <2>2, <3>1 DEF CaptureInv, Stopped, Where, SessionInv,
                              GivingBack, Over
    <3>3. at # "initialised"
      BY <3>1 DEF SessionInv, Place, Ending, Clearing
    <3>. QED BY <1>1, <3>2, <3>3 DEF SessionInv, Owed
  <2>. QED BY <1>1, <2>1, <2>2
<1>3. callback = "idle" /\ delivering = <<>>
  BY <1>1, <1>2 DEF SessionInv, CallbackStreams, CaptureInv, InCallback
<1>4. verdict # "none"
  BY <1>1 DEF CaptureInv, Writer, Where
<1>. QED BY <1>1, <1>2, <1>3, <1>4

\* Then no step changes what was reported: the actions that could do so need
\* an earlier place, the stream, or a block on its way.
LEMMA NothingToReport ==
  ASSUME step \in {"metadata", "leave", "unwind", "exited"},
         ~service.streaming, callback = "idle", delivering = <<>>,
         verdict # "none", [CaptureNext]_captureVars
  PROVE  UNCHANGED reported
<1>. USE DEF reported
<1>1. CASE \/ ConnectReceiver \/ Connected
           \/ (\E biasT \in BOOLEAN : ConfigureReceiver(biasT)) \/ Configured
  BY <1>1 DEF ConnectReceiver, Connected, ConfigureReceiver, Configured, Go,
     Connect, Configure, vars, flags, params, control, events, apiVars, own,
     writerVars, outcome, objects, stream
<1>2. CASE \/ (\E ok \in BOOLEAN : OpenWriter(ok)) \/ Opened
           \/ InitialiseReceiver \/ Initialised
  BY <1>2 DEF OpenWriter, Opened, InitialiseReceiver, Initialised, Go,
     Initialise, vars, flags, params, control, events, apiVars, own,
     writerVars, outcome, objects, stream
<1>3. ASSUME NEW ok \in BOOLEAN, CommitOutput(ok)
      PROVE  UNCHANGED reported
  BY <1>3 DEF CommitOutput, Go, RequestStop, vars, flags, params, control,
     events, apiVars, own, writerVars, outcome, objects, stream
<1>4. CASE \/ StopSeen \/ DurationOver \/ SignalSeen \/ LookAgain
  BY <1>4 DEF StopSeen, DurationOver, SignalSeen, LookAgain, Go, RequestStop,
     vars, flags, params, control, events, apiVars, own, writerVars, outcome,
     objects, stream
<1>5. CASE \/ StopReceiver \/ ShutdownReceiver \/ ForgetReceiver \/ Detach
  BY <1>5 DEF StopReceiver, ShutdownReceiver, ForgetReceiver, Detach, Go,
     StopStreaming, Begin, Shutdown, ForgetSession, vars, flags, params,
     control, events, apiVars, own, writerVars, outcome, objects, stream
<1>6. CASE \/ FinishWriter \/ JoinWriter
  BY <1>6 DEF FinishWriter, JoinWriter, Go, W!Close, W!Conclude, vars, flags,
     params, control, events, apiVars, own, writerVars, outcome, objects,
     stream
<1>7. CASE \/ Report \/ (\E ok \in BOOLEAN : WriteMetadata(ok))
  BY <1>7 DEF Report, WriteMetadata, Go, vars, flags, params, control, events,
     apiVars, own, writerVars, outcome, objects, stream
<1>8. CASE Throw
  BY <1>8 DEF Throw, Go, vars, flags, params, control, events, apiVars, own,
     writerVars, outcome, objects, stream
<1>9. CASE \/ Leave \/ DestroyObjects
  BY <1>9 DEF Leave, DestroyObjects, Go, Destroy, Begin, vars, flags, params,
     control, events, apiVars, own, writerVars, outcome, objects, stream
<1>10. CASE SessionStep
  BY <1>10, EventsStay DEF SessionStep, vars, flags, params, control, events,
     apiVars, own, writerVars, outcome, objects, stream
<1>11. ASSUME NEW valid \in BOOLEAN, StreamCallback(valid)
      PROVE  UNCHANGED reported
  BY <1>11 DEF StreamCallback, RequestStop, vars, flags, params, control,
     events, apiVars, own, writerVars, outcome, objects, stream, CallbacksRun
<1>12. CASE \/ EnqueueAccepted \/ EnqueueRefused \/ EnqueueThrows
  BY <1>12 DEF EnqueueAccepted, EnqueueRefused, EnqueueThrows,
     CallbackReturns, W!Accept, W!Refuse, RequestStop, vars, flags, params,
     control, events, apiVars, own, writerVars, outcome, objects, stream
<1>13. CASE EnqueueNull
  BY <1>13 DEF EnqueueNull, vars, flags, params, control, events, apiVars,
     own, writerVars, outcome, objects, stream
<1>14. CASE \/ EventCallbackRuns \/ SignalArrives
  BY <1>14 DEF EventCallbackRuns, SignalArrives, EventCallback,
     PowerOverloadChange, CheckSelected, RecordAckFailure, DeviceRemoved,
     Acknowledge, AcknowledgeOverload, Attempt, vars, flags, params, control,
     events, apiVars, own, writerVars, outcome, objects, stream
<1>15. CASE \/ WriterRecords \/ WriterFails
  BY <1>15 DEF WriterRecords, WriterFails, W!Record, W!Fail, RequestStop,
     vars, flags, params, control, events, apiVars, own, writerVars, outcome,
     objects, stream
<1>16. CASE UNCHANGED captureVars
  BY <1>16 DEF captureVars, vars, flags, params, control, events, apiVars,
     own, writerVars, outcome, objects, stream
<1>. HIDE DEF reported
<1>. QED BY <1>1, <1>2, <1>3, <1>4, <1>5, <1>6, <1>7, <1>8, <1>9, <1>10,
            <1>11, <1>12, <1>13, <1>14, <1>15, <1>16 DEF CaptureNext,
            Application, Enqueue, CaptureDone

\* What the summary and the companion file say stays true.
THEOREM ReportIsFinal == CaptureSpec => StatisticsFinal
<1>1. SessionInv /\ CaptureInv /\ [CaptureNext]_captureVars
        => [Reported => UNCHANGED reported]_captureVars
  BY ReportedAtRest, NothingToReport
<1>. QED
  BY <1>1, SessionInCapture, CaptureInvariance, PTL
     DEF CaptureSpec, StatisticsFinal

-----------------------------------------------------------------------------
(* What StopEndsCapture rests on, apart from fairness: the application     *)
(* thread has finitely many steps, and where it waits for another thread,  *)
(* that thread can answer.                                                 *)

\* How many places of runCapture() may still be passed, the destructors'
\* call of finish() being the last, and how many calls of an operation.
PlacesFrom ==
  [connect |-> 23, connected |-> 22, configure |-> 21, configured |-> 20,
   open |-> 19, opened |-> 18, initialise |-> 17, initialising |-> 16,
   commit |-> 15, stream |-> 14, look |-> 13, stop |-> 12, shutdown |-> 11,
   forget |-> 10, detach |-> 9, finish |-> 8, join |-> 7, report |-> 6,
   metadata |-> 5, leave |-> 4, unwind |-> 3, exited |-> 0, crashed |-> 0]

LastPlacesFrom ==
  IF step = "finish" THEN 2 ELSE IF step = "join" THEN 1 ELSE 0

PlacesLeft == IF alive THEN PlacesFrom[step] ELSE LastPlacesFrom

CallsFrom ==
  [open |-> 7, version |-> 6, lock |-> 5, devices |-> 4, select |-> 3,
   unlock |-> 2, params |-> 1, init |-> 2, initialised |-> 1, biasT |-> 6,
   uninit |-> 5, release |-> 4, unlockAgain |-> 3, close |-> 2, return |-> 1,
   client |-> 0]

CallsLeft == CallsFrom[at]

\* An operation makes at most seven calls, fewer than a place counts for.
Left == 8 * PlacesLeft + CallsLeft

\* A step of the application thread, one that leads out of the wait loop
\* included, brings the end of the program nearer, and no other moves it away.
RunsOut ==
  [][/\ Left' <= Left
     /\ Application \/ DurationOver \/ Throw => Left' < Left]_captureVars

\* Within an operation each call is later in the list than the one before.
LEMMA CallsGoDown == ASSUME Proceed PROVE CallsLeft' < CallsLeft
<1>. USE DEF CallsLeft, CallsFrom
<1>1. CASE InitialiseReturn \/ BiasTNothingToUpdate \/ Skip \/ Return
  BY <1>1 DEF InitialiseReturn, BiasTNothingToUpdate, Skip, Return
<1>2. ASSUME NEW ok \in BOOLEAN,
             \/ ConnectOpen(ok) \/ ConnectLock(ok) \/ ConnectSelect(ok)
             \/ ConnectUnlock(ok) \/ InitialiseCall(ok)
      PROVE  CallsLeft' < CallsLeft
  BY <1>2 DEF ConnectOpen, ConnectLock, ConnectSelect, ConnectUnlock,
     InitialiseCall, NextCall
<1>3. ASSUME NEW ok \in BOOLEAN, NEW good \in BOOLEAN,
             ConnectVersion(ok, good) \/ ConnectDevices(ok, good)
      PROVE  CallsLeft' < CallsLeft
  BY <1>3 DEF ConnectVersion, ConnectDevices, NextCall
<1>4. ASSUME NEW ok \in BOOLEAN,
             NEW received \in {"none", "noChannel", "noDevice", "complete"},
             ConnectParams(ok, received)
      PROVE  CallsLeft' < CallsLeft
  BY <1>4 DEF ConnectParams
<1>5. ASSUME NEW ok \in BOOLEAN,
             \/ BiasTUpdate(ok) \/ UninitCall(ok) \/ ReleaseCall(ok)
             \/ UnlockCall(ok) \/ CloseCall(ok)
      PROVE  CallsLeft' < CallsLeft
  <2>1. CASE UninitCall(ok)
    <3>1. at = "uninit" /\ (at' = "return" \/ at' = "release")
      BY <2>1 DEF UninitCall
    <3>. QED BY <3>1
  <2>2. CASE BiasTUpdate(ok)
    BY <2>2 DEF BiasTUpdate
  <2>3. CASE ReleaseCall(ok) \/ UnlockCall(ok) \/ CloseCall(ok)
    BY <2>3 DEF ReleaseCall, UnlockCall, CloseCall
  <2>. QED BY <1>5, <2>1, <2>2, <2>3
<1>. HIDE DEF CallsLeft, CallsFrom
<1>. QED BY <1>1, <1>2, <1>3, <1>4, <1>5 DEF Proceed

\* Between two operations each place is later in the list.
LEMMA PlacesGoDown ==
  ASSUME CaptureInv, ObjectsTyped,
         Application \/ DurationOver \/ Throw, ~SessionStep
  PROVE  /\ PlacesLeft' < PlacesLeft
         /\ PlacesLeft \in Nat /\ PlacesLeft' \in Nat
<1>. DEFINE Down == /\ PlacesLeft' < PlacesLeft
                    /\ PlacesLeft \in Nat /\ PlacesLeft' \in Nat
<1>. USE DEF PlacesLeft, PlacesFrom, LastPlacesFrom, Go
<1>1. alive \/ step \in {"finish", "join", "exited"}
  BY DEF CaptureInv, Where
<1>2. CASE \/ ConnectReceiver \/ Connected
           \/ (\E biasT \in BOOLEAN : ConfigureReceiver(biasT)) \/ Configured
  BY <1>1, <1>2 DEF ConnectReceiver, Connected, ConfigureReceiver, Configured,
     own, objects
<1>3. CASE \/ (\E ok \in BOOLEAN : OpenWriter(ok)) \/ Opened
           \/ InitialiseReceiver \/ Initialised
  BY <1>1, <1>3 DEF OpenWriter, Opened, InitialiseReceiver, Initialised, own,
     objects
<1>4. ASSUME NEW ok \in BOOLEAN, CommitOutput(ok)
      PROVE  Down
  BY <1>1, <1>4 DEF CommitOutput, objects
<1>5. CASE StopSeen \/ DurationOver \/ SignalSeen \/ LookAgain
  BY <1>1, <1>5 DEF StopSeen, DurationOver, SignalSeen, LookAgain, own, objects
<1>6. CASE StopReceiver \/ ShutdownReceiver \/ ForgetReceiver \/ Detach
  BY <1>1, <1>6 DEF StopReceiver, ShutdownReceiver, ForgetReceiver, Detach,
     own, objects
<1>7. CASE FinishWriter \/ JoinWriter
  BY <1>7 DEF FinishWriter, JoinWriter, objects
<1>8. CASE Report \/ \E ok \in BOOLEAN : WriteMetadata(ok)
  BY <1>1, <1>8 DEF Report, WriteMetadata, objects
<1>9. CASE Throw
  BY <1>1, <1>9 DEF Throw, objects
<1>10. CASE Leave \/ DestroyObjects
  BY <1>1, <1>10 DEF Leave, DestroyObjects, own, objects
<1>. QED
  BY <1>2, <1>3, <1>4, <1>5, <1>6, <1>7, <1>8, <1>9, <1>10 DEF Application

\* No other thread moves the application thread, unless the program crashes.
LEMMA OthersLeaveIt ==
  ASSUME [CaptureNext]_captureVars, ~Application, ~DurationOver, ~Throw
  PROVE  UNCHANGED <<step, alive, at>> \/ EnqueueNull
<1>1. CASE \E valid \in BOOLEAN : StreamCallback(valid)
  BY <1>1 DEF StreamCallback, RequestStop, objects, vars, control
<1>2. CASE Enqueue
  BY <1>2 DEF Enqueue, EnqueueAccepted, EnqueueRefused, EnqueueThrows,
     CallbackReturns, RequestStop, objects, vars, control
<1>3. CASE EventCallbackRuns
  BY <1>3 DEF EventCallbackRuns, EventCallback, PowerOverloadChange,
     CheckSelected, RecordAckFailure, DeviceRemoved, Acknowledge, own, objects,
     control
<1>4. CASE WriterRecords \/ WriterFails
  BY <1>4 DEF WriterRecords, WriterFails, RequestStop, objects, vars, control
<1>5. CASE SignalArrives \/ CaptureDone \/ UNCHANGED captureVars
  BY <1>5 DEF SignalArrives, CaptureDone, captureVars, own, objects, vars,
     control
<1>. QED BY <1>1, <1>2, <1>3, <1>4, <1>5 DEF CaptureNext

\* A place weighs more than the calls of an operation together.
LEMMA Weight ==
  \A c, d \in 0 .. 7 : \A p, q \in Nat :
    q < p \/ (q = p /\ d < c) => 8 * q + d < 8 * p + c
OBVIOUS

\* Whatever callbacks, writer and signals do, runCapture() and the destructors
\* behind it pass at most 23 places with at most seven calls each, and no
\* place leads back: a program that does not end waits at one of them.
THEOREM CaptureRunsOut == CaptureSpec => RunsOut
<1>. DEFINE Step == /\ Left' <= Left
                    /\ Application \/ DurationOver \/ Throw => Left' < Left
<1>1. SessionInv /\ SessionInv' /\ CaptureInv /\ OwnTyped
        /\ [CaptureNext]_captureVars => Step
  <2>. SUFFICES ASSUME SessionInv, SessionInv', CaptureInv, OwnTyped,
                       [CaptureNext]_captureVars
                PROVE  Step
    OBVIOUS
  <2>1. CallsLeft \in 0 .. 7
    BY DEF SessionInv, TypeOK, CallsLeft, CallsFrom
  <2>2. CallsLeft' \in 0 .. 7
    BY DEF SessionInv, TypeOK, CallsLeft, CallsFrom
  <2>3. PlacesLeft \in Nat
    BY DEF OwnTyped, PlaceTyped, ObjectsTyped, PlacesLeft, PlacesFrom,
           LastPlacesFrom
  <2>4. PlacesLeft' \in Nat
    BY PlaceTypedStep, ObjectsTypedStep
       DEF OwnTyped, PlaceTyped, ObjectsTyped, PlacesLeft, PlacesFrom,
           LastPlacesFrom
  <2>5. Left \in Int /\ Left' \in Int
    BY <2>1, <2>2, <2>3, <2>4 DEF Left
  <2>. HIDE DEF Step
  <2>6. Left' < Left => Step
    BY <2>5 DEF Step
  <2>7. CASE (Application \/ DurationOver \/ Throw) /\ ~SessionStep
    <3>1. PlacesLeft' < PlacesLeft /\ PlacesLeft' \in Nat
      BY <2>7, PlacesGoDown DEF OwnTyped
    <3>2. 8 * PlacesLeft' + CallsLeft' < 8 * PlacesLeft + CallsLeft
      BY ONLY <2>1, <2>2, <2>3, <3>1, Zenon, Weight
    <3>. QED BY <2>6, <3>2 DEF Left
  <2>8. CASE SessionStep
    <3>1. PlacesLeft' = PlacesLeft
      BY <2>8 DEF SessionStep, own, objects, PlacesLeft, LastPlacesFrom
    <3>2. CallsLeft' < CallsLeft
      BY <2>8, CallsGoDown DEF SessionStep
    <3>3. 8 * PlacesLeft' + CallsLeft' < 8 * PlacesLeft + CallsLeft
      BY ONLY <2>1, <2>2, <2>3, <3>1, <3>2, Zenon, Weight
    <3>. QED BY <2>6, <3>3 DEF Left
  <2>9. CASE ~(Application \/ DurationOver \/ Throw)
    <3>1. CASE UNCHANGED <<step, alive, at>>
      <4>1. PlacesLeft' = PlacesLeft /\ CallsLeft' = CallsLeft
        BY <3>1 DEF PlacesLeft, LastPlacesFrom, CallsLeft
      <4>. QED BY <2>1, <2>3, <2>9, <4>1 DEF Left, Step
    <3>2. CASE EnqueueNull
      <4>1. PlacesLeft' = 0 /\ CallsLeft' = CallsLeft
        BY <3>2 DEF EnqueueNull, own, objects, vars, control, PlacesLeft,
           PlacesFrom, LastPlacesFrom, CallsLeft
      <4>. QED BY <2>1, <2>3, <2>9, <4>1 DEF Left, Step
    <3>. QED BY <2>9, <3>1, <3>2, OthersLeaveIt
  <2>. QED BY <2>7, <2>8, <2>9
<1>2. SessionInv /\ SessionInv' /\ CaptureInv /\ OwnTyped
        /\ [CaptureNext]_captureVars => [Step]_captureVars
  BY <1>1
<1>. QED
  BY <1>2, SessionInCapture, CaptureInvariance, OwnTypeCorrect, PTL
     DEF CaptureSpec, RunsOut

-----------------------------------------------------------------------------
(* Waiting for another thread.                                             *)

\* The recording is the beginning of the log, as OrderedRecording says.
Begins == \A n \in 1 .. Len(recording) : recording[n] = log[n]

\* The thread in join waits for a writer that was told to end: either there
\* is nothing left to write, or a failure has been recorded, or the writer
\* has a block to record.  Inside Uninit, the service waits for a callback
\* that has its objects and so can return.
Answered ==
  /\ step = "join" =>
       /\ ~accepting /\ verdict = "none"
       /\ \/ recording = log \/ writerFailure
          \/ writerExists /\ Len(recording) < Len(log)
  /\ at = "uninit" => alive

LEMMA BeginsStep ==
  ASSUME Counted, Begins, [W!Next]_W!vars
  PROVE  Begins'
<1>1. /\ log \in Seq(Blocks) /\ recording \in Seq(Blocks)
      /\ Len(log) \in Nat /\ Len(recording) \in Nat
      /\ Len(recording) <= Len(log)
  BY DEF Counted
<1>2. CASE UNCHANGED <<log, recording>>
  BY <1>2 DEF Begins
<1>3. ASSUME NEW b \in Blocks, W!Accept(b)
      PROVE  Begins'
  <2>1. recording' = recording /\ log' = Append(log, b)
    BY <1>3 DEF W!Accept
  <2>2. \A n \in 1 .. Len(log) : log'[n] = log[n]
    BY <1>1, <2>1, AppendProperties
  <2>. QED BY <1>1, <2>1, <2>2 DEF Begins
<1>4. CASE W!Record
  <2>1. /\ log' = log /\ Len(recording) < Len(log)
        /\ recording' = Append(recording, log[Len(recording) + 1])
    BY <1>4 DEF W!Record
  <2>2. log[Len(recording) + 1] \in Blocks
    BY <1>1, <2>1, ElementOfSeq
  <2>3. /\ Len(recording') = Len(recording) + 1
        /\ recording'[Len(recording) + 1] = log[Len(recording) + 1]
        /\ \A n \in 1 .. Len(recording) : recording'[n] = recording[n]
    BY <1>1, <2>1, <2>2, AppendProperties
  <2>. QED BY <1>1, <2>1, <2>3 DEF Begins
<1>. QED
  BY <1>2, <1>3, <1>4
     DEF W!Next, W!vars, W!Refuse, W!Close, W!Fail, W!Conclude, Blocks

\* The writer is closed before it is waited for, and stays closed.
LEMMA ClosedStep ==
  ASSUME Counted, accepting \in BOOLEAN, step = "join" => ~accepting,
         [CaptureNext]_captureVars
  PROVE  step' = "join" => ~accepting'
<1>1. accepting' => accepting
  BY WriterUsed
     DEF W!Next, W!vars, W!Accept, W!Refuse, W!Record, W!Close, W!Fail,
         W!Conclude
<1>2. CASE step' = step
  BY <1>1, <1>2
<1>3. CASE FinishWriter
  BY <1>3 DEF FinishWriter, W!Close, writerVars
<1>4. step' = step \/ FinishWriter \/ step' # "join"
  <2>1. CASE Application \/ DurationOver \/ Throw
    BY <2>1
       DEF Application, Go, ConnectReceiver, Connected, ConfigureReceiver,
           Configured, OpenWriter, Opened, InitialiseReceiver, Initialised,
           CommitOutput, StopSeen, DurationOver, SignalSeen, LookAgain,
           StopReceiver, ShutdownReceiver, ForgetReceiver, Detach, JoinWriter,
           Report, WriteMetadata, Throw, Leave, DestroyObjects, SessionStep
  <2>2. CASE ~Application /\ ~DurationOver /\ ~Throw
    BY <2>2, OthersLeaveIt DEF EnqueueNull
  <2>. QED BY <2>1, <2>2
<1>. QED BY <1>1, <1>2, <1>3, <1>4

\* A finish() that waits is answered, and so is an Uninit: no thread waits for
\* one that waits itself, or is gone.
THEOREM WaitsAreAnswered == CaptureSpec => []Answered
<1>. DEFINE Closed == step = "join" => ~accepting
<1>1. CaptureInit => Begins /\ Closed
  BY DEF CaptureInit, Begins
<1>2. Counted /\ OwnTyped /\ Begins /\ Closed /\ [CaptureNext]_captureVars
        => Begins' /\ Closed'
  <2>. SUFFICES ASSUME Counted, OwnTyped, Begins, Closed,
                       [CaptureNext]_captureVars
                PROVE  Begins' /\ Closed'
    OBVIOUS
  <2>1. Begins'
    BY WriterUsed, BeginsStep
  <2>2. Closed'
    BY ClosedStep DEF OwnTyped, WriterTyped
  <2>. QED BY <2>1, <2>2
<1>3. SessionInv /\ CaptureInv /\ Counted /\ Begins /\ Closed => Answered
  <2>. SUFFICES ASSUME SessionInv, CaptureInv, Counted, Begins, Closed
                PROVE  Answered
    OBVIOUS
  <2>1. at = "uninit" => alive
    <3>1. ~alive => life = "destroyed"
      BY DEF CaptureInv, Where
    <3>2. life = "destroyed" => at = "client"
      BY DEF SessionInv, Place, GivingBack, Over
    <3>. QED BY <3>1, <3>2
  <2>2. ASSUME step = "join", Len(recording) = Len(log)
        PROVE  recording = log
    BY <2>2, SeqEqual DEF Counted, Begins
  <2>3. Len(recording) <= Len(log) /\ Len(recording) \in Nat /\ Len(log) \in Nat
    BY DEF Counted
  <2>4. step = "join" => verdict = "none" /\ writerExists
    BY DEF CaptureInv, Writer, After
  <2>. QED BY <2>1, <2>2, <2>3, <2>4 DEF Answered
<1>. QED
  BY <1>1, <1>2, <1>3, SessionInCapture, CaptureInvariance, BlocksCounted,
     OwnTypeCorrect, PTL DEF CaptureSpec
=============================================================================
