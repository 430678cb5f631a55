-------------------------------- MODULE Probe --------------------------------
(***************************************************************************)
(* runProbe() and its streamCallback() (src/src/rsp1b_probe.cpp): the      *)
(* receiver streams for a second and the statistics are printed.  Unlike   *)
(* in a capture, the objects which the callbacks use are declared after    *)
(* the session and so destroyed before it, and nothing is queued: the      *)
(* stream callback updates shared counters, one after the other.           *)
(***************************************************************************)
EXTENDS DeviceSession, FiniteSets, Sequences

CONSTANTS
  SampleValues,   \* the values of a sample
  MaxCallbacks,   \* bound: calls of streamCallback(), with one sample each
  MaxFailures     \* bound: how many of the API's functions ever fail

ASSUME ProbeAssumption ==
  /\ \A value \in SampleValues :
       value \in Int /\ -32768 <= value /\ value <= 32767
  /\ MaxCallbacks \in Nat /\ MaxFailures \in Nat

VARIABLES
  step,       \* where the application thread is in runProbe()
  signal,     \* signalStopRequested()
  alive,      \* statistics, events and callbackContext exist
  count, low, high,   \* StreamStatistics: samples, xiMin and xiMax
  sample,     \* the sample in streamCallback(): <<place, value>>, or <<>>
  samples,    \* history: the values delivered
  printed,    \* the statistics as printed, <<>> before
  exit        \* "zero" or "one": the exit status

statistics == <<count, low, high>>
own        == <<signal, alive, statistics, sample, samples, printed, exit>>
probeVars  == <<vars, step, own>>

Go(from, to) == step = from /\ at = "client" /\ step' = to

RequestStop ==
  /\ stopRequested' = TRUE
  /\ UNCHANGED <<apiVars, flags, params, control, contextSession, callback,
                 deviceRemoved, overloads, ackFailures, acknowledged>>

-----------------------------------------------------------------------------
(* Faulty variants, none of them part of ProbeNext.                        *)

\* The extrema start at zero.
StatisticsFromZero == count = 0 /\ low = 0 /\ high = 0

\* I and Q are counted separately.
CountComponents == count' = count + 2

\* A signal leaves the loop and the function.
SignalReturns ==
  /\ Go("stream", "leave") /\ ~stopRequested /\ signal
  /\ RequestStop
  /\ UNCHANGED own

-----------------------------------------------------------------------------

StatisticsInit == count = 0 /\ low = 32767 /\ high = -32768

ProbeInit ==
  /\ Init /\ StatisticsInit
  /\ step = "connect" /\ signal = FALSE /\ alive = FALSE
  /\ sample = <<>> /\ samples = <<>> /\ printed = <<>> /\ exit = "one"

ConnectReceiver == Go("connect", "connected") /\ Connect /\ UNCHANGED own

Connected ==
  /\ Go("connected", IF deviceParams = "complete" /\ ~signal
                       THEN "configure" ELSE "leave")
  /\ UNCHANGED <<vars, own>>

\* The default configuration, in which Bias-T is off.
ConfigureReceiver ==
  Go("configure", "configured") /\ Configure(FALSE) /\ UNCHANGED own

Configured ==
  /\ Go("configured", IF signal THEN "leave" ELSE "objects")
  /\ UNCHANGED <<vars, own>>

CreateObjects ==
  /\ Go("objects", IF signal THEN "leave" ELSE "initialise")
  /\ alive' = TRUE
  /\ UNCHANGED <<vars, signal, statistics, sample, samples, printed, exit>>

InitialiseReceiver ==
  Go("initialise", "initialising") /\ Initialise /\ UNCHANGED own

Initialised ==
  /\ Go("initialising", IF deviceInitialised THEN "stream" ELSE "leave")
  /\ UNCHANGED <<vars, own>>

\* The second is over, which it may be at any time, or stopRequested is set.
LoopEnds == Go("stream", "stop") /\ UNCHANGED <<vars, own>>

SignalSeen ==
  /\ Go("stream", "stop") /\ ~stopRequested /\ signal
  /\ RequestStop
  /\ UNCHANGED own

StopReceiver == Go("stop", "shutdown") /\ StopStreaming /\ UNCHANGED own
ShutdownReceiver == Go("shutdown", "forget") /\ Shutdown /\ UNCHANGED own
ForgetReceiver == Go("forget", "print") /\ ForgetSession /\ UNCHANGED own

PrintStatistics ==
  /\ Go("print", "judge")
  /\ printed' = <<count, low, high>>
  /\ UNCHANGED <<vars, signal, alive, statistics, sample, samples, exit>>

Judge ==
  /\ Go("judge", "leave")
  /\ exit' = IF clean /\ ~signal /\ ~deviceRemoved /\ ackFailures = 0
               THEN "zero" ELSE "one"
  /\ UNCHANGED <<vars, signal, alive, statistics, sample, samples, printed>>

\* The callbacks' objects go first, then the session.
Leave ==
  /\ Go("leave", "unwind")
  /\ alive' = FALSE
  /\ UNCHANGED <<vars, signal, statistics, sample, samples, printed, exit>>

DestroySession == Go("unwind", "destroy") /\ Destroy /\ UNCHANGED own
Exit == Go("destroy", "exited") /\ UNCHANGED <<vars, own>>

\* Inside a session operation.  Uninit waits for the stream callback, too.
SessionStep ==
  /\ Proceed /\ Cardinality(failed') <= MaxFailures
  /\ service.streaming /\ ~service'.streaming => sample = <<>>
  /\ UNCHANGED <<step, own>>

-----------------------------------------------------------------------------
(* The callbacks, as long as their objects exist.                          *)

CountSample == count' = count + 1

StreamCallback(value) ==
  /\ service.streaming /\ alive /\ sample = <<>>
  /\ Len(samples) < MaxCallbacks
  /\ CountSample
  /\ samples' = Append(samples, value) /\ sample' = <<"low", value>>
  /\ UNCHANGED <<vars, step, signal, alive, low, high, printed, exit>>

\* Invalid input ends the stream and counts for nothing.
InvalidInput ==
  /\ service.streaming /\ alive /\ sample = <<>>
  /\ RequestStop
  /\ UNCHANGED <<step, own>>

UpdateMinimum ==
  /\ sample # <<>> /\ alive /\ sample[1] = "low"
  /\ low' = IF sample[2] < low THEN sample[2] ELSE low
  /\ sample' = <<"high", sample[2]>>
  /\ UNCHANGED <<vars, step, signal, alive, count, high, samples, printed,
                 exit>>

UpdateMaximum ==
  /\ sample # <<>> /\ alive /\ sample[1] = "high"
  /\ high' = IF sample[2] > high THEN sample[2] ELSE high
  /\ sample' = <<>>
  /\ UNCHANGED <<vars, step, signal, alive, count, low, samples, printed,
                 exit>>

EventCallbackRuns ==
  /\ EventCallback /\ alive
  /\ Cardinality(failed') <= MaxFailures
  /\ UNCHANGED <<step, own>>

\* After the judgement a signal makes no difference.
SignalArrives ==
  /\ ~signal /\ step \notin {"leave", "unwind", "destroy", "exited"}
  /\ signal' = TRUE
  /\ UNCHANGED <<vars, step, alive, statistics, sample, samples, printed,
                 exit>>

ProbeDone == step = "exited" /\ UNCHANGED probeVars

ProbeNext ==
  \/ ConnectReceiver \/ Connected \/ ConfigureReceiver \/ Configured
  \/ CreateObjects \/ InitialiseReceiver \/ Initialised \/ LoopEnds
  \/ SignalSeen \/ StopReceiver \/ ShutdownReceiver \/ ForgetReceiver
  \/ PrintStatistics \/ Judge \/ Leave \/ DestroySession \/ Exit
  \/ SessionStep \/ InvalidInput \/ UpdateMinimum \/ UpdateMaximum
  \/ EventCallbackRuns \/ SignalArrives \/ ProbeDone
  \/ \E value \in SampleValues : StreamCallback(value)

ProbeSpec == ProbeInit /\ [][ProbeNext]_probeVars

-----------------------------------------------------------------------------
(* Properties.                                                             *)

ProbeTypeOK ==
  /\ TypeOK
  /\ step \in {"connect", "connected", "configure", "configured", "objects",
               "initialise", "initialising", "stream", "stop", "shutdown",
               "forget", "print", "judge", "leave", "unwind", "destroy",
               "exited"}
  /\ signal \in BOOLEAN /\ alive \in BOOLEAN
  /\ count \in 0 .. MaxCallbacks
  /\ low \in SampleValues \union {32767}
  /\ high \in SampleValues \union {-32768}
  /\ sample = <<>> \/ sample \in {"low", "high"} \X SampleValues
  /\ exit \in {"zero", "one"}

Delivered == {samples[n] : n \in DOMAIN samples}

\* Exit status zero means that the printed statistics are those of exactly the
\* samples the service delivered (it may have delivered none, which is then
\* printed), that no signal asked the probe to stop, that the receiver was
\* there to the end and each overload acknowledged, and that the service
\* holds nothing any more.
ProbeTellsTheTruth ==
  step = "exited" /\ exit = "zero" =>
    /\ printed[1] = Len(samples)
    /\ samples # <<>> =>
         /\ printed[2] \in Delivered /\ printed[3] \in Delivered
         /\ \A value \in Delivered : printed[2] <= value /\ value <= printed[3]
    /\ ~signal /\ ~deviceRemoved /\ acknowledged = overloads
    /\ service = Idle

\* The stream ends before the objects in runProbe()'s frame do, although they
\* are destroyed before the session: no path from initialise() to the end
\* goes past stopStreaming() and shutdown().  A failed Uninit ends that.
ObjectsOutliveStream ==
  /\ service.streaming \/ sample # <<>> \/ callback # "idle"
  /\ "Uninit" \notin failed
  => alive
=============================================================================
