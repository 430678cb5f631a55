----------------------------- MODULE ProbeProofs -----------------------------
(***************************************************************************)
(* Proofs about Probe, for any set of sample values, any number of samples *)
(* and overload events, and any failing calls.  As with a capture, the     *)
(* probe is first shown to use the session as it may be used, so that      *)
(* SessionInv holds; the rest is about the objects in runProbe()'s frame   *)
(* and the statistics in them.                                             *)
(***************************************************************************)
EXTENDS Probe, DeviceSessionProofs, SequenceTheorems

-----------------------------------------------------------------------------
(* The inductive invariant.                                                *)

Setup == {"connect", "connected", "configure", "configured", "objects"}
Gone  == {"leave", "unwind", "destroy", "exited"}

\* Where the session is, seen from a place in runProbe().
Located ==
  /\ step = "connect" => life = "new"
  /\ step = "connected" =>
       life = "used" /\ at \in Connecting \union {"client"}
  /\ step \in {"configure", "configured", "objects", "initialise", "stream",
               "stop"} => life = "used" /\ at = "client"
  /\ step = "initialising" =>
       life = "used" /\ at \in {"init", "initialised", "client"}
  /\ step = "shutdown" =>
       life = "used" /\ (at = "client" \/ (at \in Ending /\ op = "stop"))
  /\ step = "forget" =>
       \/ at = "client" /\ life = "shut"
       \/ at \in Ending /\ op = "shutdown" /\ life = "used"
  /\ step \in {"print", "judge"} => at = "client" /\ life = "shut"
  /\ step \in {"leave", "unwind"} => at = "client" /\ life \in {"used", "shut"}
  /\ step = "destroy" => life \in {"dying", "destroyed"}
  /\ step = "exited" => life = "destroyed"

\* Before the stream and after it; the objects exist in between.
Framed ==
  /\ step \in Setup \union Gone \union {"initialise", "print", "judge"} =>
       ~deviceInitialised
  /\ step \notin Setup \union Gone => alive

\* A sample on its way has its objects, and the stream.
SampleInStream ==
  sample # <<>> /\ "Uninit" \notin failed => alive /\ service.streaming

-----------------------------------------------------------------------------
(* The statistics.                                                         *)

\* How many samples have been compared with the minimum and the maximum.
Lowered == IF sample # <<>> /\ sample[1] = "low" THEN Len(samples) - 1
                                                 ELSE Len(samples)
Raised  == IF sample # <<>> THEN Len(samples) - 1 ELSE Len(samples)

\* The least, and the greatest, of the first n values, once there is one.
IsLeast(value, values, n) ==
  /\ n = 0 => value = 32767
  /\ n # 0 => \E k \in 1 .. n : values[k] = value
  /\ \A k \in 1 .. n : value <= values[k]

IsGreatest(value, values, n) ==
  /\ n = 0 => value = -32768
  /\ n # 0 => \E k \in 1 .. n : values[k] = value
  /\ \A k \in 1 .. n : values[k] <= value

Measured ==
  /\ samples \in Seq(SampleValues) /\ Len(samples) <= MaxCallbacks
  /\ count = Len(samples)
  /\ sample = <<>> \/ sample \in {"low", "high"} \X SampleValues
  /\ sample # <<>> =>
       samples # <<>> /\ sample[2] = samples[Len(samples)]
  /\ IsLeast(low, samples, Lowered) /\ IsGreatest(high, samples, Raised)

-----------------------------------------------------------------------------
(* The exit status.                                                        *)

\* What is printed is up to date, and stays so.
Printed ==
  /\ step \notin {"judge"} \union Gone => printed = <<>>
  /\ printed # <<>> /\ "Uninit" \notin failed =>
       printed = <<count, low, high>> /\ sample = <<>>

Judged ==
  /\ step = "judge" => printed # <<>>
  /\ exit \in {"zero", "one"}
  /\ exit = "zero" =>
       /\ step \in Gone /\ printed # <<>>
       /\ ~signal /\ ~deviceRemoved /\ ackFailures = 0
       /\ service = Idle /\ Nothing

\* What can be said without the session, and what cannot.
ProbeInv == Located /\ Framed /\ SampleInStream /\ UninitReported

-----------------------------------------------------------------------------
(* The probe uses the session as it may be used.                           *)

\* Each step is one of the session's, or leaves the session alone.
LEMMA ProbeStepUsed ==
  ASSUME [ProbeNext]_probeVars
  PROVE  [Next]_vars
<1>1. CASE UNCHANGED vars
  BY <1>1
<1>2. CASE RequestStop
  <2>1. CASE stopRequested' = stopRequested
    BY <1>2, <2>1 DEF RequestStop, vars, events
  <2>2. CASE stopRequested' # stopRequested
    BY <1>2, <2>2 DEF RequestStop, StopRequestedElsewhere, Next
  <2>. QED BY <2>1, <2>2
<1>3. CASE ConnectReceiver \/ ConfigureReceiver \/ InitialiseReceiver
  BY <1>3 DEF ConnectReceiver, ConfigureReceiver, InitialiseReceiver, Next
<1>4. CASE StopReceiver \/ ShutdownReceiver \/ ForgetReceiver
  BY <1>4 DEF StopReceiver, ShutdownReceiver, ForgetReceiver, Next
<1>5. CASE DestroySession \/ SessionStep \/ EventCallbackRuns
  BY <1>5 DEF DestroySession, SessionStep, EventCallbackRuns, Next
<1>6. CASE Connected \/ Configured \/ CreateObjects \/ Initialised \/ LoopEnds
  BY <1>1, <1>6
     DEF Connected, Configured, CreateObjects, Initialised, LoopEnds
<1>7. CASE SignalSeen \/ InvalidInput
  BY <1>2, <1>7 DEF SignalSeen, InvalidInput
<1>8. CASE PrintStatistics \/ Judge \/ Leave \/ Exit
  BY <1>1, <1>8 DEF PrintStatistics, Judge, Leave, Exit
<1>9. CASE UpdateMinimum \/ UpdateMaximum \/ SignalArrives \/ ProbeDone
  BY <1>1, <1>9
     DEF UpdateMinimum, UpdateMaximum, SignalArrives, ProbeDone, probeVars
<1>10. ASSUME NEW value \in SampleValues, StreamCallback(value)
       PROVE  UNCHANGED vars
  BY <1>10 DEF StreamCallback
<1>11. CASE UNCHANGED probeVars
  BY <1>1, <1>11 DEF probeVars
<1>. QED
  BY <1>1, <1>3, <1>4, <1>5, <1>6, <1>7, <1>8, <1>9, <1>10, <1>11
     DEF ProbeNext

\* A probe is one of the clients DeviceSession describes.
LEMMA ProbeUsesSession == ProbeSpec => Spec
<1>1. ProbeInit => Init
  BY DEF ProbeInit
<1>2. [ProbeNext]_probeVars => [Next]_vars
  BY ProbeStepUsed
<1>. QED BY <1>1, <1>2, PTL DEF ProbeSpec, Spec

-----------------------------------------------------------------------------
(* The place of the application thread.                                    *)

\* The application thread goes where the session lets it.
LEMMA LocatedStep ==
  ASSUME SessionInv, ProbeInv, [ProbeNext]_probeVars
  PROVE  Located'
<1>. USE DEF ProbeInv, Located, Setup, Ending, Clearing, Connecting
<1>1. CASE ConnectReceiver \/ Connected \/ ConfigureReceiver \/ Configured
  BY <1>1 DEF ConnectReceiver, Connected, ConfigureReceiver, Configured, Go,
     Connect, Configure, vars, flags, params, control, events, apiVars, own,
     statistics
<1>2. CASE CreateObjects \/ InitialiseReceiver \/ Initialised
  BY <1>2 DEF CreateObjects, InitialiseReceiver, Initialised, Go, Initialise,
     vars, flags, params, control, events, apiVars, own, statistics
<1>3. CASE LoopEnds \/ SignalSeen
  BY <1>3 DEF LoopEnds, SignalSeen, Go, RequestStop, vars, flags, params,
     control, events, apiVars, own, statistics
<1>4. CASE StopReceiver \/ ShutdownReceiver \/ ForgetReceiver
  BY <1>4 DEF StopReceiver, ShutdownReceiver, ForgetReceiver, Go,
     StopStreaming, Begin, Shutdown, ForgetSession, vars, flags, params,
     control, events, apiVars, own, statistics
<1>5. CASE PrintStatistics \/ Judge
  BY <1>5 DEF PrintStatistics, Judge, Go, vars, flags, params, control,
     events, apiVars, own, statistics
<1>6. CASE Leave \/ DestroySession \/ Exit
  BY <1>6 DEF Leave, DestroySession, Exit, Go, Destroy, Begin, vars, flags,
     params, control, events, apiVars, own, statistics, SessionInv, Place
<1>7. CASE SessionStep
  BY <1>7, OperationsProgress, EventsStay DEF SessionStep, vars, flags,
     params, control, events, apiVars, own, statistics, Progress, Place,
     SessionInv
<1>8. ASSUME NEW value \in SampleValues, StreamCallback(value)
      PROVE  Located'
  BY <1>8 DEF StreamCallback, CountSample, vars, flags, params, control,
     events, apiVars, own, statistics
<1>9. CASE InvalidInput
  BY <1>9 DEF InvalidInput, RequestStop, vars, flags, params, control, events,
     apiVars, own, statistics
<1>10. CASE UpdateMinimum \/ UpdateMaximum
  BY <1>10 DEF UpdateMinimum, UpdateMaximum, vars, flags, params, control,
     events, apiVars, own, statistics
<1>11. CASE EventCallbackRuns
  BY <1>11 DEF EventCallbackRuns, EventCallback, PowerOverloadChange,
     CheckSelected, RecordAckFailure, DeviceRemoved, Acknowledge,
     AcknowledgeOverload, Attempt, vars, flags, params, control, events,
     apiVars, own, statistics
<1>12. CASE SignalArrives
  BY <1>12 DEF SignalArrives, vars, flags, params, control, events, apiVars,
     own, statistics
<1>13. CASE UNCHANGED probeVars
  BY <1>13 DEF probeVars, vars, flags, params, control, events, apiVars, own,
     statistics
<1>. HIDE DEF ProbeInv, Located, Setup, Ending, Clearing, Connecting
<1>. QED BY <1>1, <1>2, <1>3, <1>4, <1>5, <1>6, <1>7, <1>8, <1>9, <1>10,
            <1>11, <1>12, <1>13 DEF ProbeNext, ProbeDone

\* No step leads away from the stream but through the end of the session.
LEMMA FramedStep ==
  ASSUME SessionInv, ProbeInv, [ProbeNext]_probeVars
  PROVE  Framed'
<1>. USE DEF ProbeInv, Located, Framed, Setup, Gone, Ending, Clearing,
             Connecting
<1>1. CASE ConnectReceiver \/ Connected \/ ConfigureReceiver \/ Configured
  BY <1>1 DEF ConnectReceiver, Connected, ConfigureReceiver, Configured, Go,
     Connect, Configure, vars, flags, params, control, events, apiVars, own,
     statistics, SessionInv, Obtaining
<1>2. CASE CreateObjects \/ InitialiseReceiver \/ Initialised
  BY <1>2 DEF CreateObjects, InitialiseReceiver, Initialised, Go, Initialise,
     vars, flags, params, control, events, apiVars, own, statistics
<1>3. CASE LoopEnds \/ SignalSeen
  BY <1>3 DEF LoopEnds, SignalSeen, Go, RequestStop, vars, flags, params,
     control, events, apiVars, own, statistics
<1>4. CASE StopReceiver \/ ShutdownReceiver \/ ForgetReceiver
  BY <1>4 DEF StopReceiver, ShutdownReceiver, ForgetReceiver, Go,
     StopStreaming, Begin, Shutdown, ForgetSession, vars, flags, params,
     control, events, apiVars, own, statistics, SessionInv, GivingBack, Over
<1>5. CASE PrintStatistics \/ Judge
  BY <1>5 DEF PrintStatistics, Judge, Go, vars, flags, params, control,
     events, apiVars, own, statistics
<1>6. CASE Leave \/ DestroySession \/ Exit
  BY <1>6 DEF Leave, DestroySession, Exit, Go, Destroy, Begin, vars, flags,
     params, control, events, apiVars, own, statistics
<1>7. CASE SessionStep
  BY <1>7, OperationsProgress, EventsStay DEF SessionStep, vars, flags,
     params, control, events, apiVars, own, statistics, Progress, Place,
     SessionInv
<1>8. ASSUME NEW value \in SampleValues, StreamCallback(value)
      PROVE  Framed'
  BY <1>8 DEF StreamCallback, CountSample, vars, flags, params, control,
     events, apiVars, own, statistics
<1>9. CASE InvalidInput
  BY <1>9 DEF InvalidInput, RequestStop, vars, flags, params, control, events,
     apiVars, own, statistics
<1>10. CASE UpdateMinimum \/ UpdateMaximum
  BY <1>10 DEF UpdateMinimum, UpdateMaximum, vars, flags, params, control,
     events, apiVars, own, statistics
<1>11. CASE EventCallbackRuns
  BY <1>11 DEF EventCallbackRuns, EventCallback, PowerOverloadChange,
     CheckSelected, RecordAckFailure, DeviceRemoved, Acknowledge,
     AcknowledgeOverload, Attempt, vars, flags, params, control, events,
     apiVars, own, statistics
<1>12. CASE SignalArrives
  BY <1>12 DEF SignalArrives, vars, flags, params, control, events, apiVars,
     own, statistics
<1>13. CASE UNCHANGED probeVars
  BY <1>13 DEF probeVars, vars, flags, params, control, events, apiVars, own,
     statistics
<1>. HIDE DEF ProbeInv, Located, Framed, Setup, Gone, Ending, Clearing,
              Connecting
<1>. QED BY <1>1, <1>2, <1>3, <1>4, <1>5, <1>6, <1>7, <1>8, <1>9, <1>10,
            <1>11, <1>12, <1>13 DEF ProbeNext, ProbeDone

\* While a sample is in the callback, nothing it uses is taken away.
LEMMA SampleStep ==
  ASSUME SessionInv, ProbeInv, [ProbeNext]_probeVars
  PROVE  SampleInStream'
<1>. USE DEF ProbeInv, Located, Framed, SampleInStream, Setup, Gone
<1>1. CASE ConnectReceiver \/ Connected \/ ConfigureReceiver \/ Configured
  BY <1>1 DEF ConnectReceiver, Connected, ConfigureReceiver, Configured, Go,
     Connect, Configure, vars, flags, params, control, events, apiVars, own,
     statistics
<1>2. CASE CreateObjects \/ InitialiseReceiver \/ Initialised
  BY <1>2 DEF CreateObjects, InitialiseReceiver, Initialised, Go, Initialise,
     vars, flags, params, control, events, apiVars, own, statistics
<1>3. CASE LoopEnds \/ SignalSeen
  BY <1>3 DEF LoopEnds, SignalSeen, Go, RequestStop, vars, flags, params,
     control, events, apiVars, own, statistics
<1>4. CASE StopReceiver \/ ShutdownReceiver \/ ForgetReceiver
  BY <1>4 DEF StopReceiver, ShutdownReceiver, ForgetReceiver, Go,
     StopStreaming, Begin, Shutdown, ForgetSession, vars, flags, params,
     control, events, apiVars, own, statistics
<1>5. CASE PrintStatistics \/ Judge
  BY <1>5 DEF PrintStatistics, Judge, Go, vars, flags, params, control,
     events, apiVars, own, statistics
<1>6. CASE Leave \/ DestroySession \/ Exit
  BY <1>6 DEF Leave, DestroySession, Exit, Go, Destroy, Begin, vars, flags,
     params, control, events, apiVars, own, statistics, SessionInv,
     GivingBack, Over, Owed
<1>7. CASE SessionStep
  BY <1>7, EventsStay DEF SessionStep, vars, flags, params, control, events,
     apiVars, own, statistics
<1>8. ASSUME NEW value \in SampleValues, StreamCallback(value)
      PROVE  SampleInStream'
  BY <1>8 DEF StreamCallback, CountSample, vars, flags, params, control,
     events, apiVars, own, statistics
<1>9. CASE InvalidInput
  BY <1>9 DEF InvalidInput, RequestStop, vars, flags, params, control, events,
     apiVars, own, statistics
<1>10. CASE UpdateMinimum \/ UpdateMaximum
  BY <1>10 DEF UpdateMinimum, UpdateMaximum, vars, flags, params, control,
     events, apiVars, own, statistics
<1>11. CASE EventCallbackRuns
  BY <1>11 DEF EventCallbackRuns, EventCallback, PowerOverloadChange,
     CheckSelected, RecordAckFailure, DeviceRemoved, Acknowledge,
     AcknowledgeOverload, Attempt, vars, flags, params, control, events,
     apiVars, own, statistics
<1>12. CASE SignalArrives
  BY <1>12 DEF SignalArrives, vars, flags, params, control, events, apiVars,
     own, statistics
<1>13. CASE UNCHANGED probeVars
  BY <1>13 DEF probeVars, vars, flags, params, control, events, apiVars, own,
     statistics
<1>. HIDE DEF ProbeInv, Located, Framed, SampleInStream, Setup, Gone
<1>. QED BY <1>1, <1>2, <1>3, <1>4, <1>5, <1>6, <1>7, <1>8, <1>9, <1>10,
            <1>11, <1>12, <1>13 DEF ProbeNext, ProbeDone

\* No step takes back that a failed Uninit makes the shutdown fail.
LEMMA ReportedStep ==
  ASSUME SessionInv, ProbeInv, [ProbeNext]_probeVars
  PROVE  UninitReported'
<1>. USE DEF ProbeInv, UninitReported, Blemished, Ending, Clearing
<1>1. CASE ConnectReceiver \/ Connected \/ ConfigureReceiver \/ Configured
  BY <1>1 DEF ConnectReceiver, Connected, ConfigureReceiver, Configured, Go,
     Connect, Configure, vars, flags, params, control, events, apiVars, own,
     statistics
<1>2. CASE CreateObjects \/ InitialiseReceiver \/ Initialised
  BY <1>2 DEF CreateObjects, InitialiseReceiver, Initialised, Go, Initialise,
     vars, flags, params, control, events, apiVars, own, statistics
<1>3. CASE LoopEnds \/ SignalSeen
  BY <1>3 DEF LoopEnds, SignalSeen, Go, RequestStop, vars, flags, params,
     control, events, apiVars, own, statistics
<1>4. CASE StopReceiver \/ ShutdownReceiver \/ ForgetReceiver
  BY <1>4 DEF StopReceiver, ShutdownReceiver, ForgetReceiver, Go,
     StopStreaming, Begin, Shutdown, ForgetSession, vars, flags, params,
     control, events, apiVars, own, statistics
<1>5. CASE PrintStatistics \/ Judge
  BY <1>5 DEF PrintStatistics, Judge, Go, vars, flags, params, control,
     events, apiVars, own, statistics
<1>6. CASE Leave \/ DestroySession \/ Exit
  BY <1>6 DEF Leave, DestroySession, Exit, Go, Destroy, Begin, vars, flags,
     params, control, events, apiVars, own, statistics
<1>7. CASE SessionStep
  BY <1>7, UninitIsReported DEF SessionStep, vars, flags, params, control,
     events, apiVars, own, statistics
<1>8. ASSUME NEW value \in SampleValues, StreamCallback(value)
      PROVE  UninitReported'
  BY <1>8 DEF StreamCallback, CountSample, vars, flags, params, control,
     events, apiVars, own, statistics
<1>9. CASE InvalidInput
  BY <1>9 DEF InvalidInput, RequestStop, vars, flags, params, control, events,
     apiVars, own, statistics
<1>10. CASE UpdateMinimum \/ UpdateMaximum
  BY <1>10 DEF UpdateMinimum, UpdateMaximum, vars, flags, params, control,
     events, apiVars, own, statistics
<1>11. CASE EventCallbackRuns
  BY <1>11 DEF EventCallbackRuns, EventCallback, PowerOverloadChange,
     CheckSelected, RecordAckFailure, DeviceRemoved, Acknowledge,
     AcknowledgeOverload, Attempt, vars, flags, params, control, events,
     apiVars, own, statistics
<1>12. CASE SignalArrives
  BY <1>12 DEF SignalArrives, vars, flags, params, control, events, apiVars,
     own, statistics
<1>13. CASE UNCHANGED probeVars
  BY <1>13 DEF probeVars, vars, flags, params, control, events, apiVars, own,
     statistics
<1>. HIDE DEF ProbeInv, UninitReported, Blemished, Ending, Clearing
<1>. QED BY <1>1, <1>2, <1>3, <1>4, <1>5, <1>6, <1>7, <1>8, <1>9, <1>10,
            <1>11, <1>12, <1>13 DEF ProbeNext, ProbeDone

-----------------------------------------------------------------------------
(* The statistics.  Measured needs nothing but itself.                     *)

\* Most steps do not touch them.
LEMMA StatisticsStay ==
  ASSUME [ProbeNext]_probeVars,
         ~UpdateMinimum, ~UpdateMaximum,
         \A value \in SampleValues : ~StreamCallback(value)
  PROVE  UNCHANGED <<statistics, sample, samples>>
<1>. USE DEF own, statistics
<1>1. CASE ConnectReceiver \/ Connected \/ ConfigureReceiver \/ Configured
  BY <1>1 DEF ConnectReceiver, Connected, ConfigureReceiver, Configured
<1>2. CASE CreateObjects \/ InitialiseReceiver \/ Initialised
  BY <1>2 DEF CreateObjects, InitialiseReceiver, Initialised
<1>3. CASE LoopEnds \/ SignalSeen
  BY <1>3 DEF LoopEnds, SignalSeen
<1>4. CASE StopReceiver \/ ShutdownReceiver \/ ForgetReceiver
  BY <1>4 DEF StopReceiver, ShutdownReceiver, ForgetReceiver
<1>5. CASE PrintStatistics \/ Judge
  BY <1>5 DEF PrintStatistics, Judge
<1>6. CASE Leave \/ DestroySession \/ Exit
  BY <1>6 DEF Leave, DestroySession, Exit
<1>7. CASE SessionStep
  BY <1>7 DEF SessionStep
<1>8. CASE InvalidInput
  BY <1>8 DEF InvalidInput
<1>9. CASE SignalArrives
  BY <1>9 DEF SignalArrives
<1>10. CASE EventCallbackRuns
  BY <1>10 DEF EventCallbackRuns
<1>11. CASE UNCHANGED probeVars
  BY <1>11 DEF probeVars
<1>. QED BY <1>1, <1>2, <1>3, <1>4, <1>5, <1>6, <1>7, <1>8, <1>9, <1>10, <1>11
            DEF ProbeNext, ProbeDone

\* A sample that arrives changes nothing about those before it.
LEMMA ExtremaStay ==
  ASSUME NEW values \in Seq(Int), NEW value \in Int,
         NEW n \in 0 .. Len(values), NEW extremum \in Int
  PROVE  /\ IsLeast(extremum, values, n) =>
              IsLeast(extremum, Append(values, value), n)
         /\ IsGreatest(extremum, values, n) =>
              IsGreatest(extremum, Append(values, value), n)
<1>1. \A k \in 1 .. n : Append(values, value)[k] = values[k]
  BY AppendProperties
<1>. QED BY <1>1 DEF IsLeast, IsGreatest

\* The next value has its turn.
LEMMA NextLeast ==
  ASSUME NEW values \in Seq(Int), NEW n \in 0 .. Len(values) - 1,
         NEW least \in Int, IsLeast(least, values, n), values[n + 1] <= 32767
  PROVE  IsLeast(IF values[n + 1] < least THEN values[n + 1] ELSE least,
                 values, n + 1)
<1>1. values[n + 1] \in Int /\ \A k \in 1 .. n : values[k] \in Int
  BY ElementOfSeq
<1>2. 1 .. n + 1 = (1 .. n) \union {n + 1}
  OBVIOUS
<1>3. CASE values[n + 1] < least
  BY <1>1, <1>2, <1>3 DEF IsLeast
<1>4. CASE ~(values[n + 1] < least)
  <2>1. CASE n = 0
    BY <1>1, <1>2, <1>4, <2>1 DEF IsLeast
  <2>2. CASE n # 0
    BY <1>1, <1>2, <1>4, <2>2 DEF IsLeast
  <2>. QED BY <2>1, <2>2
<1>. QED BY <1>3, <1>4

LEMMA NextGreatest ==
  ASSUME NEW values \in Seq(Int), NEW n \in 0 .. Len(values) - 1,
         NEW most \in Int, IsGreatest(most, values, n),
         -32768 <= values[n + 1]
  PROVE  IsGreatest(IF values[n + 1] > most THEN values[n + 1] ELSE most,
                    values, n + 1)
<1>1. values[n + 1] \in Int /\ \A k \in 1 .. n : values[k] \in Int
  BY ElementOfSeq
<1>2. 1 .. n + 1 = (1 .. n) \union {n + 1}
  OBVIOUS
<1>3. CASE values[n + 1] > most
  BY <1>1, <1>2, <1>3 DEF IsGreatest
<1>4. CASE ~(values[n + 1] > most)
  <2>1. CASE n = 0
    BY <1>1, <1>2, <1>4, <2>1 DEF IsGreatest
  <2>2. CASE n # 0
    BY <1>1, <1>2, <1>4, <2>2 DEF IsGreatest
  <2>. QED BY <2>1, <2>2
<1>. QED BY <1>3, <1>4

\* What the extrema are of.
LEMMA ExtremaTyped ==
  ASSUME Measured
  PROVE  /\ samples \in Seq(Int) /\ samples \in Seq(SampleValues)
         /\ \A k \in 1 .. Len(samples) :
              samples[k] \in SampleValues /\ samples[k] \in Int
         /\ Len(samples) \in Nat /\ Lowered \in Nat /\ Raised \in Nat
         /\ low \in SampleValues \union {32767}
         /\ high \in SampleValues \union {-32768}
         /\ low \in Int /\ high \in Int
<1>1. samples \in Seq(SampleValues) /\ SampleValues \subseteq Int
  BY ProbeAssumption DEF Measured
<1>2. \A k \in 1 .. Len(samples) : samples[k] \in SampleValues
  BY <1>1, ElementOfSeq
<1>3. samples \in Seq(Int)
  BY <1>1, SeqMonotonic
<1>4. /\ Len(samples) \in Nat /\ Lowered \in 0 .. Len(samples)
      /\ Raised \in 0 .. Len(samples)
  BY <1>1, EmptySeq, LenProperties DEF Measured, Lowered, Raised
<1>5. low \in SampleValues \union {32767}
  <2>1. CASE Lowered = 0
    BY <2>1 DEF Measured, IsLeast
  <2>2. CASE Lowered # 0
    BY <2>2, <1>2, <1>4 DEF Measured, IsLeast
  <2>. QED BY <2>1, <2>2
<1>6. high \in SampleValues \union {-32768}
  <2>1. CASE Raised = 0
    BY <2>1 DEF Measured, IsGreatest
  <2>2. CASE Raised # 0
    BY <2>2, <1>2, <1>4 DEF Measured, IsGreatest
  <2>. QED BY <2>1, <2>2
<1>. QED BY <1>1, <1>2, <1>3, <1>4, <1>5, <1>6

\* The counter and the extrema are those of the samples seen so far.
LEMMA MeasuredStep ==
  ASSUME Measured, [ProbeNext]_probeVars
  PROVE  Measured'
<1>. USE ProbeAssumption
<1>1. ASSUME NEW value \in SampleValues, StreamCallback(value)
      PROVE  Measured'
  <2>1. /\ sample = <<>> /\ Len(samples) < MaxCallbacks /\ count' = count + 1
        /\ samples' = Append(samples, value) /\ sample' = <<"low", value>>
        /\ low' = low /\ high' = high
    BY <1>1 DEF StreamCallback, CountSample
  <2>2. /\ samples \in Seq(SampleValues) /\ samples \in Seq(Int)
        /\ Len(samples) \in Nat /\ value \in Int
        /\ low \in Int /\ high \in Int
    BY ExtremaTyped
  <2>3. /\ samples' \in Seq(SampleValues) /\ samples' # <<>>
        /\ Len(samples') = Len(samples) + 1
        /\ samples'[Len(samples')] = value
    BY <2>1, <2>2, AppendProperties
  <2>4. /\ Lowered = Len(samples) /\ Lowered' = Len(samples)
        /\ Raised = Len(samples) /\ Raised' = Len(samples)
    BY <2>1, <2>2, <2>3 DEF Lowered, Raised
  <2>5. /\ IsLeast(low, samples', Lowered')
        /\ IsGreatest(high, samples', Raised')
    <3>1. /\ IsLeast(low, samples, Len(samples))
          /\ IsGreatest(high, samples, Len(samples))
      BY <2>4 DEF Measured
    <3>2. Len(samples) \in 0 .. Len(samples)
      BY <2>2
    <3>3. IsLeast(low, Append(samples, value), Len(samples))
      BY <2>2, <3>1, <3>2, ExtremaStay
    <3>4. IsGreatest(high, Append(samples, value), Len(samples))
      BY <2>2, <3>1, <3>2, ExtremaStay
    <3>. QED BY <2>1, <2>4, <3>3, <3>4
  <2>6. Len(samples') <= MaxCallbacks /\ count' = Len(samples')
    BY <2>1, <2>2, <2>3 DEF Measured
  <2>7. sample' \in {"low", "high"} \X SampleValues /\ sample'[2] = value
    BY <2>1
  <2>. QED BY <2>1, <2>3, <2>5, <2>6, <2>7 DEF Measured
<1>2. CASE UpdateMinimum
  <2>1. /\ sample # <<>> /\ sample[1] = "low" /\ samples' = samples
        /\ low' = IF sample[2] < low THEN sample[2] ELSE low
        /\ sample' = <<"high", sample[2]>> /\ high' = high /\ count' = count
    BY <1>2 DEF UpdateMinimum
  <2>2. /\ samples # <<>> /\ sample[2] = samples[Len(samples)]
        /\ sample[2] \in SampleValues
    BY <2>1 DEF Measured
  <2>3. Len(samples) \in Nat \ {0}
    BY <2>2, ExtremaTyped, EmptySeq, LenProperties
  <2>4. /\ Lowered = Len(samples) - 1 /\ Lowered' = Len(samples)
        /\ Raised' = Raised
    BY <2>1 DEF Lowered, Raised
  <2>5. IsLeast(low', samples, Len(samples))
    <3>. DEFINE n == Len(samples) - 1
    <3>1. n \in 0 .. Len(samples) - 1 /\ n + 1 = Len(samples)
      BY <2>3
    <3>2. IsLeast(IF samples[n + 1] < low THEN samples[n + 1] ELSE low,
                  samples, n + 1)
      <4>1. samples \in Seq(Int) /\ low \in Int /\ IsLeast(low, samples, n)
        BY <2>4, ExtremaTyped DEF Measured
      <4>2. samples[n + 1] <= 32767
        BY <3>1, <2>2
      <4>. QED BY <3>1, <4>1, <4>2, NextLeast
    <3>. QED BY <2>1, <2>2, <3>1, <3>2
  <2>. QED BY <2>1, <2>2, <2>4, <2>5 DEF Measured
<1>3. CASE UpdateMaximum
  <2>1. /\ sample # <<>> /\ sample[1] = "high" /\ samples' = samples
        /\ high' = IF sample[2] > high THEN sample[2] ELSE high
        /\ sample' = <<>> /\ low' = low /\ count' = count
    BY <1>3 DEF UpdateMaximum
  <2>2. /\ samples # <<>> /\ sample[2] = samples[Len(samples)]
        /\ sample[2] \in SampleValues
    BY <2>1 DEF Measured
  <2>3. Len(samples) \in Nat \ {0}
    BY <2>2, ExtremaTyped, EmptySeq, LenProperties
  <2>4. /\ Lowered = Len(samples) /\ Lowered' = Len(samples)
        /\ Raised = Len(samples) - 1 /\ Raised' = Len(samples)
    BY <2>1 DEF Lowered, Raised
  <2>5. IsGreatest(high', samples, Len(samples))
    <3>. DEFINE n == Len(samples) - 1
    <3>1. n \in 0 .. Len(samples) - 1 /\ n + 1 = Len(samples)
      BY <2>3
    <3>2. IsGreatest(IF samples[n + 1] > high THEN samples[n + 1] ELSE high,
                     samples, n + 1)
      <4>1. /\ samples \in Seq(Int) /\ high \in Int
            /\ IsGreatest(high, samples, n)
        BY <2>4, ExtremaTyped DEF Measured
      <4>2. -32768 <= samples[n + 1]
        BY <3>1, <2>2
      <4>. QED BY <3>1, <4>1, <4>2, NextGreatest
    <3>. QED BY <2>1, <2>2, <3>1, <3>2
  <2>. QED BY <2>1, <2>2, <2>4, <2>5 DEF Measured
<1>4. ASSUME ~UpdateMinimum, ~UpdateMaximum,
             \A value \in SampleValues : ~StreamCallback(value)
      PROVE  Measured'
  BY <1>4, StatisticsStay DEF Measured, Lowered, Raised, statistics
<1>. QED BY <1>1, <1>2, <1>3, <1>4

-----------------------------------------------------------------------------
(* The exit status.                                                        *)

\* When the statistics are printed, stream and callbacks are at rest.
LEMMA QuietWhenPrinted ==
  ASSUME SessionInv, ProbeInv, "Uninit" \notin failed,
         step \in Gone \union {"print", "judge"}
  PROVE  ~service.streaming /\ sample = <<>> /\ callback = "idle"
<1>1. ~deviceInitialised
  BY DEF ProbeInv, Framed
<1>2. at # "initialised"
  BY DEF ProbeInv, Located, Gone, SessionInv, Place, Ending, Clearing
<1>3. ~service.streaming
  BY <1>1, <1>2 DEF SessionInv, Owed
<1>. QED BY <1>3 DEF ProbeInv, SampleInStream, SessionInv, CallbackStreams

\* The service that nothing is held of calls nobody.
LEMMA QuietWhenJudged ==
  ASSUME SessionInv, ProbeInv, service = Idle
  PROVE  ~service.streaming /\ callback = "idle"
BY DEF SessionInv, CallbackStreams, Idle

\* What is printed stays true.
LEMMA PrintedStep ==
  ASSUME SessionInv, ProbeInv, Printed, [ProbeNext]_probeVars
  PROVE  Printed'
<1>. USE DEF ProbeInv, Located, Printed, Setup, Gone
<1>1. CASE ConnectReceiver \/ Connected \/ ConfigureReceiver \/ Configured
  BY <1>1 DEF ConnectReceiver, Connected, ConfigureReceiver, Configured, Go,
     Connect, Configure, vars, flags, params, control, events, apiVars, own,
     statistics
<1>2. CASE CreateObjects \/ InitialiseReceiver \/ Initialised
  BY <1>2 DEF CreateObjects, InitialiseReceiver, Initialised, Go, Initialise,
     vars, flags, params, control, events, apiVars, own, statistics
<1>3. CASE LoopEnds \/ SignalSeen
  BY <1>3 DEF LoopEnds, SignalSeen, Go, RequestStop, vars, flags, params,
     control, events, apiVars, own, statistics
<1>4. CASE StopReceiver \/ ShutdownReceiver \/ ForgetReceiver
  BY <1>4 DEF StopReceiver, ShutdownReceiver, ForgetReceiver, Go,
     StopStreaming, Begin, Shutdown, ForgetSession, vars, flags, params,
     control, events, apiVars, own, statistics
<1>5. CASE PrintStatistics \/ Judge
  BY <1>5, QuietWhenPrinted DEF PrintStatistics, Judge, Go, vars, flags,
     params, control, events, apiVars, own, statistics
<1>6. CASE Leave \/ DestroySession \/ Exit
  BY <1>6 DEF Leave, DestroySession, Exit, Go, Destroy, Begin, vars, flags,
     params, control, events, apiVars, own, statistics
<1>7. CASE SessionStep
  BY <1>7, EventsStay DEF SessionStep, vars, flags, params, control, events,
     apiVars, own, statistics
<1>8. ASSUME NEW value \in SampleValues, StreamCallback(value)
      PROVE  Printed'
  BY <1>8, QuietWhenPrinted DEF StreamCallback, CountSample, vars, flags,
     params, control, events, apiVars, own, statistics
<1>9. CASE InvalidInput
  BY <1>9, QuietWhenPrinted DEF InvalidInput, RequestStop, vars, flags,
     params, control, events, apiVars, own, statistics
<1>10. CASE UpdateMinimum \/ UpdateMaximum
  BY <1>10, QuietWhenPrinted DEF UpdateMinimum, UpdateMaximum, vars, flags,
     params, control, events, apiVars, own, statistics
<1>11. CASE EventCallbackRuns
  BY <1>11, QuietWhenPrinted DEF EventCallbackRuns, EventCallback,
     PowerOverloadChange, CheckSelected, RecordAckFailure, DeviceRemoved,
     Acknowledge, AcknowledgeOverload, Attempt, vars, flags, params, control,
     events, apiVars, own, statistics
<1>12. CASE SignalArrives
  BY <1>12 DEF SignalArrives, vars, flags, params, control, events, apiVars,
     own, statistics
<1>13. CASE UNCHANGED probeVars
  BY <1>13 DEF probeVars, vars, flags, params, control, events, apiVars, own,
     statistics
<1>. HIDE DEF ProbeInv, Located, Printed, Setup, Gone
<1>. QED BY <1>1, <1>2, <1>3, <1>4, <1>5, <1>6, <1>7, <1>8, <1>9, <1>10,
            <1>11, <1>12, <1>13 DEF ProbeNext, ProbeDone

\* After status zero nothing happens any more.
LEMMA JudgedStep ==
  ASSUME SessionInv, ProbeInv, Judged, [ProbeNext]_probeVars
  PROVE  Judged'
<1>. USE DEF ProbeInv, Located, Judged, Setup, Gone, Nothing, Ending, Clearing
<1>1. CASE ConnectReceiver \/ Connected \/ ConfigureReceiver \/ Configured
  BY <1>1 DEF ConnectReceiver, Connected, ConfigureReceiver, Configured, Go,
     Connect, Configure, vars, flags, params, control, events, apiVars, own,
     statistics
<1>2. CASE CreateObjects \/ InitialiseReceiver \/ Initialised
  BY <1>2 DEF CreateObjects, InitialiseReceiver, Initialised, Go, Initialise,
     vars, flags, params, control, events, apiVars, own, statistics
<1>3. CASE LoopEnds \/ SignalSeen
  BY <1>3 DEF LoopEnds, SignalSeen, Go, RequestStop, vars, flags, params,
     control, events, apiVars, own, statistics
<1>4. CASE StopReceiver \/ ShutdownReceiver \/ ForgetReceiver
  BY <1>4 DEF StopReceiver, ShutdownReceiver, ForgetReceiver, Go,
     StopStreaming, Begin, Shutdown, ForgetSession, vars, flags, params,
     control, events, apiVars, own, statistics
<1>5. CASE PrintStatistics
  BY <1>5 DEF PrintStatistics, Go, vars, flags, params, control, events,
     apiVars, own, statistics
<1>6. CASE Judge
  <2>1. /\ step = "judge" /\ step' = "leave" /\ at = "client"
        /\ life = "shut" /\ printed # <<>>
        /\ exit' \in {"zero", "one"}
        /\ exit' = "zero" =>
             clean /\ ~signal /\ ~deviceRemoved /\ ackFailures = 0
    BY <1>6 DEF Judge, Go
  <2>2. UNCHANGED <<vars, signal, printed>>
    BY <1>6 DEF Judge
  <2>3. ~apiOpen /\ ~apiLocked /\ ~deviceSelected /\ ~deviceInitialised
    BY <2>1 DEF SessionInv, GivingBack, Over
  <2>4. clean => service = Idle
    BY <2>1, CleanIsIdle DEF CleanMeansIdle, Ended
  <2>. QED
    BY <2>1, <2>2, <2>3, <2>4
       DEF vars, apiVars, flags, control, events
<1>7. CASE Leave \/ DestroySession \/ Exit
  BY <1>7 DEF Leave, DestroySession, Exit, Go, Destroy, Begin, vars, flags,
     params, control, events, apiVars, own, statistics
<1>8. CASE SessionStep
  BY <1>8, NothingHappens, EventsStay, OperationsProgress DEF SessionStep,
     vars, flags, params, control, events, apiVars, own, statistics, Progress,
     SessionInv, Place
<1>9. ASSUME NEW value \in SampleValues, StreamCallback(value)
      PROVE  Judged'
  BY <1>9, QuietWhenJudged DEF StreamCallback, CountSample, vars, flags,
     params, control, events, apiVars, own, statistics
<1>10. CASE InvalidInput
  BY <1>10, QuietWhenJudged DEF InvalidInput, RequestStop, vars, flags,
     params, control, events, apiVars, own, statistics
<1>11. CASE UpdateMinimum \/ UpdateMaximum
  BY <1>11 DEF UpdateMinimum, UpdateMaximum, vars, flags, params, control,
     events, apiVars, own, statistics
<1>12. CASE EventCallbackRuns
  BY <1>12, QuietWhenJudged DEF EventCallbackRuns, EventCallback,
     PowerOverloadChange, CheckSelected, RecordAckFailure, DeviceRemoved,
     Acknowledge, AcknowledgeOverload, Attempt, vars, flags, params, control,
     events, apiVars, own, statistics
<1>13. CASE SignalArrives
  BY <1>13 DEF SignalArrives, vars, flags, params, control, events, apiVars,
     own, statistics
<1>14. CASE UNCHANGED probeVars
  BY <1>14 DEF probeVars, vars, flags, params, control, events, apiVars, own,
     statistics
<1>. HIDE DEF ProbeInv, Located, Judged, Setup, Gone, Nothing, Ending,
              Clearing
<1>. QED BY <1>1, <1>2, <1>3, <1>4, <1>5, <1>6, <1>7, <1>8, <1>9, <1>10,
            <1>11, <1>12, <1>13, <1>14 DEF ProbeNext, ProbeDone

-----------------------------------------------------------------------------
(* The invariant holds from the start, whatever happens.                   *)

FrameTyped ==
  /\ step \in {"connect", "connected", "configure", "configured", "objects",
               "initialise", "initialising", "stream", "stop", "shutdown",
               "forget", "print", "judge", "leave", "unwind", "destroy",
               "exited"}
  /\ signal \in BOOLEAN /\ alive \in BOOLEAN

\* Every action leads to a place of runProbe().
LEMMA FrameTypedStep ==
  ASSUME FrameTyped, [ProbeNext]_probeVars
  PROVE  FrameTyped'
<1>. USE DEF FrameTyped
<1>1. CASE ConnectReceiver \/ Connected \/ ConfigureReceiver \/ Configured
  BY <1>1 DEF ConnectReceiver, Connected, ConfigureReceiver, Configured, Go,
     Connect, Configure, own
<1>2. CASE CreateObjects \/ InitialiseReceiver \/ Initialised
  BY <1>2 DEF CreateObjects, InitialiseReceiver, Initialised, Go, Initialise,
     own
<1>3. CASE LoopEnds \/ SignalSeen
  BY <1>3 DEF LoopEnds, SignalSeen, Go, RequestStop, own
<1>4. CASE StopReceiver \/ ShutdownReceiver \/ ForgetReceiver
  BY <1>4 DEF StopReceiver, ShutdownReceiver, ForgetReceiver, Go,
     StopStreaming, Begin, Shutdown, ForgetSession, own
<1>5. CASE PrintStatistics \/ Judge
  BY <1>5 DEF PrintStatistics, Judge, Go, own
<1>6. CASE Leave \/ DestroySession \/ Exit
  BY <1>6 DEF Leave, DestroySession, Exit, Go, Destroy, Begin, own
<1>7. CASE SessionStep
  BY <1>7 DEF SessionStep, own
<1>8. ASSUME NEW value \in SampleValues, StreamCallback(value)
      PROVE  FrameTyped'
  BY <1>8 DEF StreamCallback, CountSample, own
<1>9. CASE InvalidInput
  BY <1>9 DEF InvalidInput, RequestStop, own
<1>10. CASE UpdateMinimum \/ UpdateMaximum
  BY <1>10 DEF UpdateMinimum, UpdateMaximum, own
<1>11. CASE EventCallbackRuns
  BY <1>11 DEF EventCallbackRuns, EventCallback, PowerOverloadChange,
     CheckSelected, RecordAckFailure, DeviceRemoved, Acknowledge,
     AcknowledgeOverload, Attempt, own
<1>12. CASE SignalArrives
  BY <1>12 DEF SignalArrives, own
<1>13. CASE UNCHANGED probeVars
  BY <1>13 DEF probeVars, vars, flags, params, control, events, apiVars, own,
     statistics
<1>. HIDE DEF FrameTyped
<1>. QED BY <1>1, <1>2, <1>3, <1>4, <1>5, <1>6, <1>7, <1>8, <1>9, <1>10,
            <1>11, <1>12, <1>13 DEF ProbeNext, ProbeDone

LEMMA InitProbeInv ==
  ProbeInit => ProbeInv /\ Measured /\ Printed /\ Judged /\ FrameTyped
<1>. SUFFICES ASSUME ProbeInit
              PROVE  ProbeInv /\ Measured /\ Printed /\ Judged /\ FrameTyped
  OBVIOUS
<1>. USE DEF ProbeInit, Init, ApiInit
<1>1. ProbeInv
  BY DEF ProbeInv, Located, Framed, SampleInStream, UninitReported, Setup,
         Gone
<1>2. Measured
  BY ProbeAssumption, EmptySeq, LenProperties
     DEF Measured, Lowered, Raised, IsLeast, IsGreatest, StatisticsInit
<1>3. Printed /\ Judged
  BY DEF Printed, Judged, Gone
<1>4. FrameTyped
  BY DEF FrameTyped
<1>. QED BY <1>1, <1>2, <1>3, <1>4

\* Wherever the probe is, the session is where it should be, the callbacks
\* have their objects, the counter and the extrema are those of the samples
\* so far, and what was printed and judged stays true.
THEOREM ProbeInvariance ==
  ProbeSpec => [](/\ SessionInv /\ ProbeInv /\ Measured /\ Printed /\ Judged
                  /\ FrameTyped)
<1>. DEFINE Inv == /\ SessionInv /\ ProbeInv /\ Measured /\ Printed /\ Judged
                   /\ FrameTyped
<1>1. ProbeInit => Inv
  BY InitProbeInv, InitSessionInv DEF ProbeInit
<1>2. Inv /\ [ProbeNext]_probeVars => Inv'
  <2>. SUFFICES ASSUME Inv, [ProbeNext]_probeVars PROVE Inv'
    OBVIOUS
  <2>1. SessionInv'
    BY ProbeStepUsed, NextSessionInv
  <2>2. ProbeInv'
    BY LocatedStep, FramedStep, SampleStep, ReportedStep DEF ProbeInv
  <2>3. Measured' /\ Printed' /\ Judged' /\ FrameTyped'
    BY MeasuredStep, PrintedStep, JudgedStep, FrameTypedStep
  <2>. QED BY <2>1, <2>2, <2>3
<1>3. ProbeSpec => []Inv
  BY <1>1, <1>2, PTL DEF ProbeSpec
<1>. QED BY <1>3

-----------------------------------------------------------------------------
(* What follows from it.                                                   *)

\* Every variable keeps its type; so the extrema are values of a sample, or
\* those of the type, and the counter does not run away.
THEOREM ProbeTypeCorrect == ProbeSpec => []ProbeTypeOK
<1>1. SessionInv /\ Measured /\ Judged /\ FrameTyped => ProbeTypeOK
  <2>. SUFFICES ASSUME SessionInv, Measured, Judged, FrameTyped
                PROVE  ProbeTypeOK
    OBVIOUS
  <2>1. TypeOK
    BY DEF SessionInv
  <2>2. count \in 0 .. MaxCallbacks
    BY ProbeAssumption, ExtremaTyped DEF Measured
  <2>3. /\ low \in SampleValues \union {32767}
        /\ high \in SampleValues \union {-32768}
    BY ExtremaTyped
  <2>4. sample = <<>> \/ sample \in {"low", "high"} \X SampleValues
    BY DEF Measured
  <2>5. exit \in {"zero", "one"}
    BY DEF Judged
  <2>. QED BY <2>1, <2>2, <2>3, <2>4, <2>5 DEF ProbeTypeOK, FrameTyped
<1>. QED BY <1>1, ProbeInvariance, PTL

\* A probe that returns zero has printed how many samples it was given, the
\* extrema of these if there were any, and has left nothing behind.
THEOREM ZeroMeansMeasured == ProbeSpec => []ProbeTellsTheTruth
<1>1. SessionInv /\ ProbeInv /\ Measured /\ Printed /\ Judged
        => ProbeTellsTheTruth
  <2>. SUFFICES ASSUME SessionInv, ProbeInv, Measured, Printed, Judged,
                       step = "exited", exit = "zero"
                PROVE  /\ printed[1] = Len(samples)
                       /\ samples # <<>> =>
                            /\ printed[2] \in Delivered
                            /\ printed[3] \in Delivered
                            /\ \A value \in Delivered :
                                 printed[2] <= value /\ value <= printed[3]
                       /\ ~signal /\ ~deviceRemoved
                       /\ acknowledged = overloads /\ service = Idle
    BY DEF ProbeTellsTheTruth
  <2>1. /\ printed # <<>> /\ ~signal /\ ~deviceRemoved /\ ackFailures = 0
        /\ service = Idle /\ clean /\ at \in Ending \union {"client"}
        /\ at \in Ending => success
    BY DEF Judged, Nothing
  <2>2. "Uninit" \notin failed
    BY <2>1 DEF ProbeInv, UninitReported, Blemished
  <2>3. printed = <<count, low, high>> /\ sample = <<>>
    BY <2>1, <2>2 DEF Printed
  <2>4. Lowered = Len(samples) /\ Raised = Len(samples)
    BY <2>3 DEF Lowered, Raised
  <2>5. /\ count = Len(samples) /\ samples \in Seq(SampleValues)
        /\ IsLeast(low, samples, Len(samples))
        /\ IsGreatest(high, samples, Len(samples))
    BY <2>4 DEF Measured
  <2>6. ASSUME samples # <<>>
        PROVE  /\ low \in Delivered /\ high \in Delivered
               /\ \A value \in Delivered : low <= value /\ value <= high
    <3>1. /\ Len(samples) # 0
          /\ DOMAIN samples = 1 .. Len(samples)
      BY <2>5, <2>6, EmptySeq, LenProperties
    <3>. QED BY <2>5, <3>1 DEF IsLeast, IsGreatest, Delivered
  <2>7. acknowledged = overloads
    BY <2>1, QuietWhenJudged DEF SessionInv, OverloadsAnswered, TypeOK
  <2>. QED BY <2>1, <2>3, <2>5, <2>6, <2>7
<1>. QED BY <1>1, ProbeInvariance, PTL

\* No callback is running when the objects it uses are destroyed, although
\* the session is still there.
THEOREM ObjectsThere == ProbeSpec => []ObjectsOutliveStream
<1>1. SessionInv /\ ProbeInv => ObjectsOutliveStream
  <2>. SUFFICES ASSUME SessionInv, ProbeInv, "Uninit" \notin failed, ~alive
                PROVE  ~service.streaming /\ sample = <<>> /\ callback = "idle"
    BY DEF ObjectsOutliveStream
  <2>1. step \in Setup \union Gone
    BY DEF ProbeInv, Framed
  <2>2. ~deviceInitialised
    BY <2>1 DEF ProbeInv, Framed
  <2>3. at # "initialised"
    BY <2>1 DEF ProbeInv, Located, Setup, Gone, SessionInv, Place, Ending,
                Clearing, Connecting
  <2>4. ~service.streaming
    BY <2>2, <2>3 DEF SessionInv, Owed
  <2>. QED
    BY <2>4 DEF ProbeInv, SampleInStream, SessionInv, CallbackStreams
<1>. QED BY <1>1, ProbeInvariance, PTL
=============================================================================
