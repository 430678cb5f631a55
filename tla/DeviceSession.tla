---------------------------- MODULE DeviceSession ----------------------------
(***************************************************************************)
(* class DeviceSession and eventCallback() (src/src/rsp1b_device.{hpp,cpp}):*)
(* one session with the SDRplay API service.  The application thread calls *)
(* the session's operations, each of them a series of API calls any of     *)
(* which may fail; while a stream runs, the service calls eventCallback()  *)
(* on a thread of its own.  A session can be destroyed between any two     *)
(* operations: an early return or an exception of the caller does it.      *)
(*                                                                         *)
(* The caller is more general than the two programs: after connect() it    *)
(* may configure, initialise, stop and shut down in any order and as often *)
(* as it likes, but it connects once, starts no second stream beside a     *)
(* running one, and does not use a session that was shut down.             *)
(***************************************************************************)
EXTENDS Integers, SdrplayApi

CONSTANT MaxOverloads   \* bound: power-overload events

ASSUME OverloadAssumption == MaxOverloads \in Nat

VARIABLES
  apiOpen, apiLocked, deviceSelected, deviceInitialised,
  biasTShutdownAttempted,
  deviceParams,      \* "none", "noChannel", "noDevice" or "complete"
  biasTEnable,       \* the parameter in *deviceParams_
  at,                \* the API call the application thread is about to make
  op,                \* "stop" or "shutdown": whose call that is
  success,           \* the local of that name
  life,              \* "new", "used", "shut", "dying", "destroyed"
  clean,             \* stopStreaming() and shutdown() always returned true
  contextSession,    \* DeviceCallbackContext::session is not null
  callback,          \* where a power-overload event is in eventCallback()
  stopRequested, deviceRemoved, overloads, ackFailures,   \* EventState
  acknowledged       \* history: events acknowledged

flags   == <<apiOpen, apiLocked, deviceSelected, deviceInitialised,
             biasTShutdownAttempted>>
params  == <<deviceParams, biasTEnable>>
control == <<at, op, success, life, clean>>
events  == <<callback, stopRequested, deviceRemoved, overloads, ackFailures,
             acknowledged>>
vars    == <<apiVars, flags, params, control, contextSession, events>>

Init ==
  /\ ApiInit
  /\ apiOpen = FALSE /\ apiLocked = FALSE /\ deviceSelected = FALSE
  /\ deviceInitialised = FALSE /\ biasTShutdownAttempted = FALSE
  /\ deviceParams = "none" /\ biasTEnable = FALSE
  /\ at = "client" /\ op = "stop" /\ success = TRUE
  /\ life = "new" /\ clean = TRUE /\ contextSession = FALSE
  /\ callback = "idle" /\ stopRequested = FALSE /\ deviceRemoved = FALSE
  /\ overloads = 0 /\ ackFailures = 0 /\ acknowledged = 0

-----------------------------------------------------------------------------
(* Faulty variants: slips that would be easy to make in this class.  None  *)
(* is part of Next; substituting one for the operator of similar name      *)
(* shows that the property which is meant to catch it does.                *)

\* deviceSelected_ is not set when the device is selected.
SelectNotNoted(ok) ==
  /\ at = "select" /\ Select(ok)
  /\ at' = IF ok THEN "unlock" ELSE "client"
  /\ UNCHANGED <<flags, params, op, success, life, clean, contextSession,
                 events>>

\* apiLocked_ is not reset when the API is unlocked.
UnlockNotNoted(ok) ==
  /\ at = "unlock" /\ Unlock(ok)
  /\ at' = IF ok THEN "params" ELSE "client"
  /\ UNCHANGED <<flags, params, op, success, life, clean, contextSession,
                 events>>

\* deviceInitialised_ is not set when Init has succeeded.
InitialiseNotNoted ==
  /\ at = "initialised" /\ at' = "client"
  /\ UNCHANGED <<apiVars, flags, params, op, success, life, clean,
                 contextSession, events>>

\* The parameter is changed, but the service is not told.
BiasTParameterOnly(ok) ==
  /\ at = "biasT" /\ deviceSelected /\ ~biasTShutdownAttempted
  /\ deviceParams \notin {"none", "noChannel"} /\ deviceInitialised
  /\ biasTEnable' = FALSE /\ biasTShutdownAttempted' = TRUE
  /\ at' = "uninit"
  /\ UNCHANGED <<apiVars, apiOpen, apiLocked, deviceSelected,
                 deviceInitialised, deviceParams, op, success, life, clean,
                 contextSession, events>>

\* The result of the request to switch Bias-T off is not looked at.
BiasTResultIgnored(ok) ==
  /\ at = "biasT" /\ deviceSelected /\ ~biasTShutdownAttempted
  /\ deviceParams \notin {"none", "noChannel"} /\ deviceInitialised
  /\ biasTEnable' = FALSE /\ biasTShutdownAttempted' = TRUE
  /\ UpdateBiasT(ok, FALSE)
  /\ at' = "uninit"
  /\ UNCHANGED <<apiOpen, apiLocked, deviceSelected, deviceInitialised,
                 deviceParams, op, success, life, clean, contextSession,
                 events>>

\* A failed acknowledgement stops the stream but is not counted.
AckFailureNotCounted ==
  /\ callback = "failed"
  /\ stopRequested' = TRUE /\ callback' = "idle"
  /\ UNCHANGED <<apiVars, flags, params, control, contextSession,
                 deviceRemoved, overloads, ackFailures, acknowledged>>

\* The acknowledgement is tried for ever, each failure being counted.
AckFailureRepeated ==
  /\ callback = "failed"
  /\ ackFailures' = ackFailures + 1 /\ stopRequested' = TRUE
  /\ callback' \in {"idle", "check"}
  /\ UNCHANGED <<apiVars, flags, params, control, contextSession,
                 deviceRemoved, overloads, acknowledged>>

-----------------------------------------------------------------------------
(* connect(): a failed call ends it, and leaves the rest to shutdown().    *)

NextCall(ok, call) == at' = IF ok THEN call ELSE "client"

Connect ==
  /\ life = "new" /\ at = "client"
  /\ at' = "open" /\ life' = "used"
  /\ UNCHANGED <<apiVars, flags, params, op, success, clean, contextSession,
                 events>>

ConnectOpen(ok) ==
  /\ at = "open" /\ Open(ok)
  /\ apiOpen' = ok
  /\ NextCall(ok, "version")
  /\ UNCHANGED <<apiLocked, deviceSelected, deviceInitialised,
                 biasTShutdownAttempted, params, op, success, life, clean,
                 contextSession, events>>

\* supported: the runtime is new enough and the one compiled against.
ConnectVersion(ok, supported) ==
  /\ at = "version" /\ Query("ApiVersion", ok)
  /\ NextCall(ok /\ supported, "lock")
  /\ UNCHANGED <<flags, params, op, success, life, clean, contextSession,
                 events>>

ConnectLock(ok) ==
  /\ at = "lock" /\ Lock(ok)
  /\ apiLocked' = ok
  /\ NextCall(ok, "devices")
  /\ UNCHANGED <<apiOpen, deviceSelected, deviceInitialised,
                 biasTShutdownAttempted, params, op, success, life, clean,
                 contextSession, events>>

\* found: a valid RSP1B is among the devices.
ConnectDevices(ok, found) ==
  /\ at = "devices" /\ Query("GetDevices", ok)
  /\ NextCall(ok /\ found, "select")
  /\ UNCHANGED <<flags, params, op, success, life, clean, contextSession,
                 events>>

ConnectSelect(ok) ==
  /\ at = "select" /\ Select(ok)
  /\ deviceSelected' = ok
  /\ NextCall(ok, "unlock")
  /\ UNCHANGED <<apiOpen, apiLocked, deviceInitialised,
                 biasTShutdownAttempted, params, op, success, life, clean,
                 contextSession, events>>

ConnectUnlock(ok) ==
  /\ at = "unlock" /\ Unlock(ok)
  /\ apiLocked' = ~ok
  /\ NextCall(ok, "params")
  /\ UNCHANGED <<apiOpen, deviceSelected, deviceInitialised,
                 biasTShutdownAttempted, params, op, success, life, clean,
                 contextSession, events>>

\* connect() returns true only for complete parameters; incomplete ones stay.
ConnectParams(ok, received) ==
  /\ at = "params" /\ Query("GetDeviceParams", ok)
  /\ deviceParams' = IF ok THEN received ELSE deviceParams
  /\ at' = "client"
  /\ UNCHANGED <<flags, biasTEnable, op, success, life, clean,
                 contextSession, events>>

-----------------------------------------------------------------------------
(* configure() and initialise().  Refused, they change nothing.            *)

Configure(biasT) ==
  /\ life = "used" /\ at = "client"
  /\ deviceSelected /\ deviceParams = "complete"
  /\ biasTEnable' = biasT
  /\ biasTShutdownAttempted' = FALSE
  /\ UNCHANGED <<apiVars, apiOpen, apiLocked, deviceSelected,
                 deviceInitialised, deviceParams, control, contextSession,
                 events>>

\* The service may call back before initialise() knows that Init succeeded.
Initialise ==
  /\ life = "used" /\ at = "client" /\ ~deviceInitialised
  /\ deviceSelected
  /\ contextSession' = TRUE
  /\ at' = "init"
  /\ UNCHANGED <<apiVars, flags, params, op, success, life, clean, events>>

InitialiseCall(ok) ==
  /\ at = "init" /\ StartStream(ok, biasTEnable)
  /\ contextSession' = ok
  /\ NextCall(ok, "initialised")
  /\ UNCHANGED <<flags, params, op, success, life, clean, events>>

InitialiseReturn ==
  /\ at = "initialised"
  /\ deviceInitialised' = TRUE
  /\ at' = "client"
  /\ UNCHANGED <<apiVars, apiOpen, apiLocked, deviceSelected,
                 biasTShutdownAttempted, params, op, success, life, clean,
                 contextSession, events>>

-----------------------------------------------------------------------------
(* stopStreaming() and shutdown(), which the destructor calls again.       *)

\* An operation begins by asking for Bias-T to be switched off.
Begin(operation) ==
  /\ at = "client"
  /\ at' = "biasT" /\ op' = operation /\ success' = TRUE
  /\ UNCHANGED <<apiVars, flags, params, clean, contextSession, events>>

StopStreaming == life = "used" /\ Begin("stop") /\ UNCHANGED life
Shutdown      == life = "used" /\ Begin("shutdown") /\ UNCHANGED life
Destroy       == /\ life \in {"new", "used", "shut"}
                 /\ Begin("shutdown") /\ life' = "dying"

\* disableBiasT() has no call to make, or has made it before, or cannot.
BiasTNothingToUpdate ==
  LET attempts == /\ deviceSelected /\ ~biasTShutdownAttempted
                  /\ deviceParams \notin {"none", "noChannel"}
      lacksParams == /\ deviceSelected /\ ~biasTShutdownAttempted
                     /\ deviceParams \in {"none", "noChannel"}
  IN /\ at = "biasT" /\ ~(attempts /\ deviceInitialised)
     /\ IF attempts THEN biasTEnable' = FALSE /\ biasTShutdownAttempted' = TRUE
                    ELSE UNCHANGED <<biasTEnable, biasTShutdownAttempted>>
     /\ success' = (success /\ ~lacksParams)
     /\ at' = "uninit"
     /\ UNCHANGED <<apiVars, apiOpen, apiLocked, deviceSelected,
                    deviceInitialised, deviceParams, op, life, clean,
                    contextSession, events>>

\* disableBiasT() notes the attempt before it knows the result.
BiasTUpdate(ok) ==
  /\ at = "biasT" /\ deviceSelected /\ ~biasTShutdownAttempted
  /\ deviceParams \notin {"none", "noChannel"} /\ deviceInitialised
  /\ biasTEnable' = FALSE /\ biasTShutdownAttempted' = TRUE
  /\ UpdateBiasT(ok, FALSE)
  /\ success' = (success /\ ok)
  /\ at' = "uninit"
  /\ UNCHANGED <<apiOpen, apiLocked, deviceSelected, deviceInitialised,
                 deviceParams, op, life, clean, contextSession, events>>

\* Uninit has succeeded only when no callback is running any more.  A failed
\* Uninit is tried again after stopStreaming(), given up by shutdown().
UninitCall(ok) ==
  /\ at = "uninit" /\ deviceInitialised
  /\ ok => callback = "idle"
  /\ Uninit(ok)
  /\ deviceInitialised' = (op = "stop" /\ ~ok)
  /\ success' = (success /\ ok)
  /\ at' = IF op = "stop" THEN "return" ELSE "release"
  /\ UNCHANGED <<apiOpen, apiLocked, deviceSelected, biasTShutdownAttempted,
                 params, op, life, clean, contextSession, events>>

ReleaseCall(ok) ==
  /\ at = "release" /\ deviceSelected
  /\ Release(ok)
  /\ deviceSelected' = FALSE /\ deviceParams' = "none"
  /\ success' = (success /\ ok)
  /\ at' = "unlockAgain"
  /\ UNCHANGED <<apiOpen, apiLocked, deviceInitialised,
                 biasTShutdownAttempted, biasTEnable, op, life, clean,
                 contextSession, events>>

UnlockCall(ok) ==
  /\ at = "unlockAgain" /\ apiLocked
  /\ Unlock(ok)
  /\ apiLocked' = FALSE
  /\ success' = (success /\ ok)
  /\ at' = "close"
  /\ UNCHANGED <<apiOpen, deviceSelected, deviceInitialised,
                 biasTShutdownAttempted, params, op, life, clean,
                 contextSession, events>>

CloseCall(ok) ==
  /\ at = "close" /\ apiOpen
  /\ Close(ok)
  /\ apiOpen' = FALSE
  /\ success' = (success /\ ok)
  /\ at' = "return"
  /\ UNCHANGED <<apiLocked, deviceSelected, deviceInitialised,
                 biasTShutdownAttempted, params, op, life, clean,
                 contextSession, events>>

\* What is not held is not given back.
Skip ==
  /\ \/ at = "uninit" /\ ~deviceInitialised
           /\ at' = IF op = "stop" THEN "return" ELSE "release"
     \/ at = "release" /\ ~deviceSelected /\ at' = "unlockAgain"
     \/ at = "unlockAgain" /\ ~apiLocked /\ at' = "close"
     \/ at = "close" /\ ~apiOpen /\ at' = "return"
  /\ UNCHANGED <<apiVars, flags, params, op, success, life, clean,
                 contextSession, events>>

Return ==
  /\ at = "return" /\ at' = "client"
  /\ clean' = (clean /\ success)
  /\ life' = CASE life = "dying" -> "destroyed"
              [] life # "dying" /\ op = "shutdown" -> "shut"
              [] OTHER -> life
  /\ UNCHANGED <<apiVars, flags, params, op, success, contextSession, events>>

\* The programs forget the session once shutdown() has returned.
ForgetSession ==
  /\ life = "shut" /\ at = "client" /\ contextSession
  /\ contextSession' = FALSE
  /\ UNCHANGED <<apiVars, flags, params, control, events>>

\* The application thread inside an operation.
Proceed ==
  \/ InitialiseReturn \/ BiasTNothingToUpdate \/ Skip \/ Return
  \/ \E ok \in BOOLEAN :
       \/ ConnectOpen(ok) \/ ConnectLock(ok) \/ ConnectSelect(ok)
       \/ ConnectUnlock(ok) \/ InitialiseCall(ok)
       \/ BiasTUpdate(ok) \/ UninitCall(ok) \/ ReleaseCall(ok)
       \/ UnlockCall(ok) \/ CloseCall(ok)
       \/ \E good \in BOOLEAN :
            ConnectVersion(ok, good) \/ ConnectDevices(ok, good)
       \/ \E received \in {"none", "noChannel", "noDevice", "complete"} :
            ConnectParams(ok, received)

-----------------------------------------------------------------------------
(* eventCallback(), on the service's thread, as long as a stream runs.     *)

PowerOverloadChange ==
  /\ service.streaming /\ callback = "idle" /\ overloads < MaxOverloads
  /\ overloads' = overloads + 1
  /\ callback' = IF contextSession THEN "check" ELSE "failed"
  /\ UNCHANGED <<apiVars, flags, params, control, contextSession,
                 stopRequested, deviceRemoved, ackFailures, acknowledged>>

\* acknowledgePowerOverload() reads deviceSelected_, and only then calls.
CheckSelected ==
  /\ callback = "check"
  /\ callback' = IF deviceSelected THEN "acknowledge" ELSE "failed"
  /\ UNCHANGED <<apiVars, flags, params, control, contextSession,
                 stopRequested, deviceRemoved, overloads, ackFailures,
                 acknowledged>>

Acknowledge(ok) ==
  /\ callback = "acknowledge" /\ AcknowledgeOverload(ok)
  /\ callback' = IF ok THEN "idle" ELSE "failed"
  /\ acknowledged' = IF ok THEN acknowledged + 1 ELSE acknowledged
  /\ UNCHANGED <<flags, params, control, contextSession, stopRequested,
                 deviceRemoved, overloads, ackFailures>>

\* Two stores, of which the first is not read before the stream has ended.
RecordAckFailure ==
  /\ callback = "failed"
  /\ ackFailures' = ackFailures + 1 /\ stopRequested' = TRUE
  /\ callback' = "idle"
  /\ UNCHANGED <<apiVars, flags, params, control, contextSession,
                 deviceRemoved, overloads, acknowledged>>

DeviceRemoved ==
  /\ service.streaming /\ callback = "idle" /\ ~deviceRemoved
  /\ deviceRemoved' = TRUE /\ stopRequested' = TRUE
  /\ UNCHANGED <<apiVars, flags, params, control, contextSession, callback,
                 overloads, ackFailures, acknowledged>>

\* The stream callback and the writer set the same flag.
StopRequestedElsewhere ==
  /\ ~stopRequested /\ stopRequested' = TRUE
  /\ UNCHANGED <<apiVars, flags, params, control, contextSession, callback,
                 deviceRemoved, overloads, ackFailures, acknowledged>>

EventCallback ==
  \/ PowerOverloadChange \/ CheckSelected \/ RecordAckFailure \/ DeviceRemoved
  \/ \E ok \in BOOLEAN : Acknowledge(ok)

-----------------------------------------------------------------------------
\* The session is gone, and no event is left to come.
Done ==
  /\ life = "destroyed" /\ callback = "idle"
  /\ UNCHANGED vars

Next ==
  \/ Connect \/ Initialise \/ StopStreaming \/ Shutdown \/ Destroy
  \/ ForgetSession \/ Proceed \/ EventCallback \/ StopRequestedElsewhere
  \/ Done
  \/ \E biasT \in BOOLEAN : Configure(biasT)

Spec == Init /\ [][Next]_vars

-----------------------------------------------------------------------------
(* Properties.                                                             *)

TypeOK ==
  /\ ApiTypeOK
  /\ apiOpen \in BOOLEAN /\ apiLocked \in BOOLEAN
  /\ deviceSelected \in BOOLEAN /\ deviceInitialised \in BOOLEAN
  /\ biasTShutdownAttempted \in BOOLEAN /\ biasTEnable \in BOOLEAN
  /\ deviceParams \in {"none", "noChannel", "noDevice", "complete"}
  /\ at \in {"client", "open", "version", "lock", "devices", "select",
             "unlock", "params", "init", "initialised", "biasT", "uninit",
             "release", "unlockAgain", "close", "return"}
  /\ op \in {"stop", "shutdown"} /\ success \in BOOLEAN
  /\ life \in {"new", "used", "shut", "dying", "destroyed"}
  /\ clean \in BOOLEAN /\ contextSession \in BOOLEAN
  /\ callback \in {"idle", "check", "acknowledge", "failed"}
  /\ stopRequested \in BOOLEAN /\ deviceRemoved \in BOOLEAN
  /\ overloads \in 0 .. MaxOverloads /\ ackFailures \in 0 .. MaxOverloads
  /\ acknowledged \in 0 .. MaxOverloads

Ended == at = "client" /\ life \in {"shut", "destroyed"}

\* However far connect() and initialise() came and whatever failed, a session
\* that has ended holds nothing the service was not asked to take back: what
\* is still held is held because the call that gives it back failed.
NothingLeaked ==
  Ended =>
    /\ service.streaming => "Uninit" \in failed
    /\ service.selected => "Release" \in failed
    /\ service.locked => "Unlock" \in failed
    /\ service.open => "Close" \in failed

\* If stopStreaming() and shutdown() reported no failure, the service holds
\* nothing for the program and the antenna port carries no power.
CleanMeansIdle == Ended /\ clean => service = Idle

\* No call is made that the state of the service does not allow: nothing is
\* given back twice, and a device is released, and the API closed, after the
\* stream has ended.  Only after a failed Uninit or Release does shutdown()
\* go on regardless (rsp1b_device.cpp:194).
OnlyLegalCalls == failed \intersect {"Uninit", "Release"} = {} => misused = {}

\* A stream ends with the antenna power already switched off, unless the
\* request to do so failed: it is not repeated (README.md:190-191).
BiasTOffFirst ==
  [][service.streaming /\ ~service'.streaming =>
       ~service.power \/ "UpdateBiasT" \in failed]_vars

\* An event callback runs only while the session exists, its device is
\* selected and its stream runs, so the device it acknowledges for is there;
\* a failed Uninit ends that guarantee.
CallbackInsideSession ==
  callback # "idle" /\ "Uninit" \notin failed =>
    life # "destroyed" /\ service.streaming /\ service.selected

\* Every power-overload event is acknowledged or counted as a failure, which
\* asks for the end of the stream, and none is answered twice.
OverloadsAnswered ==
  /\ overloads = acknowledged + ackFailures
                   + IF callback = "idle" THEN 0 ELSE 1
  /\ ackFailures > 0 => stopRequested
=============================================================================
