------------------------- MODULE DeviceSessionProofs -------------------------
(***************************************************************************)
(* Proofs about DeviceSession, for any number of power-overload events.    *)
(* The session's flags and the service's state are separate, and differ    *)
(* whenever a call has failed or is not noted yet: SessionInv says by how  *)
(* much they may, at each place of each operation.                         *)
(***************************************************************************)
EXTENDS DeviceSession, TLAPS

-----------------------------------------------------------------------------
(* The inductive invariant.                                                *)

Connecting == {"open", "version", "lock", "devices", "select", "unlock",
               "params"}
Clearing   == {"uninit", "release", "unlockAgain", "close", "return"}
Ending     == Clearing \union {"biasT"}

\* Where the application thread can be in the life of the session.
Place ==
  /\ life \in {"new", "shut", "destroyed"} => at = "client"
  /\ life = "dying" => at \in Ending /\ op = "shutdown"
  /\ at \in {"release", "unlockAgain", "close"} => op = "shutdown"

\* connect() obtains one thing after the other, beginning with nothing.
Obtaining ==
  /\ life = "new" \/ at \in Connecting =>
       clean /\ ~deviceInitialised /\ ~biasTEnable
  /\ life = "new" \/ at = "open" => ~apiOpen
  /\ at \in Connecting \ {"open"} => apiOpen
  /\ life = "new" \/ at \in {"open", "version", "lock"} => ~apiLocked
  /\ at \in {"devices", "select", "unlock"} => apiLocked
  /\ life = "new" \/ at \in {"open", "version", "lock", "devices", "select"}
       => ~deviceSelected
  /\ at \in {"unlock", "params"} => deviceSelected
  /\ at \in {"init", "initialised"} => deviceSelected /\ ~deviceInitialised

\* shutdown() gives them back in the opposite order.
Over == life \in {"shut", "destroyed"} \/ (at = "return" /\ op = "shutdown")

GivingBack ==
  /\ at \in {"release", "unlockAgain", "close"} \/ Over => ~deviceInitialised
  /\ at \in {"unlockAgain", "close"} \/ Over => ~deviceSelected
  /\ at = "close" \/ Over => ~apiLocked
  /\ Over => ~apiOpen

\* What the session believes to hold, it holds.
Noted ==
  /\ apiOpen => service.open
  /\ apiLocked => service.locked
  /\ deviceSelected => service.selected
  /\ deviceInitialised => service.streaming /\ deviceSelected
  /\ at = "initialised" => service.streaming

\* A failure has been or will be reported.
Blemished == ~clean \/ (at \in Ending /\ ~success)

\* What it holds without believing so, it was refused to give back.
Owed ==
  /\ service.open => apiOpen \/ ("Close" \in failed /\ Blemished)
  /\ service.locked => apiLocked \/ ("Unlock" \in failed /\ Blemished)
  /\ service.selected => deviceSelected \/ ("Release" \in failed /\ Blemished)
  /\ service.streaming => \/ deviceInitialised \/ at = "initialised"
                          \/ "Uninit" \in failed /\ Blemished

\* The antenna power is on only while the stream runs and disableBiasT() has
\* yet to be called, or because its request failed.
Power ==
  /\ biasTEnable => /\ ~biasTShutdownAttempted
                    /\ deviceParams = "complete" \/ ~deviceSelected
  /\ service.power =>
       \/ "UpdateBiasT" \in failed /\ Blemished
       \/ /\ deviceInitialised \/ at = "initialised"
          /\ ~biasTShutdownAttempted /\ deviceParams = "complete"
          /\ at \notin Clearing

CallbackStreams == callback # "idle" => service.streaming

SessionInv ==
  /\ TypeOK /\ Place /\ Obtaining /\ GivingBack /\ Noted /\ Owed /\ Power
  /\ CallbackStreams /\ OnlyLegalCalls /\ OverloadsAnswered

-----------------------------------------------------------------------------
(* Types.  TypeOK is proved in three parts: the service's record, the      *)
(* values that name places and the counters, and the flags.                *)

PlacesTyped ==
  /\ deviceParams \in {"none", "noChannel", "noDevice", "complete"}
  /\ at \in {"client", "open", "version", "lock", "devices", "select",
             "unlock", "params", "init", "initialised", "biasT", "uninit",
             "release", "unlockAgain", "close", "return"}
  /\ op \in {"stop", "shutdown"}
  /\ life \in {"new", "used", "shut", "dying", "destroyed"}
  /\ callback \in {"idle", "check", "acknowledge", "failed"}
  /\ overloads \in 0 .. MaxOverloads /\ ackFailures \in 0 .. MaxOverloads
  /\ acknowledged \in 0 .. MaxOverloads

FlagsTyped ==
  /\ apiOpen \in BOOLEAN /\ apiLocked \in BOOLEAN
  /\ deviceSelected \in BOOLEAN /\ deviceInitialised \in BOOLEAN
  /\ biasTShutdownAttempted \in BOOLEAN /\ biasTEnable \in BOOLEAN
  /\ success \in BOOLEAN /\ clean \in BOOLEAN /\ contextSession \in BOOLEAN
  /\ stopRequested \in BOOLEAN /\ deviceRemoved \in BOOLEAN

\* A call of the service leaves a state of the service.
LEMMA ServiceTypeStep == ASSUME SessionInv, [Next]_vars PROVE ApiTypeOK'
<1>. USE DEF SessionInv, TypeOK, ApiTypeOK, apiVars, flags, params, control,
             events
<1>1. CASE Connect
  BY <1>1 DEF Connect
<1>2. ASSUME NEW ok \in BOOLEAN, ConnectOpen(ok)
      PROVE  ApiTypeOK'
  BY <1>2 DEF ConnectOpen, Open, Attempt, NextCall
<1>3. ASSUME NEW ok \in BOOLEAN, NEW good \in BOOLEAN,
             ConnectVersion(ok, good)
      PROVE  ApiTypeOK'
  BY <1>3 DEF ConnectVersion, Query, Attempt, NextCall
<1>4. ASSUME NEW ok \in BOOLEAN, ConnectLock(ok)
      PROVE  ApiTypeOK'
  BY <1>4 DEF ConnectLock, Lock, Attempt, NextCall
<1>5. ASSUME NEW ok \in BOOLEAN, NEW good \in BOOLEAN,
             ConnectDevices(ok, good)
      PROVE  ApiTypeOK'
  BY <1>5 DEF ConnectDevices, Query, Attempt, NextCall
<1>6. ASSUME NEW ok \in BOOLEAN, ConnectSelect(ok)
      PROVE  ApiTypeOK'
  BY <1>6 DEF ConnectSelect, Select, Attempt, NextCall
<1>7. ASSUME NEW ok \in BOOLEAN, ConnectUnlock(ok)
      PROVE  ApiTypeOK'
  BY <1>7 DEF ConnectUnlock, Unlock, Attempt, NextCall
<1>8. ASSUME NEW ok \in BOOLEAN,
             NEW received \in {"none", "noChannel", "noDevice", "complete"},
             ConnectParams(ok, received)
      PROVE  ApiTypeOK'
  BY <1>8 DEF ConnectParams, Query, Attempt
<1>9. ASSUME NEW biasT \in BOOLEAN, Configure(biasT)
      PROVE  ApiTypeOK'
  BY <1>9 DEF Configure
<1>10. CASE Initialise
  BY <1>10 DEF Initialise
<1>11. ASSUME NEW ok \in BOOLEAN, InitialiseCall(ok)
      PROVE  ApiTypeOK'
  BY <1>11 DEF InitialiseCall, StartStream, Attempt, NextCall
<1>12. CASE InitialiseReturn
  BY <1>12 DEF InitialiseReturn
<1>13. CASE StopStreaming
  BY <1>13 DEF StopStreaming, Begin
<1>14. CASE Shutdown
  BY <1>14 DEF Shutdown, Begin
<1>15. CASE Destroy
  BY <1>15 DEF Destroy, Begin
<1>16. CASE BiasTNothingToUpdate
  BY <1>16 DEF BiasTNothingToUpdate
<1>17. ASSUME NEW ok \in BOOLEAN, BiasTUpdate(ok)
      PROVE  ApiTypeOK'
  BY <1>17 DEF BiasTUpdate, UpdateBiasT, Attempt
<1>18. ASSUME NEW ok \in BOOLEAN, UninitCall(ok)
      PROVE  ApiTypeOK'
  BY <1>18 DEF UninitCall, Uninit, Attempt
<1>19. ASSUME NEW ok \in BOOLEAN, ReleaseCall(ok)
      PROVE  ApiTypeOK'
  BY <1>19 DEF ReleaseCall, Release, Attempt
<1>20. ASSUME NEW ok \in BOOLEAN, UnlockCall(ok)
      PROVE  ApiTypeOK'
  BY <1>20 DEF UnlockCall, Unlock, Attempt
<1>21. ASSUME NEW ok \in BOOLEAN, CloseCall(ok)
      PROVE  ApiTypeOK'
  BY <1>21 DEF CloseCall, Close, Attempt
<1>22. CASE Skip
  BY <1>22 DEF Skip
<1>23. CASE Return
  BY <1>23 DEF Return
<1>24. CASE ForgetSession
  BY <1>24 DEF ForgetSession
<1>25. CASE PowerOverloadChange
  BY <1>25 DEF PowerOverloadChange
<1>26. CASE CheckSelected
  BY <1>26 DEF CheckSelected
<1>27. ASSUME NEW ok \in BOOLEAN, Acknowledge(ok)
      PROVE  ApiTypeOK'
  BY <1>27 DEF Acknowledge, AcknowledgeOverload, Attempt
<1>28. CASE RecordAckFailure
  BY <1>28 DEF RecordAckFailure
<1>29. CASE DeviceRemoved
  BY <1>29 DEF DeviceRemoved
<1>30. CASE StopRequestedElsewhere
  BY <1>30 DEF StopRequestedElsewhere
<1>31. CASE UNCHANGED vars
  BY <1>31 DEF vars, apiVars, flags, params, control, events
<1>. QED
  BY <1>1, <1>2, <1>3, <1>4, <1>5, <1>6, <1>7, <1>8, <1>9, <1>10, <1>11,
     <1>12, <1>13, <1>14, <1>15, <1>16, <1>17, <1>18, <1>19, <1>20, <1>21,
     <1>22, <1>23, <1>24, <1>25, <1>26, <1>27, <1>28, <1>29, <1>30, <1>31
     DEF Next, Proceed, EventCallback, Done

\* The counters stay within the bound because each event is counted once.
LEMMA PlacesTypeStep == ASSUME SessionInv, [Next]_vars PROVE PlacesTyped'
<1>. USE DEF SessionInv, TypeOK, PlacesTyped, OverloadsAnswered, apiVars,
             flags, params, control, events
<1>1. CASE Connect
  BY <1>1 DEF Connect
<1>2. ASSUME NEW ok \in BOOLEAN, ConnectOpen(ok)
      PROVE  PlacesTyped'
  BY <1>2 DEF ConnectOpen, Open, Attempt, NextCall
<1>3. ASSUME NEW ok \in BOOLEAN, NEW good \in BOOLEAN,
             ConnectVersion(ok, good)
      PROVE  PlacesTyped'
  BY <1>3 DEF ConnectVersion, Query, Attempt, NextCall
<1>4. ASSUME NEW ok \in BOOLEAN, ConnectLock(ok)
      PROVE  PlacesTyped'
  BY <1>4 DEF ConnectLock, Lock, Attempt, NextCall
<1>5. ASSUME NEW ok \in BOOLEAN, NEW good \in BOOLEAN,
             ConnectDevices(ok, good)
      PROVE  PlacesTyped'
  BY <1>5 DEF ConnectDevices, Query, Attempt, NextCall
<1>6. ASSUME NEW ok \in BOOLEAN, ConnectSelect(ok)
      PROVE  PlacesTyped'
  BY <1>6 DEF ConnectSelect, Select, Attempt, NextCall
<1>7. ASSUME NEW ok \in BOOLEAN, ConnectUnlock(ok)
      PROVE  PlacesTyped'
  BY <1>7 DEF ConnectUnlock, Unlock, Attempt, NextCall
<1>8. ASSUME NEW ok \in BOOLEAN,
             NEW received \in {"none", "noChannel", "noDevice", "complete"},
             ConnectParams(ok, received)
      PROVE  PlacesTyped'
  BY <1>8 DEF ConnectParams, Query, Attempt
<1>9. ASSUME NEW biasT \in BOOLEAN, Configure(biasT)
      PROVE  PlacesTyped'
  BY <1>9 DEF Configure
<1>10. CASE Initialise
  BY <1>10 DEF Initialise
<1>11. ASSUME NEW ok \in BOOLEAN, InitialiseCall(ok)
      PROVE  PlacesTyped'
  BY <1>11 DEF InitialiseCall, StartStream, Attempt, NextCall
<1>12. CASE InitialiseReturn
  BY <1>12 DEF InitialiseReturn
<1>13. CASE StopStreaming
  BY <1>13 DEF StopStreaming, Begin
<1>14. CASE Shutdown
  BY <1>14 DEF Shutdown, Begin
<1>15. CASE Destroy
  BY <1>15 DEF Destroy, Begin
<1>16. CASE BiasTNothingToUpdate
  BY <1>16 DEF BiasTNothingToUpdate
<1>17. ASSUME NEW ok \in BOOLEAN, BiasTUpdate(ok)
      PROVE  PlacesTyped'
  BY <1>17 DEF BiasTUpdate, UpdateBiasT, Attempt
<1>18. ASSUME NEW ok \in BOOLEAN, UninitCall(ok)
      PROVE  PlacesTyped'
  BY <1>18 DEF UninitCall, Uninit, Attempt
<1>19. ASSUME NEW ok \in BOOLEAN, ReleaseCall(ok)
      PROVE  PlacesTyped'
  BY <1>19 DEF ReleaseCall, Release, Attempt
<1>20. ASSUME NEW ok \in BOOLEAN, UnlockCall(ok)
      PROVE  PlacesTyped'
  BY <1>20 DEF UnlockCall, Unlock, Attempt
<1>21. ASSUME NEW ok \in BOOLEAN, CloseCall(ok)
      PROVE  PlacesTyped'
  BY <1>21 DEF CloseCall, Close, Attempt
<1>22. CASE Skip
  BY <1>22 DEF Skip
<1>23. CASE Return
  BY <1>23 DEF Return
<1>24. CASE ForgetSession
  BY <1>24 DEF ForgetSession
<1>25. CASE PowerOverloadChange
  BY <1>25, OverloadAssumption DEF PowerOverloadChange
<1>26. CASE CheckSelected
  BY <1>26 DEF CheckSelected
<1>27. ASSUME NEW ok \in BOOLEAN, Acknowledge(ok)
      PROVE  PlacesTyped'
  BY <1>27, OverloadAssumption DEF Acknowledge, AcknowledgeOverload, Attempt
<1>28. CASE RecordAckFailure
  BY <1>28, OverloadAssumption DEF RecordAckFailure
<1>29. CASE DeviceRemoved
  BY <1>29 DEF DeviceRemoved
<1>30. CASE StopRequestedElsewhere
  BY <1>30 DEF StopRequestedElsewhere
<1>31. CASE UNCHANGED vars
  BY <1>31 DEF vars, apiVars, flags, params, control, events
<1>. QED
  BY <1>1, <1>2, <1>3, <1>4, <1>5, <1>6, <1>7, <1>8, <1>9, <1>10, <1>11,
     <1>12, <1>13, <1>14, <1>15, <1>16, <1>17, <1>18, <1>19, <1>20, <1>21,
     <1>22, <1>23, <1>24, <1>25, <1>26, <1>27, <1>28, <1>29, <1>30, <1>31
     DEF Next, Proceed, EventCallback, Done

\* A flag is set to a result or a constant.
LEMMA FlagsTypeStep == ASSUME SessionInv, [Next]_vars PROVE FlagsTyped'
<1>. USE DEF SessionInv, TypeOK, FlagsTyped, apiVars, flags, params, control,
             events
<1>1. CASE Connect
  BY <1>1 DEF Connect
<1>2. ASSUME NEW ok \in BOOLEAN, ConnectOpen(ok)
      PROVE  FlagsTyped'
  BY <1>2 DEF ConnectOpen, Open, Attempt, NextCall
<1>3. ASSUME NEW ok \in BOOLEAN, NEW good \in BOOLEAN,
             ConnectVersion(ok, good)
      PROVE  FlagsTyped'
  BY <1>3 DEF ConnectVersion, Query, Attempt, NextCall
<1>4. ASSUME NEW ok \in BOOLEAN, ConnectLock(ok)
      PROVE  FlagsTyped'
  BY <1>4 DEF ConnectLock, Lock, Attempt, NextCall
<1>5. ASSUME NEW ok \in BOOLEAN, NEW good \in BOOLEAN,
             ConnectDevices(ok, good)
      PROVE  FlagsTyped'
  BY <1>5 DEF ConnectDevices, Query, Attempt, NextCall
<1>6. ASSUME NEW ok \in BOOLEAN, ConnectSelect(ok)
      PROVE  FlagsTyped'
  BY <1>6 DEF ConnectSelect, Select, Attempt, NextCall
<1>7. ASSUME NEW ok \in BOOLEAN, ConnectUnlock(ok)
      PROVE  FlagsTyped'
  BY <1>7 DEF ConnectUnlock, Unlock, Attempt, NextCall
<1>8. ASSUME NEW ok \in BOOLEAN,
             NEW received \in {"none", "noChannel", "noDevice", "complete"},
             ConnectParams(ok, received)
      PROVE  FlagsTyped'
  BY <1>8 DEF ConnectParams, Query, Attempt
<1>9. ASSUME NEW biasT \in BOOLEAN, Configure(biasT)
      PROVE  FlagsTyped'
  BY <1>9 DEF Configure
<1>10. CASE Initialise
  BY <1>10 DEF Initialise
<1>11. ASSUME NEW ok \in BOOLEAN, InitialiseCall(ok)
      PROVE  FlagsTyped'
  BY <1>11 DEF InitialiseCall, StartStream, Attempt, NextCall
<1>12. CASE InitialiseReturn
  BY <1>12 DEF InitialiseReturn
<1>13. CASE StopStreaming
  BY <1>13 DEF StopStreaming, Begin
<1>14. CASE Shutdown
  BY <1>14 DEF Shutdown, Begin
<1>15. CASE Destroy
  BY <1>15 DEF Destroy, Begin
<1>16. CASE BiasTNothingToUpdate
  BY <1>16 DEF BiasTNothingToUpdate
<1>17. ASSUME NEW ok \in BOOLEAN, BiasTUpdate(ok)
      PROVE  FlagsTyped'
  BY <1>17 DEF BiasTUpdate, UpdateBiasT, Attempt
<1>18. ASSUME NEW ok \in BOOLEAN, UninitCall(ok)
      PROVE  FlagsTyped'
  BY <1>18 DEF UninitCall, Uninit, Attempt
<1>19. ASSUME NEW ok \in BOOLEAN, ReleaseCall(ok)
      PROVE  FlagsTyped'
  BY <1>19 DEF ReleaseCall, Release, Attempt
<1>20. ASSUME NEW ok \in BOOLEAN, UnlockCall(ok)
      PROVE  FlagsTyped'
  BY <1>20 DEF UnlockCall, Unlock, Attempt
<1>21. ASSUME NEW ok \in BOOLEAN, CloseCall(ok)
      PROVE  FlagsTyped'
  BY <1>21 DEF CloseCall, Close, Attempt
<1>22. CASE Skip
  BY <1>22 DEF Skip
<1>23. CASE Return
  BY <1>23 DEF Return
<1>24. CASE ForgetSession
  BY <1>24 DEF ForgetSession
<1>25. CASE PowerOverloadChange
  BY <1>25 DEF PowerOverloadChange
<1>26. CASE CheckSelected
  BY <1>26 DEF CheckSelected
<1>27. ASSUME NEW ok \in BOOLEAN, Acknowledge(ok)
      PROVE  FlagsTyped'
  BY <1>27 DEF Acknowledge, AcknowledgeOverload, Attempt
<1>28. CASE RecordAckFailure
  BY <1>28 DEF RecordAckFailure
<1>29. CASE DeviceRemoved
  BY <1>29 DEF DeviceRemoved
<1>30. CASE StopRequestedElsewhere
  BY <1>30 DEF StopRequestedElsewhere
<1>31. CASE UNCHANGED vars
  BY <1>31 DEF vars, apiVars, flags, params, control, events
<1>. QED
  BY <1>1, <1>2, <1>3, <1>4, <1>5, <1>6, <1>7, <1>8, <1>9, <1>10, <1>11,
     <1>12, <1>13, <1>14, <1>15, <1>16, <1>17, <1>18, <1>19, <1>20, <1>21,
     <1>22, <1>23, <1>24, <1>25, <1>26, <1>27, <1>28, <1>29, <1>30, <1>31
     DEF Next, Proceed, EventCallback, Done

\* The three parts together.
LEMMA TypeStep == ASSUME SessionInv, [Next]_vars PROVE TypeOK'
BY ServiceTypeStep, PlacesTypeStep, FlagsTypeStep
   DEF TypeOK, PlacesTyped, FlagsTyped

-----------------------------------------------------------------------------
(* The other parts of the invariant.                                       *)

\* The callback, whoever else asks for the end, and ForgetSession touch
\* nothing that these parts speak of.
Apart == EventCallback \/ StopRequestedElsewhere \/ ForgetSession

NoWorse ==
  /\ UNCHANGED <<service, flags, params, control>>
  /\ failed \subseteq failed'

LEMMA EventsApart == ASSUME Apart PROVE NoWorse
<1>. USE DEF NoWorse, apiVars
<1>1. CASE PowerOverloadChange \/ CheckSelected
  BY <1>1 DEF PowerOverloadChange, CheckSelected
<1>2. ASSUME NEW ok \in BOOLEAN, Acknowledge(ok) PROVE NoWorse
  BY <1>2 DEF Acknowledge, AcknowledgeOverload, Attempt
<1>3. CASE RecordAckFailure \/ DeviceRemoved
  BY <1>3 DEF RecordAckFailure, DeviceRemoved
<1>4. CASE StopRequestedElsewhere \/ ForgetSession
  BY <1>4 DEF StopRequestedElsewhere, ForgetSession
<1>. QED BY <1>1, <1>2, <1>3, <1>4 DEF Apart, EventCallback

\* Each operation obtains, or gives back, one thing after the other.
LEMMA ControlStep ==
  ASSUME SessionInv, [Next]_vars
  PROVE  (Place /\ Obtaining /\ GivingBack)'
<1>. USE DEF SessionInv, TypeOK, Place, Obtaining, GivingBack, Over,
             Connecting, Clearing, Ending, apiVars, flags, params, control,
             events
<1>1. CASE Connect
  BY <1>1 DEF Connect
<1>2. ASSUME NEW ok \in BOOLEAN, ConnectOpen(ok)
      PROVE  (Place /\ Obtaining /\ GivingBack)'
  BY <1>2 DEF ConnectOpen, Open, Attempt, NextCall
<1>3. ASSUME NEW ok \in BOOLEAN, NEW good \in BOOLEAN,
             ConnectVersion(ok, good)
      PROVE  (Place /\ Obtaining /\ GivingBack)'
  BY <1>3 DEF ConnectVersion, Query, Attempt, NextCall
<1>4. ASSUME NEW ok \in BOOLEAN, ConnectLock(ok)
      PROVE  (Place /\ Obtaining /\ GivingBack)'
  BY <1>4 DEF ConnectLock, Lock, Attempt, NextCall
<1>5. ASSUME NEW ok \in BOOLEAN, NEW good \in BOOLEAN,
             ConnectDevices(ok, good)
      PROVE  (Place /\ Obtaining /\ GivingBack)'
  BY <1>5 DEF ConnectDevices, Query, Attempt, NextCall
<1>6. ASSUME NEW ok \in BOOLEAN, ConnectSelect(ok)
      PROVE  (Place /\ Obtaining /\ GivingBack)'
  BY <1>6 DEF ConnectSelect, Select, Attempt, NextCall
<1>7. ASSUME NEW ok \in BOOLEAN, ConnectUnlock(ok)
      PROVE  (Place /\ Obtaining /\ GivingBack)'
  BY <1>7 DEF ConnectUnlock, Unlock, Attempt, NextCall
<1>8. ASSUME NEW ok \in BOOLEAN,
             NEW received \in {"none", "noChannel", "noDevice", "complete"},
             ConnectParams(ok, received)
      PROVE  (Place /\ Obtaining /\ GivingBack)'
  BY <1>8 DEF ConnectParams, Query, Attempt
<1>9. ASSUME NEW biasT \in BOOLEAN, Configure(biasT)
      PROVE  (Place /\ Obtaining /\ GivingBack)'
  BY <1>9 DEF Configure
<1>10. CASE Initialise
  BY <1>10 DEF Initialise
<1>11. ASSUME NEW ok \in BOOLEAN, InitialiseCall(ok)
      PROVE  (Place /\ Obtaining /\ GivingBack)'
  BY <1>11 DEF InitialiseCall, StartStream, Attempt, NextCall
<1>12. CASE InitialiseReturn
  BY <1>12 DEF InitialiseReturn
<1>13. CASE StopStreaming
  BY <1>13 DEF StopStreaming, Begin
<1>14. CASE Shutdown
  BY <1>14 DEF Shutdown, Begin
<1>15. CASE Destroy
  BY <1>15 DEF Destroy, Begin
<1>16. CASE BiasTNothingToUpdate
  BY <1>16 DEF BiasTNothingToUpdate
<1>17. ASSUME NEW ok \in BOOLEAN, BiasTUpdate(ok)
      PROVE  (Place /\ Obtaining /\ GivingBack)'
  BY <1>17 DEF BiasTUpdate, UpdateBiasT, Attempt
<1>18. ASSUME NEW ok \in BOOLEAN, UninitCall(ok)
      PROVE  (Place /\ Obtaining /\ GivingBack)'
  BY <1>18 DEF UninitCall, Uninit, Attempt
<1>19. ASSUME NEW ok \in BOOLEAN, ReleaseCall(ok)
      PROVE  (Place /\ Obtaining /\ GivingBack)'
  BY <1>19 DEF ReleaseCall, Release, Attempt
<1>20. ASSUME NEW ok \in BOOLEAN, UnlockCall(ok)
      PROVE  (Place /\ Obtaining /\ GivingBack)'
  BY <1>20 DEF UnlockCall, Unlock, Attempt
<1>21. ASSUME NEW ok \in BOOLEAN, CloseCall(ok)
      PROVE  (Place /\ Obtaining /\ GivingBack)'
  BY <1>21 DEF CloseCall, Close, Attempt
<1>22. CASE Skip
  BY <1>22 DEF Skip
<1>23. CASE Return
  BY <1>23 DEF Return
<1>24. CASE Apart
  BY <1>24, EventsApart DEF NoWorse
<1>25. CASE UNCHANGED vars
  BY <1>25 DEF vars, apiVars, flags, params, control, events
<1>. QED
  BY <1>1, <1>2, <1>3, <1>4, <1>5, <1>6, <1>7, <1>8, <1>9, <1>10, <1>11,
     <1>12, <1>13, <1>14, <1>15, <1>16, <1>17, <1>18, <1>19, <1>20, <1>21,
     <1>22, <1>23, <1>24, <1>25
     DEF Next, Proceed, EventCallback, Done, Apart

\* A call that succeeds is noted, and one that fails counts as a failure.
LEMMA HeldStep == ASSUME SessionInv, [Next]_vars PROVE (Noted /\ Owed)'
<1>. USE DEF SessionInv, TypeOK, ApiTypeOK, Place, Obtaining, GivingBack,
             Over, Connecting, Clearing, Ending, Blemished, Noted, Owed,
             apiVars, flags, params, control, events
<1>1. CASE Connect
  BY <1>1 DEF Connect
<1>2. ASSUME NEW ok \in BOOLEAN, ConnectOpen(ok)
      PROVE  (Noted /\ Owed)'
  BY <1>2 DEF ConnectOpen, Open, Attempt, NextCall
<1>3. ASSUME NEW ok \in BOOLEAN, NEW good \in BOOLEAN,
             ConnectVersion(ok, good)
      PROVE  (Noted /\ Owed)'
  BY <1>3 DEF ConnectVersion, Query, Attempt, NextCall
<1>4. ASSUME NEW ok \in BOOLEAN, ConnectLock(ok)
      PROVE  (Noted /\ Owed)'
  BY <1>4 DEF ConnectLock, Lock, Attempt, NextCall
<1>5. ASSUME NEW ok \in BOOLEAN, NEW good \in BOOLEAN,
             ConnectDevices(ok, good)
      PROVE  (Noted /\ Owed)'
  BY <1>5 DEF ConnectDevices, Query, Attempt, NextCall
<1>6. ASSUME NEW ok \in BOOLEAN, ConnectSelect(ok)
      PROVE  (Noted /\ Owed)'
  BY <1>6 DEF ConnectSelect, Select, Attempt, NextCall
<1>7. ASSUME NEW ok \in BOOLEAN, ConnectUnlock(ok)
      PROVE  (Noted /\ Owed)'
  BY <1>7 DEF ConnectUnlock, Unlock, Attempt, NextCall
<1>8. ASSUME NEW ok \in BOOLEAN,
             NEW received \in {"none", "noChannel", "noDevice", "complete"},
             ConnectParams(ok, received)
      PROVE  (Noted /\ Owed)'
  BY <1>8 DEF ConnectParams, Query, Attempt
<1>9. ASSUME NEW biasT \in BOOLEAN, Configure(biasT)
      PROVE  (Noted /\ Owed)'
  BY <1>9 DEF Configure
<1>10. CASE Initialise
  BY <1>10 DEF Initialise
<1>11. ASSUME NEW ok \in BOOLEAN, InitialiseCall(ok)
      PROVE  (Noted /\ Owed)'
  <2>1. Noted'
    BY <1>11 DEF InitialiseCall, StartStream, Attempt, NextCall
  <2>2. Owed'
    BY <1>11 DEF InitialiseCall, StartStream, Attempt, NextCall
  <2>. QED BY <2>1, <2>2
<1>12. CASE InitialiseReturn
  BY <1>12 DEF InitialiseReturn
<1>13. CASE StopStreaming
  BY <1>13 DEF StopStreaming, Begin
<1>14. CASE Shutdown
  BY <1>14 DEF Shutdown, Begin
<1>15. CASE Destroy
  BY <1>15 DEF Destroy, Begin
<1>16. CASE BiasTNothingToUpdate
  BY <1>16 DEF BiasTNothingToUpdate
<1>17. ASSUME NEW ok \in BOOLEAN, BiasTUpdate(ok)
      PROVE  (Noted /\ Owed)'
  BY <1>17 DEF BiasTUpdate, UpdateBiasT, Attempt
<1>18. ASSUME NEW ok \in BOOLEAN, UninitCall(ok)
      PROVE  (Noted /\ Owed)'
  BY <1>18 DEF UninitCall, Uninit, Attempt
<1>19. ASSUME NEW ok \in BOOLEAN, ReleaseCall(ok)
      PROVE  (Noted /\ Owed)'
  BY <1>19 DEF ReleaseCall, Release, Attempt
<1>20. ASSUME NEW ok \in BOOLEAN, UnlockCall(ok)
      PROVE  (Noted /\ Owed)'
  BY <1>20 DEF UnlockCall, Unlock, Attempt
<1>21. ASSUME NEW ok \in BOOLEAN, CloseCall(ok)
      PROVE  (Noted /\ Owed)'
  BY <1>21 DEF CloseCall, Close, Attempt
<1>22. CASE Skip
  BY <1>22 DEF Skip
<1>23. CASE Return
  BY <1>23 DEF Return
<1>24. CASE Apart
  BY <1>24, EventsApart DEF NoWorse
<1>25. CASE UNCHANGED vars
  BY <1>25 DEF vars, apiVars, flags, params, control, events
<1>. QED
  BY <1>1, <1>2, <1>3, <1>4, <1>5, <1>6, <1>7, <1>8, <1>9, <1>10, <1>11,
     <1>12, <1>13, <1>14, <1>15, <1>16, <1>17, <1>18, <1>19, <1>20, <1>21,
     <1>22, <1>23, <1>24, <1>25
     DEF Next, Proceed, EventCallback, Done, Apart

\* Power is applied by Init, and taken away before Uninit.
LEMMA PowerStep == ASSUME SessionInv, [Next]_vars PROVE Power'
<1>. USE DEF SessionInv, TypeOK, ApiTypeOK, Place, Obtaining, GivingBack,
             Over, Connecting, Clearing, Ending, Blemished, Noted, Power,
             apiVars, flags, params, control, events
<1>1. CASE Connect
  BY <1>1 DEF Connect
<1>2. ASSUME NEW ok \in BOOLEAN, ConnectOpen(ok)
      PROVE  Power'
  BY <1>2 DEF ConnectOpen, Open, Attempt, NextCall
<1>3. ASSUME NEW ok \in BOOLEAN, NEW good \in BOOLEAN,
             ConnectVersion(ok, good)
      PROVE  Power'
  BY <1>3 DEF ConnectVersion, Query, Attempt, NextCall
<1>4. ASSUME NEW ok \in BOOLEAN, ConnectLock(ok)
      PROVE  Power'
  BY <1>4 DEF ConnectLock, Lock, Attempt, NextCall
<1>5. ASSUME NEW ok \in BOOLEAN, NEW good \in BOOLEAN,
             ConnectDevices(ok, good)
      PROVE  Power'
  BY <1>5 DEF ConnectDevices, Query, Attempt, NextCall
<1>6. ASSUME NEW ok \in BOOLEAN, ConnectSelect(ok)
      PROVE  Power'
  BY <1>6 DEF ConnectSelect, Select, Attempt, NextCall
<1>7. ASSUME NEW ok \in BOOLEAN, ConnectUnlock(ok)
      PROVE  Power'
  BY <1>7 DEF ConnectUnlock, Unlock, Attempt, NextCall
<1>8. ASSUME NEW ok \in BOOLEAN,
             NEW received \in {"none", "noChannel", "noDevice", "complete"},
             ConnectParams(ok, received)
      PROVE  Power'
  BY <1>8 DEF ConnectParams, Query, Attempt
<1>9. ASSUME NEW biasT \in BOOLEAN, Configure(biasT)
      PROVE  Power'
  BY <1>9 DEF Configure
<1>10. CASE Initialise
  BY <1>10 DEF Initialise
<1>11. ASSUME NEW ok \in BOOLEAN, InitialiseCall(ok)
      PROVE  Power'
  BY <1>11 DEF InitialiseCall, StartStream, Attempt, NextCall
<1>12. CASE InitialiseReturn
  BY <1>12 DEF InitialiseReturn
<1>13. CASE StopStreaming
  BY <1>13 DEF StopStreaming, Begin
<1>14. CASE Shutdown
  BY <1>14 DEF Shutdown, Begin
<1>15. CASE Destroy
  BY <1>15 DEF Destroy, Begin
<1>16. CASE BiasTNothingToUpdate
  BY <1>16 DEF BiasTNothingToUpdate
<1>17. ASSUME NEW ok \in BOOLEAN, BiasTUpdate(ok)
      PROVE  Power'
  BY <1>17 DEF BiasTUpdate, UpdateBiasT, Attempt
<1>18. ASSUME NEW ok \in BOOLEAN, UninitCall(ok)
      PROVE  Power'
  BY <1>18 DEF UninitCall, Uninit, Attempt
<1>19. ASSUME NEW ok \in BOOLEAN, ReleaseCall(ok)
      PROVE  Power'
  BY <1>19 DEF ReleaseCall, Release, Attempt
<1>20. ASSUME NEW ok \in BOOLEAN, UnlockCall(ok)
      PROVE  Power'
  BY <1>20 DEF UnlockCall, Unlock, Attempt
<1>21. ASSUME NEW ok \in BOOLEAN, CloseCall(ok)
      PROVE  Power'
  BY <1>21 DEF CloseCall, Close, Attempt
<1>22. CASE Skip
  BY <1>22 DEF Skip
<1>23. CASE Return
  BY <1>23 DEF Return
<1>24. CASE Apart
  BY <1>24, EventsApart DEF NoWorse
<1>25. CASE UNCHANGED vars
  BY <1>25 DEF vars, apiVars, flags, params, control, events
<1>. QED
  BY <1>1, <1>2, <1>3, <1>4, <1>5, <1>6, <1>7, <1>8, <1>9, <1>10, <1>11,
     <1>12, <1>13, <1>14, <1>15, <1>16, <1>17, <1>18, <1>19, <1>20, <1>21,
     <1>22, <1>23, <1>24, <1>25
     DEF Next, Proceed, EventCallback, Done, Apart

\* An event is acknowledged, counted as failed, or in the callback.
LEMMA CallbackStep ==
  ASSUME SessionInv, [Next]_vars
  PROVE  (CallbackStreams /\ OverloadsAnswered)'
<1>. USE DEF SessionInv, TypeOK, ApiTypeOK, CallbackStreams,
             OverloadsAnswered, apiVars, flags, params, control, events
<1>1. CASE Connect
  BY <1>1 DEF Connect
<1>2. ASSUME NEW ok \in BOOLEAN, ConnectOpen(ok)
      PROVE  (CallbackStreams /\ OverloadsAnswered)'
  BY <1>2 DEF ConnectOpen, Open, Attempt, NextCall
<1>3. ASSUME NEW ok \in BOOLEAN, NEW good \in BOOLEAN,
             ConnectVersion(ok, good)
      PROVE  (CallbackStreams /\ OverloadsAnswered)'
  BY <1>3 DEF ConnectVersion, Query, Attempt, NextCall
<1>4. ASSUME NEW ok \in BOOLEAN, ConnectLock(ok)
      PROVE  (CallbackStreams /\ OverloadsAnswered)'
  BY <1>4 DEF ConnectLock, Lock, Attempt, NextCall
<1>5. ASSUME NEW ok \in BOOLEAN, NEW good \in BOOLEAN,
             ConnectDevices(ok, good)
      PROVE  (CallbackStreams /\ OverloadsAnswered)'
  BY <1>5 DEF ConnectDevices, Query, Attempt, NextCall
<1>6. ASSUME NEW ok \in BOOLEAN, ConnectSelect(ok)
      PROVE  (CallbackStreams /\ OverloadsAnswered)'
  BY <1>6 DEF ConnectSelect, Select, Attempt, NextCall
<1>7. ASSUME NEW ok \in BOOLEAN, ConnectUnlock(ok)
      PROVE  (CallbackStreams /\ OverloadsAnswered)'
  BY <1>7 DEF ConnectUnlock, Unlock, Attempt, NextCall
<1>8. ASSUME NEW ok \in BOOLEAN,
             NEW received \in {"none", "noChannel", "noDevice", "complete"},
             ConnectParams(ok, received)
      PROVE  (CallbackStreams /\ OverloadsAnswered)'
  BY <1>8 DEF ConnectParams, Query, Attempt
<1>9. ASSUME NEW biasT \in BOOLEAN, Configure(biasT)
      PROVE  (CallbackStreams /\ OverloadsAnswered)'
  BY <1>9 DEF Configure
<1>10. CASE Initialise
  BY <1>10 DEF Initialise
<1>11. ASSUME NEW ok \in BOOLEAN, InitialiseCall(ok)
      PROVE  (CallbackStreams /\ OverloadsAnswered)'
  BY <1>11 DEF InitialiseCall, StartStream, Attempt, NextCall
<1>12. CASE InitialiseReturn
  BY <1>12 DEF InitialiseReturn
<1>13. CASE StopStreaming
  BY <1>13 DEF StopStreaming, Begin
<1>14. CASE Shutdown
  BY <1>14 DEF Shutdown, Begin
<1>15. CASE Destroy
  BY <1>15 DEF Destroy, Begin
<1>16. CASE BiasTNothingToUpdate
  BY <1>16 DEF BiasTNothingToUpdate
<1>17. ASSUME NEW ok \in BOOLEAN, BiasTUpdate(ok)
      PROVE  (CallbackStreams /\ OverloadsAnswered)'
  BY <1>17 DEF BiasTUpdate, UpdateBiasT, Attempt
<1>18. ASSUME NEW ok \in BOOLEAN, UninitCall(ok)
      PROVE  (CallbackStreams /\ OverloadsAnswered)'
  BY <1>18 DEF UninitCall, Uninit, Attempt
<1>19. ASSUME NEW ok \in BOOLEAN, ReleaseCall(ok)
      PROVE  (CallbackStreams /\ OverloadsAnswered)'
  BY <1>19 DEF ReleaseCall, Release, Attempt
<1>20. ASSUME NEW ok \in BOOLEAN, UnlockCall(ok)
      PROVE  (CallbackStreams /\ OverloadsAnswered)'
  BY <1>20 DEF UnlockCall, Unlock, Attempt
<1>21. ASSUME NEW ok \in BOOLEAN, CloseCall(ok)
      PROVE  (CallbackStreams /\ OverloadsAnswered)'
  BY <1>21 DEF CloseCall, Close, Attempt
<1>22. CASE Skip
  BY <1>22 DEF Skip
<1>23. CASE Return
  BY <1>23 DEF Return
<1>24. CASE ForgetSession
  BY <1>24 DEF ForgetSession
<1>25. CASE PowerOverloadChange
  BY <1>25 DEF PowerOverloadChange
<1>26. CASE CheckSelected
  BY <1>26 DEF CheckSelected
<1>27. ASSUME NEW ok \in BOOLEAN, Acknowledge(ok)
      PROVE  (CallbackStreams /\ OverloadsAnswered)'
  BY <1>27 DEF Acknowledge, AcknowledgeOverload, Attempt
<1>28. CASE RecordAckFailure
  BY <1>28 DEF RecordAckFailure
<1>29. CASE DeviceRemoved
  BY <1>29 DEF DeviceRemoved
<1>30. CASE StopRequestedElsewhere
  BY <1>30 DEF StopRequestedElsewhere
<1>31. CASE UNCHANGED vars
  BY <1>31 DEF vars, apiVars, flags, params, control, events
<1>. QED
  BY <1>1, <1>2, <1>3, <1>4, <1>5, <1>6, <1>7, <1>8, <1>9, <1>10, <1>11,
     <1>12, <1>13, <1>14, <1>15, <1>16, <1>17, <1>18, <1>19, <1>20, <1>21,
     <1>22, <1>23, <1>24, <1>25, <1>26, <1>27, <1>28, <1>29, <1>30, <1>31
     DEF Next, Proceed, EventCallback, Done

\* Whatever is asked of the service, the service is in a state to grant.
LEMMA LegalStep == ASSUME SessionInv, [Next]_vars PROVE OnlyLegalCalls'
<1>. USE DEF SessionInv, TypeOK, ApiTypeOK, Place, Obtaining, GivingBack,
             Over, Connecting, Clearing, Ending, Blemished, Noted, Owed,
             CallbackStreams, OnlyLegalCalls, apiVars, flags, params, control,
             events
<1>1. CASE Connect
  BY <1>1 DEF Connect
<1>2. ASSUME NEW ok \in BOOLEAN, ConnectOpen(ok)
      PROVE  OnlyLegalCalls'
  BY <1>2 DEF ConnectOpen, Open, Attempt, NextCall
<1>3. ASSUME NEW ok \in BOOLEAN, NEW good \in BOOLEAN,
             ConnectVersion(ok, good)
      PROVE  OnlyLegalCalls'
  BY <1>3 DEF ConnectVersion, Query, Attempt, NextCall
<1>4. ASSUME NEW ok \in BOOLEAN, ConnectLock(ok)
      PROVE  OnlyLegalCalls'
  BY <1>4 DEF ConnectLock, Lock, Attempt, NextCall
<1>5. ASSUME NEW ok \in BOOLEAN, NEW good \in BOOLEAN,
             ConnectDevices(ok, good)
      PROVE  OnlyLegalCalls'
  BY <1>5 DEF ConnectDevices, Query, Attempt, NextCall
<1>6. ASSUME NEW ok \in BOOLEAN, ConnectSelect(ok)
      PROVE  OnlyLegalCalls'
  BY <1>6 DEF ConnectSelect, Select, Attempt, NextCall
<1>7. ASSUME NEW ok \in BOOLEAN, ConnectUnlock(ok)
      PROVE  OnlyLegalCalls'
  BY <1>7 DEF ConnectUnlock, Unlock, Attempt, NextCall
<1>8. ASSUME NEW ok \in BOOLEAN,
             NEW received \in {"none", "noChannel", "noDevice", "complete"},
             ConnectParams(ok, received)
      PROVE  OnlyLegalCalls'
  BY <1>8 DEF ConnectParams, Query, Attempt
<1>9. ASSUME NEW biasT \in BOOLEAN, Configure(biasT)
      PROVE  OnlyLegalCalls'
  BY <1>9 DEF Configure
<1>10. CASE Initialise
  BY <1>10 DEF Initialise
<1>11. ASSUME NEW ok \in BOOLEAN, InitialiseCall(ok)
      PROVE  OnlyLegalCalls'
  BY <1>11 DEF InitialiseCall, StartStream, Attempt, NextCall
<1>12. CASE InitialiseReturn
  BY <1>12 DEF InitialiseReturn
<1>13. CASE StopStreaming
  BY <1>13 DEF StopStreaming, Begin
<1>14. CASE Shutdown
  BY <1>14 DEF Shutdown, Begin
<1>15. CASE Destroy
  BY <1>15 DEF Destroy, Begin
<1>16. CASE BiasTNothingToUpdate
  BY <1>16 DEF BiasTNothingToUpdate
<1>17. ASSUME NEW ok \in BOOLEAN, BiasTUpdate(ok)
      PROVE  OnlyLegalCalls'
  BY <1>17 DEF BiasTUpdate, UpdateBiasT, Attempt
<1>18. ASSUME NEW ok \in BOOLEAN, UninitCall(ok)
      PROVE  OnlyLegalCalls'
  BY <1>18 DEF UninitCall, Uninit, Attempt
<1>19. ASSUME NEW ok \in BOOLEAN, ReleaseCall(ok)
      PROVE  OnlyLegalCalls'
  BY <1>19 DEF ReleaseCall, Release, Attempt
<1>20. ASSUME NEW ok \in BOOLEAN, UnlockCall(ok)
      PROVE  OnlyLegalCalls'
  BY <1>20 DEF UnlockCall, Unlock, Attempt
<1>21. ASSUME NEW ok \in BOOLEAN, CloseCall(ok)
      PROVE  OnlyLegalCalls'
  BY <1>21 DEF CloseCall, Close, Attempt
<1>22. CASE Skip
  BY <1>22 DEF Skip
<1>23. CASE Return
  BY <1>23 DEF Return
<1>24. CASE ForgetSession
  BY <1>24 DEF ForgetSession
<1>25. CASE PowerOverloadChange
  BY <1>25 DEF PowerOverloadChange
<1>26. CASE CheckSelected
  BY <1>26 DEF CheckSelected
<1>27. ASSUME NEW ok \in BOOLEAN, Acknowledge(ok)
      PROVE  OnlyLegalCalls'
  BY <1>27 DEF Acknowledge, AcknowledgeOverload, Attempt
<1>28. CASE RecordAckFailure
  BY <1>28 DEF RecordAckFailure
<1>29. CASE DeviceRemoved
  BY <1>29 DEF DeviceRemoved
<1>30. CASE StopRequestedElsewhere
  BY <1>30 DEF StopRequestedElsewhere
<1>31. CASE UNCHANGED vars
  BY <1>31 DEF vars, apiVars, flags, params, control, events
<1>. QED
  BY <1>1, <1>2, <1>3, <1>4, <1>5, <1>6, <1>7, <1>8, <1>9, <1>10, <1>11,
     <1>12, <1>13, <1>14, <1>15, <1>16, <1>17, <1>18, <1>19, <1>20, <1>21,
     <1>22, <1>23, <1>24, <1>25, <1>26, <1>27, <1>28, <1>29, <1>30, <1>31
     DEF Next, Proceed, EventCallback, Done

-----------------------------------------------------------------------------
(* The theorems.                                                           *)

\* A new session holds nothing.
LEMMA InitSessionInv == Init => SessionInv
<1>. SUFFICES ASSUME Init PROVE SessionInv
  OBVIOUS
<1>1. TypeOK
  <2>1. ApiTypeOK
    <3>1. service \in [open : BOOLEAN, locked : BOOLEAN, selected : BOOLEAN,
                       streaming : BOOLEAN, power : BOOLEAN]
      BY DEF Init, ApiInit, Idle
    <3>. QED BY <3>1 DEF ApiTypeOK
  <2>2. PlacesTyped
    BY OverloadAssumption DEF Init, PlacesTyped
  <2>3. FlagsTyped
    BY Zenon DEF Init, FlagsTyped
  <2>. QED BY <2>1, <2>2, <2>3 DEF TypeOK, PlacesTyped, FlagsTyped
<1>2. Place /\ Obtaining /\ GivingBack
  BY DEF Init, Place, Obtaining, GivingBack, Over, Connecting, Ending, Clearing
<1>3. Noted /\ Owed /\ Power
  BY DEF Init, ApiInit, Idle, Noted, Owed, Power
<1>4. CallbackStreams /\ OnlyLegalCalls /\ OverloadsAnswered
  BY DEF Init, ApiInit, CallbackStreams, OnlyLegalCalls, OverloadsAnswered
<1>. QED BY <1>1, <1>2, <1>3, <1>4 DEF SessionInv

\* Every step preserves the invariant.
LEMMA NextSessionInv == SessionInv /\ [Next]_vars => SessionInv'
BY TypeStep, ControlStep, HeldStep, PowerStep, CallbackStep, LegalStep
   DEF SessionInv

\* The invariant holds in every state of every behaviour: what the session
\* notes and what the service has granted differ only as far as the place in
\* an operation, or a failed call, explains.
THEOREM SessionInvariance == Spec => []SessionInv
BY InitSessionInv, NextSessionInv, PTL DEF Spec

\* Every variable of the session keeps its type.
THEOREM SessionTypeCorrect == Spec => []TypeOK
BY SessionInvariance, PTL DEF SessionInv

\* Every overload event is acknowledged or counted as a failure, once.
THEOREM EveryOverloadAnswered == Spec => []OverloadsAnswered
BY SessionInvariance, PTL DEF SessionInv

\* The service is asked for nothing its state does not allow, however the
\* client combines the operations, until Uninit or Release has failed.
THEOREM LegalCalls == Spec => []OnlyLegalCalls
BY SessionInvariance, PTL DEF SessionInv

\* What a session that has ended still holds, it was refused to give back.
THEOREM NoLeak == Spec => []NothingLeaked
<1>1. SessionInv => NothingLeaked
  BY DEF SessionInv, GivingBack, Over, Owed, NothingLeaked, Ended
<1>. QED BY <1>1, SessionInvariance, PTL

\* A session that has ended and noted no failure has given back everything.
LEMMA CleanIsIdle == SessionInv => CleanMeansIdle
<1>. SUFFICES ASSUME SessionInv, Ended, clean PROVE service = Idle
  BY DEF CleanMeansIdle
<1>1. /\ ~apiOpen /\ ~apiLocked /\ ~deviceSelected /\ ~deviceInitialised
      /\ ~Blemished /\ at = "client"
  BY DEF SessionInv, Ended, GivingBack, Over, Blemished, Ending, Clearing
<1>2. /\ ~service.open /\ ~service.locked /\ ~service.selected
      /\ ~service.streaming /\ ~service.power
  BY <1>1 DEF SessionInv, Owed, Power
<1>3. service \in [{"open", "locked", "selected", "streaming", "power"}
                     -> BOOLEAN]
  BY DEF SessionInv, TypeOK, ApiTypeOK
<1>. QED BY <1>2, <1>3 DEF Idle

\* If no failure was reported, the service is idle and the port unpowered.
THEOREM CleanEnd == Spec => []CleanMeansIdle
BY CleanIsIdle, SessionInvariance, PTL

\* An event callback finds the stream, the device and the session.
THEOREM CallbackInside == Spec => []CallbackInsideSession
<1>1. SessionInv => CallbackInsideSession
  BY DEF SessionInv, CallbackStreams, Owed, Noted, Obtaining, GivingBack, Over,
         CallbackInsideSession
<1>. QED BY <1>1, SessionInvariance, PTL

\* Only Uninit ends the stream, and disableBiasT() comes before it.
LEMMA PowerOffFirst ==
  ASSUME SessionInv, Next, service.streaming, ~service'.streaming
  PROVE  ~service.power \/ "UpdateBiasT" \in failed
<1>1. SUFFICES at = "uninit"
  BY DEF SessionInv, Power, Clearing
<1>2. ASSUME NEW ok \in BOOLEAN, UninitCall(ok) PROVE at = "uninit"
  BY <1>2 DEF UninitCall
<1>3. ~Connect
  BY DEF SessionInv, TypeOK, ApiTypeOK, Connect, apiVars
<1>4. ASSUME NEW ok \in BOOLEAN, ConnectOpen(ok)
      PROVE  FALSE
  BY <1>4
     DEF SessionInv, TypeOK, ApiTypeOK, ConnectOpen, Open, Attempt, NextCall,
         apiVars
<1>5. ASSUME NEW ok \in BOOLEAN, NEW good \in BOOLEAN, ConnectVersion(ok, good)
      PROVE  FALSE
  BY <1>5
     DEF SessionInv, TypeOK, ApiTypeOK, ConnectVersion, Query, Attempt,
         NextCall, apiVars
<1>6. ASSUME NEW ok \in BOOLEAN, ConnectLock(ok)
      PROVE  FALSE
  BY <1>6
     DEF SessionInv, TypeOK, ApiTypeOK, ConnectLock, Lock, Attempt, NextCall,
         apiVars
<1>7. ASSUME NEW ok \in BOOLEAN, NEW good \in BOOLEAN, ConnectDevices(ok, good)
      PROVE  FALSE
  BY <1>7
     DEF SessionInv, TypeOK, ApiTypeOK, ConnectDevices, Query, Attempt,
         NextCall, apiVars
<1>8. ASSUME NEW ok \in BOOLEAN, ConnectSelect(ok)
      PROVE  FALSE
  BY <1>8
     DEF SessionInv, TypeOK, ApiTypeOK, ConnectSelect, Select, Attempt,
         NextCall, apiVars
<1>9. ASSUME NEW ok \in BOOLEAN, ConnectUnlock(ok)
      PROVE  FALSE
  BY <1>9
     DEF SessionInv, TypeOK, ApiTypeOK, ConnectUnlock, Unlock, Attempt,
         NextCall, apiVars
<1>10. ASSUME NEW ok \in BOOLEAN,
             NEW received \in {"none", "noChannel", "noDevice", "complete"},
             ConnectParams(ok, received)
      PROVE  FALSE
  BY <1>10
     DEF SessionInv, TypeOK, ApiTypeOK, ConnectParams, Query, Attempt, apiVars
<1>11. ASSUME NEW biasT \in BOOLEAN, Configure(biasT)
      PROVE  FALSE
  BY <1>11 DEF SessionInv, TypeOK, ApiTypeOK, Configure, apiVars
<1>12. ~Initialise
  BY DEF SessionInv, TypeOK, ApiTypeOK, Initialise, apiVars
<1>13. ASSUME NEW ok \in BOOLEAN, InitialiseCall(ok)
      PROVE  FALSE
  BY <1>13
     DEF SessionInv, TypeOK, ApiTypeOK, InitialiseCall, StartStream, Attempt,
         NextCall, apiVars
<1>14. ~InitialiseReturn
  BY DEF SessionInv, TypeOK, ApiTypeOK, InitialiseReturn, apiVars
<1>15. ~StopStreaming
  BY DEF SessionInv, TypeOK, ApiTypeOK, StopStreaming, Begin, apiVars
<1>16. ~Shutdown
  BY DEF SessionInv, TypeOK, ApiTypeOK, Shutdown, Begin, apiVars
<1>17. ~Destroy
  BY DEF SessionInv, TypeOK, ApiTypeOK, Destroy, Begin, apiVars
<1>18. ~BiasTNothingToUpdate
  BY DEF SessionInv, TypeOK, ApiTypeOK, BiasTNothingToUpdate, apiVars
<1>19. ASSUME NEW ok \in BOOLEAN, BiasTUpdate(ok)
      PROVE  FALSE
  BY <1>19
     DEF SessionInv, TypeOK, ApiTypeOK, BiasTUpdate, UpdateBiasT, Attempt,
         apiVars
<1>20. ASSUME NEW ok \in BOOLEAN, ReleaseCall(ok)
      PROVE  FALSE
  BY <1>20
     DEF SessionInv, TypeOK, ApiTypeOK, ReleaseCall, Release, Attempt, apiVars
<1>21. ASSUME NEW ok \in BOOLEAN, UnlockCall(ok)
      PROVE  FALSE
  BY <1>21
     DEF SessionInv, TypeOK, ApiTypeOK, UnlockCall, Unlock, Attempt, apiVars
<1>22. ASSUME NEW ok \in BOOLEAN, CloseCall(ok)
      PROVE  FALSE
  BY <1>22
     DEF SessionInv, TypeOK, ApiTypeOK, CloseCall, Close, Attempt, apiVars
<1>23. ~Skip
  BY DEF SessionInv, TypeOK, ApiTypeOK, Skip, apiVars
<1>24. ~Return
  BY DEF SessionInv, TypeOK, ApiTypeOK, Return, apiVars
<1>25. ~Apart
  BY EventsApart DEF NoWorse
<1>. QED
  BY <1>1, <1>2, <1>3, <1>4, <1>5, <1>6, <1>7, <1>8, <1>9, <1>10, <1>11,
     <1>12, <1>13, <1>14, <1>15, <1>16, <1>17, <1>18, <1>19, <1>20, <1>21,
     <1>22, <1>23, <1>24, <1>25
     DEF Next, Proceed, EventCallback, Done, Apart, vars, apiVars

\* The antenna power is off when a stream ends, or could not be switched off.
THEOREM PowerOffBeforeEnd == Spec => BiasTOffFirst
<1>1. SessionInv /\ [Next]_vars =>
        [service.streaming /\ ~service'.streaming =>
           ~service.power \/ "UpdateBiasT" \in failed]_vars
  BY PowerOffFirst
<1>. QED BY <1>1, SessionInvariance, PTL DEF Spec, BiasTOffFirst

-----------------------------------------------------------------------------
(* For the programs that use a session: what a step inside an operation    *)
(* does to what they see of it.                                            *)

\* The operations keep to themselves until they return.
Progress ==
  /\ at # "client" /\ op' = op
  /\ at \in Connecting =>
       at' \in Connecting \union {"client"} /\ life' = life
         /\ deviceInitialised' = deviceInitialised
  /\ at \in {"init", "initialised"} =>
       at' \in {"initialised", "client"} /\ life' = life
  /\ at \in Ending =>
       /\ at' \in Ending \union {"client"}
       /\ deviceInitialised' => deviceInitialised
       /\ at' # "client" => life' = life
       /\ at' = "client" =>
            life' = IF life = "dying" THEN "destroyed"
                    ELSE IF op = "shutdown" THEN "shut" ELSE life

\* Each of their steps leads on to the next call, or returns.
LEMMA OperationsProgress ==
  ASSUME SessionInv, Proceed
  PROVE  Progress
<1>. USE DEF Progress, Connecting, Ending, Clearing
<1>1. CASE InitialiseReturn
  BY <1>1 DEF InitialiseReturn, SessionInv, TypeOK, flags
<1>2. CASE BiasTNothingToUpdate
  BY <1>2 DEF BiasTNothingToUpdate, SessionInv, TypeOK, flags
<1>3. CASE Skip
  BY <1>3 DEF Skip, SessionInv, TypeOK, flags
<1>4. CASE Return
  BY <1>4 DEF Return, SessionInv, TypeOK, flags
<1>5. ASSUME NEW ok \in BOOLEAN, ConnectOpen(ok)
      PROVE  Progress
  BY <1>5 DEF ConnectOpen, Open, Attempt, NextCall, SessionInv, TypeOK, flags
<1>6. ASSUME NEW ok \in BOOLEAN, NEW good \in BOOLEAN, ConnectVersion(ok, good)
      PROVE  Progress
  BY <1>6 DEF ConnectVersion, Query, Attempt, NextCall, SessionInv, TypeOK,
     flags
<1>7. ASSUME NEW ok \in BOOLEAN, ConnectLock(ok)
      PROVE  Progress
  BY <1>7 DEF ConnectLock, Lock, Attempt, NextCall, SessionInv, TypeOK, flags
<1>8. ASSUME NEW ok \in BOOLEAN, NEW good \in BOOLEAN, ConnectDevices(ok, good)
      PROVE  Progress
  BY <1>8 DEF ConnectDevices, Query, Attempt, NextCall, SessionInv, TypeOK,
     flags
<1>9. ASSUME NEW ok \in BOOLEAN, ConnectSelect(ok)
      PROVE  Progress
  BY <1>9 DEF ConnectSelect, Select, Attempt, NextCall, SessionInv, TypeOK,
     flags
<1>10. ASSUME NEW ok \in BOOLEAN, ConnectUnlock(ok)
      PROVE  Progress
  BY <1>10 DEF ConnectUnlock, Unlock, Attempt, NextCall, SessionInv, TypeOK,
     flags
<1>11. ASSUME NEW ok \in BOOLEAN,
             NEW received \in {"none", "noChannel", "noDevice", "complete"},
             ConnectParams(ok, received)
      PROVE  Progress
  BY <1>11 DEF ConnectParams, Query, Attempt, SessionInv, TypeOK, flags
<1>12. ASSUME NEW ok \in BOOLEAN, InitialiseCall(ok)
      PROVE  Progress
  BY <1>12 DEF InitialiseCall, StartStream, Attempt, NextCall, SessionInv,
     TypeOK, flags
<1>13. ASSUME NEW ok \in BOOLEAN, BiasTUpdate(ok)
      PROVE  Progress
  BY <1>13 DEF BiasTUpdate, UpdateBiasT, Attempt, SessionInv, TypeOK, flags
<1>14. ASSUME NEW ok \in BOOLEAN, UninitCall(ok)
      PROVE  Progress
  BY <1>14 DEF UninitCall, Uninit, Attempt, SessionInv, TypeOK, flags
<1>15. ASSUME NEW ok \in BOOLEAN, ReleaseCall(ok)
      PROVE  Progress
  BY <1>15 DEF ReleaseCall, Release, Attempt, SessionInv, TypeOK, flags
<1>16. ASSUME NEW ok \in BOOLEAN, UnlockCall(ok)
      PROVE  Progress
  BY <1>16 DEF UnlockCall, Unlock, Attempt, SessionInv, TypeOK, flags
<1>17. ASSUME NEW ok \in BOOLEAN, CloseCall(ok)
      PROVE  Progress
  BY <1>17 DEF CloseCall, Close, Attempt, SessionInv, TypeOK, flags
<1>. QED BY <1>1, <1>2, <1>3, <1>4, <1>5, <1>6, <1>7, <1>8, <1>9, <1>10,
            <1>11, <1>12, <1>13, <1>14, <1>15, <1>16, <1>17 DEF Proceed

\* They do not touch what events have noted, and forget no failure.
LEMMA EventsStay ==
  ASSUME Proceed
  PROVE  /\ UNCHANGED <<callback, stopRequested, deviceRemoved, overloads,
                         ackFailures, acknowledged>>
         /\ failed \subseteq failed'
<1>. DEFINE Stays == /\ UNCHANGED <<callback, stopRequested, deviceRemoved,
                                    overloads, ackFailures, acknowledged>>
                     /\ failed \subseteq failed'
<1>1. CASE InitialiseReturn
  BY <1>1 DEF InitialiseReturn, apiVars, events
<1>2. CASE BiasTNothingToUpdate
  BY <1>2 DEF BiasTNothingToUpdate, apiVars, events
<1>3. CASE Skip
  BY <1>3 DEF Skip, apiVars, events
<1>4. CASE Return
  BY <1>4 DEF Return, apiVars, events
<1>5. ASSUME NEW ok \in BOOLEAN, ConnectOpen(ok)
      PROVE  Stays
  BY <1>5 DEF ConnectOpen, Open, Attempt, NextCall, apiVars, events
<1>6. ASSUME NEW ok \in BOOLEAN, NEW good \in BOOLEAN, ConnectVersion(ok, good)
      PROVE  Stays
  BY <1>6 DEF ConnectVersion, Query, Attempt, NextCall, apiVars, events
<1>7. ASSUME NEW ok \in BOOLEAN, ConnectLock(ok)
      PROVE  Stays
  BY <1>7 DEF ConnectLock, Lock, Attempt, NextCall, apiVars, events
<1>8. ASSUME NEW ok \in BOOLEAN, NEW good \in BOOLEAN, ConnectDevices(ok, good)
      PROVE  Stays
  BY <1>8 DEF ConnectDevices, Query, Attempt, NextCall, apiVars, events
<1>9. ASSUME NEW ok \in BOOLEAN, ConnectSelect(ok)
      PROVE  Stays
  BY <1>9 DEF ConnectSelect, Select, Attempt, NextCall, apiVars, events
<1>10. ASSUME NEW ok \in BOOLEAN, ConnectUnlock(ok)
      PROVE  Stays
  BY <1>10 DEF ConnectUnlock, Unlock, Attempt, NextCall, apiVars, events
<1>11. ASSUME NEW ok \in BOOLEAN,
             NEW received \in {"none", "noChannel", "noDevice", "complete"},
             ConnectParams(ok, received)
      PROVE  Stays
  BY <1>11 DEF ConnectParams, Query, Attempt, apiVars, events
<1>12. ASSUME NEW ok \in BOOLEAN, InitialiseCall(ok)
      PROVE  Stays
  BY <1>12 DEF InitialiseCall, StartStream, Attempt, NextCall, apiVars, events
<1>13. ASSUME NEW ok \in BOOLEAN, BiasTUpdate(ok)
      PROVE  Stays
  BY <1>13 DEF BiasTUpdate, UpdateBiasT, Attempt, apiVars, events
<1>14. ASSUME NEW ok \in BOOLEAN, UninitCall(ok)
      PROVE  Stays
  BY <1>14 DEF UninitCall, Uninit, Attempt, apiVars, events
<1>15. ASSUME NEW ok \in BOOLEAN, ReleaseCall(ok)
      PROVE  Stays
  BY <1>15 DEF ReleaseCall, Release, Attempt, apiVars, events
<1>16. ASSUME NEW ok \in BOOLEAN, UnlockCall(ok)
      PROVE  Stays
  BY <1>16 DEF UnlockCall, Unlock, Attempt, apiVars, events
<1>17. ASSUME NEW ok \in BOOLEAN, CloseCall(ok)
      PROVE  Stays
  BY <1>17 DEF CloseCall, Close, Attempt, apiVars, events
<1>. QED BY <1>1, <1>2, <1>3, <1>4, <1>5, <1>6, <1>7, <1>8, <1>9, <1>10,
            <1>11, <1>12, <1>13, <1>14, <1>15, <1>16, <1>17 DEF Proceed

\* A failed Uninit makes its operation fail, and so the exit status nonzero.
UninitReported == "Uninit" \in failed => Blemished

\* What was reported, or will be, stays so inside an operation.
LEMMA UninitIsReported ==
  ASSUME SessionInv, UninitReported, Proceed
  PROVE  UninitReported'
<1>. USE DEF UninitReported, Blemished, Ending, Clearing
<1>1. CASE InitialiseReturn
  BY <1>1 DEF InitialiseReturn, SessionInv, TypeOK, apiVars, control
<1>2. CASE BiasTNothingToUpdate
  BY <1>2 DEF BiasTNothingToUpdate, SessionInv, TypeOK, apiVars, control
<1>3. CASE Skip
  BY <1>3 DEF Skip, SessionInv, TypeOK, apiVars, control
<1>4. CASE Return
  BY <1>4 DEF Return, SessionInv, TypeOK, apiVars, control
<1>5. ASSUME NEW ok \in BOOLEAN, ConnectOpen(ok)
      PROVE  UninitReported'
  BY <1>5 DEF ConnectOpen, Open, Attempt, NextCall, SessionInv, TypeOK,
     apiVars, control
<1>6. ASSUME NEW ok \in BOOLEAN, NEW good \in BOOLEAN, ConnectVersion(ok, good)
      PROVE  UninitReported'
  BY <1>6 DEF ConnectVersion, Query, Attempt, NextCall, SessionInv, TypeOK,
     apiVars, control
<1>7. ASSUME NEW ok \in BOOLEAN, ConnectLock(ok)
      PROVE  UninitReported'
  BY <1>7 DEF ConnectLock, Lock, Attempt, NextCall, SessionInv, TypeOK,
     apiVars, control
<1>8. ASSUME NEW ok \in BOOLEAN, NEW good \in BOOLEAN, ConnectDevices(ok, good)
      PROVE  UninitReported'
  BY <1>8 DEF ConnectDevices, Query, Attempt, NextCall, SessionInv, TypeOK,
     apiVars, control
<1>9. ASSUME NEW ok \in BOOLEAN, ConnectSelect(ok)
      PROVE  UninitReported'
  BY <1>9 DEF ConnectSelect, Select, Attempt, NextCall, SessionInv, TypeOK,
     apiVars, control
<1>10. ASSUME NEW ok \in BOOLEAN, ConnectUnlock(ok)
      PROVE  UninitReported'
  BY <1>10 DEF ConnectUnlock, Unlock, Attempt, NextCall, SessionInv, TypeOK,
     apiVars, control
<1>11. ASSUME NEW ok \in BOOLEAN,
             NEW received \in {"none", "noChannel", "noDevice", "complete"},
             ConnectParams(ok, received)
      PROVE  UninitReported'
  BY <1>11 DEF ConnectParams, Query, Attempt, SessionInv, TypeOK, apiVars,
     control
<1>12. ASSUME NEW ok \in BOOLEAN, InitialiseCall(ok)
      PROVE  UninitReported'
  BY <1>12 DEF InitialiseCall, StartStream, Attempt, NextCall, SessionInv,
     TypeOK, apiVars, control
<1>13. ASSUME NEW ok \in BOOLEAN, BiasTUpdate(ok)
      PROVE  UninitReported'
  BY <1>13 DEF BiasTUpdate, UpdateBiasT, Attempt, SessionInv, TypeOK, apiVars,
     control
<1>14. ASSUME NEW ok \in BOOLEAN, UninitCall(ok)
      PROVE  UninitReported'
  BY <1>14 DEF UninitCall, Uninit, Attempt, SessionInv, TypeOK, apiVars,
     control
<1>15. ASSUME NEW ok \in BOOLEAN, ReleaseCall(ok)
      PROVE  UninitReported'
  BY <1>15 DEF ReleaseCall, Release, Attempt, SessionInv, TypeOK, apiVars,
     control
<1>16. ASSUME NEW ok \in BOOLEAN, UnlockCall(ok)
      PROVE  UninitReported'
  BY <1>16 DEF UnlockCall, Unlock, Attempt, SessionInv, TypeOK, apiVars,
     control
<1>17. ASSUME NEW ok \in BOOLEAN, CloseCall(ok)
      PROVE  UninitReported'
  BY <1>17 DEF CloseCall, Close, Attempt, SessionInv, TypeOK, apiVars, control
<1>. QED BY <1>1, <1>2, <1>3, <1>4, <1>5, <1>6, <1>7, <1>8, <1>9, <1>10,
            <1>11, <1>12, <1>13, <1>14, <1>15, <1>16, <1>17 DEF Proceed

\* Nothing is done to a service that nothing is held of.
Nothing ==
  /\ ~apiOpen /\ ~apiLocked /\ ~deviceSelected /\ ~deviceInitialised
  /\ clean /\ (at \in Ending => success)
  /\ at \in Ending \union {"client"}

\* The operation goes through its conditions and returns.
LEMMA NothingHappens ==
  ASSUME SessionInv, Nothing, Proceed
  PROVE  Nothing' /\ service' = service
<1>. USE DEF Nothing, Ending, Clearing
<1>1. CASE InitialiseReturn
  BY <1>1 DEF InitialiseReturn, SessionInv, TypeOK, apiVars, control, flags
<1>2. CASE BiasTNothingToUpdate
  BY <1>2 DEF BiasTNothingToUpdate, SessionInv, TypeOK, apiVars, control,
     flags
<1>3. CASE Skip
  BY <1>3 DEF Skip, SessionInv, TypeOK, apiVars, control, flags
<1>4. CASE Return
  BY <1>4 DEF Return, SessionInv, TypeOK, apiVars, control, flags
<1>5. ASSUME NEW ok \in BOOLEAN, ConnectOpen(ok)
      PROVE  Nothing' /\ service' = service
  BY <1>5 DEF ConnectOpen, Open, Attempt, NextCall, SessionInv, TypeOK,
     apiVars, control, flags
<1>6. ASSUME NEW ok \in BOOLEAN, NEW good \in BOOLEAN, ConnectVersion(ok, good)
      PROVE  Nothing' /\ service' = service
  BY <1>6 DEF ConnectVersion, Query, Attempt, NextCall, SessionInv, TypeOK,
     apiVars, control, flags
<1>7. ASSUME NEW ok \in BOOLEAN, ConnectLock(ok)
      PROVE  Nothing' /\ service' = service
  BY <1>7 DEF ConnectLock, Lock, Attempt, NextCall, SessionInv, TypeOK,
     apiVars, control, flags
<1>8. ASSUME NEW ok \in BOOLEAN, NEW good \in BOOLEAN, ConnectDevices(ok, good)
      PROVE  Nothing' /\ service' = service
  BY <1>8 DEF ConnectDevices, Query, Attempt, NextCall, SessionInv, TypeOK,
     apiVars, control, flags
<1>9. ASSUME NEW ok \in BOOLEAN, ConnectSelect(ok)
      PROVE  Nothing' /\ service' = service
  BY <1>9 DEF ConnectSelect, Select, Attempt, NextCall, SessionInv, TypeOK,
     apiVars, control, flags
<1>10. ASSUME NEW ok \in BOOLEAN, ConnectUnlock(ok)
      PROVE  Nothing' /\ service' = service
  BY <1>10 DEF ConnectUnlock, Unlock, Attempt, NextCall, SessionInv, TypeOK,
     apiVars, control, flags
<1>11. ASSUME NEW ok \in BOOLEAN,
             NEW received \in {"none", "noChannel", "noDevice", "complete"},
             ConnectParams(ok, received)
      PROVE  Nothing' /\ service' = service
  BY <1>11 DEF ConnectParams, Query, Attempt, SessionInv, TypeOK, apiVars,
     control, flags
<1>12. ASSUME NEW ok \in BOOLEAN, InitialiseCall(ok)
      PROVE  Nothing' /\ service' = service
  BY <1>12 DEF InitialiseCall, StartStream, Attempt, NextCall, SessionInv,
     TypeOK, apiVars, control, flags
<1>13. ASSUME NEW ok \in BOOLEAN, BiasTUpdate(ok)
      PROVE  Nothing' /\ service' = service
  BY <1>13 DEF BiasTUpdate, UpdateBiasT, Attempt, SessionInv, TypeOK, apiVars,
     control, flags
<1>14. ASSUME NEW ok \in BOOLEAN, UninitCall(ok)
      PROVE  Nothing' /\ service' = service
  BY <1>14 DEF UninitCall, Uninit, Attempt, SessionInv, TypeOK, apiVars,
     control, flags
<1>15. ASSUME NEW ok \in BOOLEAN, ReleaseCall(ok)
      PROVE  Nothing' /\ service' = service
  BY <1>15 DEF ReleaseCall, Release, Attempt, SessionInv, TypeOK, apiVars,
     control, flags
<1>16. ASSUME NEW ok \in BOOLEAN, UnlockCall(ok)
      PROVE  Nothing' /\ service' = service
  BY <1>16 DEF UnlockCall, Unlock, Attempt, SessionInv, TypeOK, apiVars,
     control, flags
<1>17. ASSUME NEW ok \in BOOLEAN, CloseCall(ok)
      PROVE  Nothing' /\ service' = service
  BY <1>17 DEF CloseCall, Close, Attempt, SessionInv, TypeOK, apiVars,
     control, flags
<1>. QED BY <1>1, <1>2, <1>3, <1>4, <1>5, <1>6, <1>7, <1>8, <1>9, <1>10,
            <1>11, <1>12, <1>13, <1>14, <1>15, <1>16, <1>17 DEF Proceed
=============================================================================
