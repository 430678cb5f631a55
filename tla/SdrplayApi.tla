----------------------------- MODULE SdrplayApi -----------------------------
(***************************************************************************)
(* The SDRplay API service, as far as DeviceSession relies on it.  The     *)
(* service is not part of the repository: what is stated here is read off  *)
(* the order in which src/src/rsp1b_device.cpp makes its calls and the     *)
(* results it checks.  Every call may fail; one that fails has no effect.  *)
(***************************************************************************)

VARIABLES
  service,   \* what the service has granted, and whether the antenna port
             \* carries DC power
  failed,    \* history: the calls that ever failed
  misused    \* history: the calls ever made while the service did not allow it

apiVars == <<service, failed, misused>>

Idle == [open |-> FALSE, locked |-> FALSE, selected |-> FALSE,
         streaming |-> FALSE, power |-> FALSE]

ApiInit == service = Idle /\ failed = {} /\ misused = {}

ApiTypeOK ==
  service \in [{"open", "locked", "selected", "streaming", "power"} -> BOOLEAN]

Attempt(call, allowed, ok, effect) ==
  /\ misused' = IF allowed THEN misused ELSE misused \union {call}
  /\ IF ok THEN service' = effect /\ UNCHANGED failed
           ELSE failed' = failed \union {call} /\ UNCHANGED service

Open(ok) ==
  Attempt("Open", ~service.open, ok, [service EXCEPT !.open = TRUE])

\* ApiVersion and GetDevices; GetDeviceParams needs a selected device.
Query(call, ok) ==
  Attempt(call, service.open /\ (call = "GetDeviceParams" => service.selected),
          ok, service)

Lock(ok) ==
  Attempt("Lock", service.open /\ ~service.locked, ok,
          [service EXCEPT !.locked = TRUE])

Unlock(ok) ==
  Attempt("Unlock", service.locked, ok, [service EXCEPT !.locked = FALSE])

\* A device is selected while the API is locked against other applications.
Select(ok) ==
  Attempt("Select", service.locked /\ ~service.selected, ok,
          [service EXCEPT !.selected = TRUE])

\* Init applies the parameters, Bias-T among them.
StartStream(ok, biasT) ==
  Attempt("Init", service.selected /\ ~service.streaming, ok,
          [service EXCEPT !.streaming = TRUE, !.power = biasT])

UpdateBiasT(ok, biasT) ==
  Attempt("UpdateBiasT", service.selected /\ service.streaming, ok,
          [service EXCEPT !.power = biasT])

AcknowledgeOverload(ok) ==
  Attempt("OverloadMsgAck", service.selected /\ service.streaming, ok, service)

Uninit(ok) ==
  Attempt("Uninit", service.selected /\ service.streaming, ok,
          [service EXCEPT !.streaming = FALSE])

Release(ok) ==
  Attempt("Release", service.selected /\ ~service.streaming, ok,
          [service EXCEPT !.selected = FALSE])

Close(ok) ==
  Attempt("Close", service.open /\ ~service.selected, ok,
          [service EXCEPT !.open = FALSE])
=============================================================================
