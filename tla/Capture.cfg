\* Two blocks: one recorded, one that meets a failure; one overload event;
\* every pair of API functions that fail (DeviceSession.cfg has them all).
CONSTANTS
  MaxOverloads = 1
  MaxDeliveries = 2
  MaxFailures = 2
SPECIFICATION CaptureSpec
INVARIANTS
  CaptureTypeOK
  ExitTellsTheTruth
  InterruptionReported
  CallbackFindsItsObjects
  StopFlagOutlivesWriter
  LossIsTold
PROPERTY StatisticsFinal
