\* Two samples, equal or not, and one overload event; every pair of API
\* functions that fail.
CONSTANTS
  MaxOverloads = 1
  SampleValues = {2, 5}
  MaxCallbacks = 2
  MaxFailures = 2
SPECIFICATION ProbeSpec
INVARIANTS
  ProbeTypeOK
  ProbeTellsTheTruth
  ObjectsOutliveStream
