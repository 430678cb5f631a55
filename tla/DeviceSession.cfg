\* Two overload events: one answered, one that meets the end of the session.
CONSTANT MaxOverloads = 2
SPECIFICATION Spec
INVARIANTS
  TypeOK
  NothingLeaked
  CleanMeansIdle
  OnlyLegalCalls
  CallbackInsideSession
  OverloadsAnswered
PROPERTY BiasTOffFirst
