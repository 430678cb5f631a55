\* Five arguments: two options with a value, and a third option.
CONSTANT MaxArguments = 5
SPECIFICATION Spec
INVARIANTS
  OptionsTypeOK
  AcceptedAsWritten
