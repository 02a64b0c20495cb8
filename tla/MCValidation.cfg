SPECIFICATION Spec
CONSTANTS
  Null = Null
  Mine = Mine
INVARIANTS
  Conforms
CHECK_DEADLOCK FALSE
