SPECIFICATION Spec
CONSTANTS
  Callers = {k1, k2, k3}
  MAX_CPU = 2
  MAX_VALUES = 5
PROPERTY SettledStaysSettled
CHECK_DEADLOCK FALSE
