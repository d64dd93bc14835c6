SPECIFICATION Spec
CONSTANTS
  MAX_CIRCLE_SOCKETS = 2
  MaxConns = 3
  MaxBytes = 2
  RS232_MAX_FDS = 2
  MaxLines = 3
  None = None
INVARIANTS
  CarrierIsReal
CHECK_DEADLOCK FALSE
