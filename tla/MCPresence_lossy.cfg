SPECIFICATION PresenceSpec
CONSTANTS
  Age = 40
  Expires = 40
  Stamp = 12
  Round = 2
  Busy = 1
  Lag = 1
  Late = 1
  MaxLost = 1
  Horizon = 54
INVARIANTS ForgottenInTime
PROPERTIES NeverForgotten
