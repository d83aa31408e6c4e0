\* Smoke and verify calls one after the other, on two ports on which other
\* processes may listen, with apps that listen, move, exit or ignore signals.
CONSTANTS
  Ports = {p1, p2}
  MaxAttempts = 2
SPECIFICATION WebSpec
CHECK_DEADLOCK FALSE
INVARIANTS
  OrphansNeedExit
PROPERTIES
  CallReturns
