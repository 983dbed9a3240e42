\* Two requests, both with a user, and nothing changed behind the log's back.
CONSTANTS
  r1 = r1
  r2 = r2
  Request = {r1, r2}
  Anonymous = {}
  Genesis = Genesis
  MaxTamper = 0
SPECIFICATION Spec
CHECK_DEADLOCK FALSE
INVARIANT RecomputableWhenSerial
