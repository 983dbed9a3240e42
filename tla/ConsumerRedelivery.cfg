\* One worker, an event that crashes the handler and one that does not.
CONSTANTS
  audit = audit
  unnamed = unnamed
  notobject = notobject
  badjson = badjson
  w1 = w1
  Event = {audit, notobject}
  Kind <- OneOfEach
  Worker = {w1}
  None = None
  MaxLen = 2
  MaxCopies = 1
  MaxFaults = 0
SPECIFICATION Spec
CHECK_DEADLOCK FALSE
INVARIANT CrashedIsRedelivered
