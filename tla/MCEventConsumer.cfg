CONSTANTS
  audit = audit
  unnamed = unnamed
  notobject = notobject
  badjson = badjson
  w1 = w1
  w2 = w2
  Event = {audit, unnamed, notobject, badjson}
  Kind <- OneOfEach
  Worker = {w1, w2}
  None = None
  MaxLen = 3
  MaxCopies = 2
  MaxFaults = 2
SPECIFICATION Spec
\* The consumer waits for messages once the bounded publishers have sent theirs.
CHECK_DEADLOCK FALSE
INVARIANT TypeOK
INVARIANT CommittedWasSettled
INVARIANT ProcessedOnce
INVARIANT SkipsHaveACause
 
PROPERTY CommitsAdvance
PROPERTY OwnedPartitionDrains
