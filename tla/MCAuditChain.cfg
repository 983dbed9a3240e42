\* Three requests with a user and one without; one row changed or removed.
CONSTANTS
  r1 = r1
  r2 = r2
  r3 = r3
  r4 = r4
  Request = {r1, r2, r3, r4}
  Anonymous = {r4}
  Genesis = Genesis
  MaxTamper = 1
SPECIFICATION Spec
SYMMETRY Symmetry
\* Every request writes once, so the system stops when all have.
CHECK_DEADLOCK FALSE
INVARIANT TypeOK
INVARIANT LinksPointBack
INVARIANT AlarmsHaveACause
 
INVARIANT WindowReportsItsFirstEntry
INVARIANT SlaAgreesWithValidChain
INVARIANT BreaksStayBroken
PROPERTY BrokenStaysBroken
