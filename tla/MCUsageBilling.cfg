\* Retention is 0 months instead of 13, so that the purge meets events within MaxMonth.
CONSTANTS
  c1 = c1
  c2 = c2
  c3 = c3
  c4 = c4
  s1 = s1
  s2 = s2
  Call = {c1, c2, c3, c4}
  Sub = {s1, s2}
  SubOf <- TwoEach
  EndpointOf <- OneWebhook
  Limit <- OneScan
  Scoped = {s2}
  Retention = 0
  MaxMonth = 2
  None = None
SPECIFICATION Spec
SYMMETRY Symmetry
INVARIANT TypeOK
INVARIANT LedgerIsBacked
INVARIANT MeteringIsBacked
PROPERTY RefusedOnlyAtLimit
 
