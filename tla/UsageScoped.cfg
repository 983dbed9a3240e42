\* Two scans of one tenant-scoped subscription within one month.
CONSTANTS
  c1 = c1
  c2 = c2
  s2 = s2
  Call = {c1, c2}
  Sub = {s2}
  SubOf <- BothScoped
  EndpointOf <- Scans
  Limit <- OneScan
  Scoped = {s2}
  Retention = 13
  MaxMonth = 1
  None = None
  c3 = c3
  c4 = c4
  s1 = s1
SPECIFICATION Spec
INVARIANT AdmittedCallsLeaveAnEvent
