CONSTANTS
  Subscription = {1, 2, 3}
  Subscribed = {1, 2, 3}
  Dispatch = {d1}
  HookMaxFlips = 2
  sa = sa
  sb = sb
  p1 = p1
  p2 = p2
  p3 = p3
  p4 = p4
  Suspect = {sa, sb}
  Report = {p1, p2, p3, p4}
  Reported <- MCReported
  Blocklist = {sb}
  NoRow = NoRow
  MaxDecays = 2
  BankRequest = {b1, b2}
  BankCode = {1, 2}
  Share = {s1, s2, s3}
  NoBank = NoBank
  SignUp = {u1}
  SignIn = {l1}
  Refresh = {q1, q2}
  Scim = {c1}
  NoAccount = NoAccount
  NoToken = NoToken
  MaxVersion = 2
  CaseRequest = {1, 2, 3}
  TotalSteps = 3
  NoCase = NoCase
  NoReference = NoReference
  MaxCaseRestarts = 2
  Freeze = {f1}
  Warning = {w1}
  CoolOff = {k1}
  Signal = {g1}
  Reading = {1, 120}
  Provision = {1, 2, 3}
  Slug <- MCSlug
  Offboard = {o1}
  Evacuation = {e1}
  Target <- MCTarget
  Region = {"home", "east", "north"}
  Home = "home"
  CellUrl = {"home", "east"}
  NoTenant = NoTenant
  MaxTenantWrites = 1
  Promotion = {1, 2}
  Candidate <- MCCandidate
  RunsIn <- MCRunsIn
  Process = {"api", "worker"}
  DriftRun = {1, 2, 3}
  MinSamples = 2
  MaxSamples = 2
  MaxWeeks = 2
  Direct <- MCDirect
  Banks = {0, 1, 5}
  Risk = {0, 5, 10}
  Peer = {"east", "north"}
  PeerScore = {0, 40, 100}
  Routing = TRUE
  MaxDepth = 2
  Submission = {m1}
  ClassifierConf = {0, 5500, 10000}
  Mentioned = {0, 2, 9}
  PriorReports = {0, 5}
  NoAnswer = NoAnswer
  Stream = {st1, st2}
  Every = 3
  MaxSound = 7
SPECIFICATION ServicesSpec
CHECK_DEADLOCK FALSE
INVARIANT ServicesTypeOK
 
INVARIANT ReputationIsBacked
INVARIANT SharesCountThemselves
PROPERTY SessionsAreKept
INVARIANT CaseStaysWhole
 
 
 
 
 
