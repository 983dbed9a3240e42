CONSTANTS
  c1 = c1
  m1 = m1
  v1 = v1
  hello = hello
  refund = refund
  remote = remote
  refundWord = refundWord
  anydeskWord = anydeskWord
  Idle = Idle
  Orphan = Orphan
  Chat = {}
  Message = {m1}
  Call = {v1}
  Segment = {hello, refund, remote}
  Keyword = {refundWord, anydeskWord}
  Strength <- Strengths
  Says <- SaysThree
  Mention = {1, 2, 3, 4, 5, 6, 7, 8}
  Mentions <- MentionsThree
  Risky = {2}
  Window = 1
  Reports = {0, 4}
  ModelConf = {10000}
  NoMatchConf = {100}
  GraphRisk = {100}
  Thread = {t1}
  MaxSegments <- OneAndTwo
SPECIFICATION Spec
\* A call may end.
CHECK_DEADLOCK FALSE
INVARIANT CallIsHeard
