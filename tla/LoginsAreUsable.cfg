CONSTANTS
  SignUp = {u1}
  SignIn = {l1}
  Refresh = {q1}
  Scim = {c1}
  NoAccount = NoAccount
  NoToken = NoToken
  MaxVersion = 2
SPECIFICATION AccountSpec
CHECK_DEADLOCK FALSE
INVARIANT LoginsAreUsable
