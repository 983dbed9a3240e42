------------------------------ MODULE Accounts ------------------------------
(***************************************************************************)
(* One account and its sessions: registration and password sign-in         *)
(* (backend/app/api/v1/auth.py), SAML and OIDC sign-in with provisioning   *)
(* (services/auth/), SCIM provisioning (api/v1/scim.py), refresh tokens    *)
(* and the check every authenticated request makes (app/auth.py).          *)
(*                                                                         *)
(* A token pair is named by the request that was answered with it.         *)
(***************************************************************************)
EXTENDS Integers

CONSTANTS
  SignUp,     \* requests of POST /auth/register and of SCIM's POST /Users
  SignIn,     \* password, SAML and OIDC sign-ins
  Refresh,    \* requests of POST /auth/refresh
  Scim,       \* requests of SCIM's PUT and PATCH /Users/{id}
  NoAccount,  \* the account does not exist, or was not read
  NoToken,    \* no token was presented
  MaxVersion  \* bound: token versions

Token == SignIn \union Refresh
Account == [active : BOOLEAN, version : Nat \ {0}]
ASSUME NoAccountAssumption == NoAccount \notin Account
ASSUME NoTokenAssumption == NoToken \notin Token
ASSUME MaxVersionAssumption == MaxVersion \in Nat
ASSUME RequestAssumption == SignIn \intersect Refresh = {}

VARIABLES
  account,    \* its row of users, or NoAccount
  signUpPc,   \* sign-ups: "new", "absent", "done", "refused" or "failed"
  tokenPc,    \* where each request for a token pair stands
  tokenRow,   \* the pair's refresh_tokens row: "none", "open" or "rotated"
  revokedRows,\* the pairs whose row is_revoked
  family,     \* the sign-in each pair descends from
  holds,      \* the pair whose refresh token each refresh presents
  version,    \* the token version each pair's access token was made for
  signedOut,  \* the pairs whose access token is in revoked_sessions
  scimRead    \* the account as each SCIM request has read it

rowVars == <<tokenRow, revokedRows>>
pairVars == <<family, holds, version>>
accountVars == <<account, signUpPc, tokenPc, rowVars, pairVars, signedOut, scimRead>>

Issued == {t \in Token : tokenPc[t] = "done"}
Moves(t, from, to) == tokenPc[t] = from /\ tokenPc' = [tokenPc EXCEPT ![t] = to]
Answered(t, code) == tokenPc' = [tokenPc EXCEPT ![t] = code]

-----------------------------------------------------------------------------
(* The account                                                              *)

LookUpEmail(u) ==
  /\ signUpPc[u] = "new"
  /\ signUpPc' = [signUpPc EXCEPT ![u] = IF account = NoAccount THEN "absent" ELSE "refused"]
  /\ UNCHANGED <<account, tokenPc, rowVars, pairVars, signedOut, scimRead>>

\* email is unique: the second of two inserts fails.
Insert(u, active) ==
  /\ signUpPc[u] = "absent"
  /\ IF account = NoAccount
     THEN /\ account' = [active |-> active, version |-> 1]
          /\ signUpPc' = [signUpPc EXCEPT ![u] = "done"]
     ELSE signUpPc' = [signUpPc EXCEPT ![u] = "failed"] /\ UNCHANGED account
  /\ UNCHANGED <<tokenPc, rowVars, pairVars, signedOut, scimRead>>

\* /auth/register.
InsertUser(u) == Insert(u, TRUE)

\* SCIM may create the user inactive.
InsertScimUser(u) == \E active \in BOOLEAN : Insert(u, active)

ReadScimUser(c) ==
  /\ account # NoAccount /\ scimRead[c] = NoAccount
  /\ scimRead' = [scimRead EXCEPT ![c] = account]
  /\ UNCHANGED <<account, signUpPc, tokenPc, rowVars, pairVars, signedOut>>

\* The ORM writes is_active only when it differs from what was read.
ActiveWritten(c, active) ==
  IF active = scimRead[c].active THEN account.active ELSE active

\* A deactivation revokes the refresh tokens and moves the token version on.
PatchUser(c) ==
  /\ scimRead[c] # NoAccount
  /\ \E active \in BOOLEAN :
       /\ active \/ scimRead[c].version < MaxVersion
       /\ account' = [active |-> ActiveWritten(c, active),
                      version |-> IF active THEN account.version ELSE scimRead[c].version + 1]
       /\ revokedRows' = IF active THEN revokedRows
                         ELSE {t \in Token : tokenRow[t] # "none"}
  /\ scimRead' = [scimRead EXCEPT ![c] = NoAccount]
  /\ UNCHANGED <<signUpPc, tokenPc, tokenRow, pairVars, signedOut>>

\* PUT leaves tokens and version as they are.
PutUser(c) ==
  /\ scimRead[c] # NoAccount
  /\ \E active \in BOOLEAN : account' = [account EXCEPT !.active = ActiveWritten(c, active)]
  /\ scimRead' = [scimRead EXCEPT ![c] = NoAccount]
  /\ UNCHANGED <<signUpPc, tokenPc, rowVars, pairVars, signedOut>>

-----------------------------------------------------------------------------
(* Sign-in                                                                  *)

\* The pair's access token names the version the account was read with.
Issue(r) ==
  /\ version' = [version EXCEPT ![r] = account.version]
  /\ family' = [family EXCEPT ![r] = r]
  /\ UNCHANGED holds

MayEnter == account # NoAccount /\ account.active

Login(r) ==
  /\ tokenPc[r] = "new"
  /\ IF MayEnter THEN Issue(r) /\ Answered(r, "checked")
     ELSE Answered(r, "refused") /\ UNCHANGED pairVars
  /\ UNCHANGED <<account, signUpPc, rowVars, signedOut, scimRead>>

CommitLogin(r) ==
  /\ r \in SignIn /\ Moves(r, "checked", "done")
  /\ tokenRow' = [tokenRow EXCEPT ![r] = "open"]
  /\ UNCHANGED <<account, signUpPc, revokedRows, pairVars, signedOut, scimRead>>

\* A wrong password, an unknown tenant, no SSO set up, a SAML response that
\* does not validate.
SignInRefused(r) ==
  /\ Moves(r, "new", "refused")
  /\ UNCHANGED <<account, signUpPc, rowVars, pairVars, signedOut, scimRead>>

\* A valid assertion at /saml/acs.
SamlAcs(r) ==
  /\ Moves(r, "new", "asserted")
  /\ UNCHANGED <<account, signUpPc, rowVars, pairVars, signedOut, scimRead>>

\* /oidc/login stores the state that the callback pops.
OidcLogin(r) ==
  /\ Moves(r, "new", "redirected")
  /\ UNCHANGED <<account, signUpPc, rowVars, pairVars, signedOut, scimRead>>

\* The callback pops its state, which no other callback finds again.
OidcCallback(r) ==
  /\ Moves(r, "redirected", "exchanging") \/ Moves(r, "redirected", "refused")
  /\ UNCHANGED <<account, signUpPc, rowVars, pairVars, signedOut, scimRead>>

\* The code is exchanged, the keys are fetched and the ID token is validated and
\* names an e-mail address; any of these may fail, and the state is gone.
OidcExchange(r) ==
  /\ Moves(r, "exchanging", "asserted") \/ Moves(r, "exchanging", "refused")
  /\ UNCHANGED <<account, signUpPc, rowVars, pairVars, signedOut, scimRead>>

\* jit_provision links an account that exists; SSO pairs have no row in
\* refresh_tokens.
JitLink(r) ==
  /\ tokenPc[r] = "asserted"
  /\ IF account = NoAccount THEN Answered(r, "provisioning") /\ UNCHANGED pairVars
     ELSE IF account.active THEN Issue(r) /\ Answered(r, "done")
     ELSE Answered(r, "refused") /\ UNCHANGED pairVars
  /\ UNCHANGED <<account, signUpPc, rowVars, signedOut, scimRead>>

JitInsert(r) ==
  /\ tokenPc[r] = "provisioning"
  /\ IF account = NoAccount
     THEN /\ account' = [active |-> TRUE, version |-> 1]
          /\ version' = [version EXCEPT ![r] = 1]
          /\ family' = [family EXCEPT ![r] = r]
          /\ Answered(r, "done")
          /\ UNCHANGED holds
     ELSE Answered(r, "failed") /\ UNCHANGED <<account, pairVars>>
  /\ UNCHANGED <<signUpPc, rowVars, signedOut, scimRead>>

-----------------------------------------------------------------------------
(* Refresh                                                                  *)

\* Mutant: a rotated token is exchanged like any other.
PresentUnchecked(q, t) ==
  /\ t \in Issued /\ Moves(q, "new", IF tokenRow[t] = "none" THEN "untracked" ELSE "tracked")
  /\ holds' = [holds EXCEPT ![q] = t]
  /\ UNCHANGED <<account, signUpPc, rowVars, family, version, signedOut, scimRead>>

\* The row of the token is read; a token without one is let through.
PresentToken(q, t) ==
  /\ t \in Issued /\ tokenRow[t] # "rotated"
  /\ Moves(q, "new", IF tokenRow[t] = "none" THEN "untracked" ELSE "tracked")
  /\ holds' = [holds EXCEPT ![q] = t]
  /\ UNCHANGED <<account, signUpPc, rowVars, family, version, signedOut, scimRead>>

\* A rotated token revokes its family.
ReuseDetected(q, t) ==
  /\ t \in Issued /\ tokenRow[t] = "rotated"
  /\ Moves(q, "new", "refused")
  /\ revokedRows' = revokedRows \union
       {s \in Token : tokenRow[s] # "none" /\ family[s] = family[t]}
  /\ UNCHANGED <<account, signUpPc, tokenRow, pairVars, signedOut, scimRead>>

\* The account is read again; an inactive one rolls the exchange back.
CheckUser(q) ==
  /\ tokenPc[q] \in {"tracked", "untracked"}
  /\ IF MayEnter
     THEN /\ version' = [version EXCEPT ![q] = account.version]
          /\ Answered(q, IF tokenPc[q] = "tracked" THEN "rotating" ELSE "adopting")
     ELSE Answered(q, "refused") /\ UNCHANGED version
  /\ UNCHANGED <<account, signUpPc, rowVars, family, holds, signedOut, scimRead>>

\* Old row and successor are committed together.
RotateToken(q) ==
  /\ Moves(q, "rotating", "done")
  /\ tokenRow' = [tokenRow EXCEPT ![holds[q]] = "rotated", ![q] = "open"]
  /\ family' = [family EXCEPT ![q] = family[holds[q]]]
  /\ UNCHANGED <<account, signUpPc, revokedRows, holds, version, signedOut, scimRead>>

\* token_jti is unique: of two first exchanges the second fails.
AdoptToken(q) ==
  /\ tokenPc[q] = "adopting"
  /\ IF tokenRow[holds[q]] = "none"
     THEN /\ tokenRow' = [tokenRow EXCEPT ![holds[q]] = "rotated", ![q] = "open"]
          /\ family' = [family EXCEPT ![q] = family[holds[q]]]
          /\ Answered(q, "done")
     ELSE Answered(q, "failed") /\ UNCHANGED <<tokenRow, family>>
  /\ UNCHANGED <<account, signUpPc, revokedRows, holds, version, signedOut, scimRead>>

\* /auth/logout; without a refresh cookie only the access token is revoked.
Logout(t) ==
  /\ t \in Issued \ signedOut
  /\ signedOut' = signedOut \union {t}
  /\ revokedRows' \in {revokedRows, {s \in Token : tokenRow[s] # "none"}}
  /\ UNCHANGED <<account, signUpPc, tokenPc, tokenRow, pairVars, scimRead>>

-----------------------------------------------------------------------------
(* get_current_user                                                         *)

\* create_access_token puts the version under "ver"; get_current_user looks for
\* "token_version" and takes 1 when there is none.
ClaimedVersion(t) == 1

Authenticates(t) ==
  /\ t \in Issued \ signedOut
  /\ MayEnter /\ ClaimedVersion(t) = account.version

-----------------------------------------------------------------------------
AccountInit ==
  /\ account = NoAccount
  /\ signUpPc = [u \in SignUp |-> "new"]
  /\ tokenPc = [t \in Token |-> "new"]
  /\ tokenRow = [t \in Token |-> "none"]
  /\ revokedRows = {} /\ signedOut = {}
  /\ family = [t \in Token |-> NoToken]
  /\ holds = [q \in Refresh |-> NoToken]
  /\ version = [t \in Token |-> 1]
  /\ scimRead = [c \in Scim |-> NoAccount]

AccountNext ==
  \/ \E u \in SignUp : LookUpEmail(u) \/ InsertUser(u) \/ InsertScimUser(u)
  \/ \E c \in Scim : ReadScimUser(c) \/ PatchUser(c) \/ PutUser(c)
  \/ \E r \in SignIn :
       \/ Login(r) \/ CommitLogin(r) \/ SignInRefused(r) \/ SamlAcs(r)
       \/ OidcLogin(r) \/ OidcCallback(r) \/ OidcExchange(r) \/ JitLink(r) \/ JitInsert(r)
  \/ \E q \in Refresh :
       \/ \E t \in Token : PresentToken(q, t) \/ ReuseDetected(q, t)
       \/ CheckUser(q) \/ RotateToken(q) \/ AdoptToken(q)
  \/ \E t \in Token : Logout(t)

AccountSpec == AccountInit /\ [][AccountNext]_accountVars

-----------------------------------------------------------------------------
(* Properties                                                               *)

AccountTypeOK ==
  /\ account \in Account \union {NoAccount}
  /\ signUpPc \in [SignUp -> {"new", "absent", "done", "refused", "failed"}]
  /\ tokenPc \in [Token -> {"new", "checked", "asserted", "redirected", "exchanging", "provisioning",
                            "tracked", "untracked", "rotating", "adopting",
                            "done", "refused", "failed"}]
  /\ tokenRow \in [Token -> {"none", "open", "rotated"}]
  /\ revokedRows \subseteq Token /\ signedOut \subseteq Token
  /\ family \in [Token -> SignIn \union {NoToken}]
  /\ holds \in [Refresh -> Token \union {NoToken}]
  /\ version \in [Token -> Nat \ {0}]
  /\ scimRead \in [Scim -> Account \union {NoAccount}]

RowsOf(f, state) == {t \in Token : tokenRow[t] = state /\ family[t] = f}

Families == INSTANCE SessionFamilies WITH
  Family <- SignIn, Exchange <- Refresh,
  open <- [f \in SignIn |-> RowsOf(f, "open")],
  spent <- [f \in SignIn |-> RowsOf(f, "rotated")],
  presented <- [q \in Refresh |->
     IF tokenPc[q] \in {"tracked", "untracked", "rotating", "adopting"}
     THEN holds[q] ELSE NoToken]

\* Rotation keeps its promise (SessionFamilies) whatever overlaps: two refreshes
\* with one token both succeed, failed ones roll back, and no family is left
\* without an open token.
SessionsAreKept == Families!FamiliesSpec

\* get_current_user refuses a token whose version the account has left behind
\* ("Reject token if token_version has been incremented"); a token made for the
\* account's present version is then good for an active account.
LoginsAreUsable ==
  \A t \in Issued \ signedOut :
    MayEnter /\ version[t] = account.version => Authenticates(t)
=============================================================================
