--------------------------- MODULE AccountsProofs ---------------------------
(***************************************************************************)
(* Proofs about Accounts: its types, and that rotation implements the      *)
(* families of SessionFamilies.                                            *)
(***************************************************************************)
EXTENDS Accounts, TLAPS

Exchanging(q) == tokenPc[q] \in {"tracked", "untracked", "rotating", "adopting"}

\* Rows belong to pairs that were answered; a family is tracked from the row of
\* its sign-in on; a token that is being exchanged was issued.
PairsInOrder ==
  /\ \A t \in Token : tokenRow[t] # "none" =>
       tokenPc[t] = "done" /\ tokenRow[family[t]] # "none"
  /\ \A t \in Token : tokenPc[t] = "done" => family[t] \in SignIn
  /\ \A r \in SignIn : tokenPc[r] \in {"checked", "done"} => family[r] = r
  /\ \A q \in Refresh : tokenPc[q] = "done" => tokenRow[q] # "none"
  /\ \A q \in Refresh : Exchanging(q) =>
       /\ holds[q] \in Token /\ tokenPc[holds[q]] = "done"
       /\ tokenPc[q] \in {"tracked", "rotating"} => tokenRow[holds[q]] # "none"

\* An account that was read exists: nothing deletes one.
ReadsExist == \A c \in Scim : scimRead[c] # NoAccount => account # NoAccount

AccountInv == AccountTypeOK /\ ReadsExist /\ PairsInOrder

-----------------------------------------------------------------------------
(* The invariant                                                            *)

\* The initial states satisfy the invariant.
LEMMA InitInv == AccountInit => AccountInv
  BY DEF AccountInit, AccountInv, AccountTypeOK, ReadsExist, PairsInOrder, Exchanging, Token

\* The steps of the account itself leave the pairs alone, or revoke rows.
LEMMA AccountSteps ==
  ASSUME AccountInv,
         \/ \E u \in SignUp : LookUpEmail(u) \/ InsertUser(u) \/ InsertScimUser(u)
         \/ \E c \in Scim : ReadScimUser(c) \/ PatchUser(c) \/ PutUser(c)
         \/ \E t \in Token : Logout(t)
  PROVE  AccountInv' /\ UNCHANGED <<tokenPc, tokenRow, family, holds>>
<1> USE DEF AccountInv
<1>1. UNCHANGED <<tokenPc, tokenRow, family, holds>>
  BY DEF LookUpEmail, Insert, InsertUser, InsertScimUser, ReadScimUser, PatchUser, PutUser,
         Logout, rowVars, pairVars
<1>2. ASSUME NEW u \in SignUp, LookUpEmail(u) \/ InsertUser(u) \/ InsertScimUser(u)
      PROVE  AccountTypeOK' /\ ReadsExist'
  <2>1. \A a \in BOOLEAN : [active |-> a, version |-> 1] \in Account
    BY DEF Account
  <2>2. UNCHANGED <<revokedRows, version, signedOut, scimRead>>
    BY <1>2 DEF LookUpEmail, Insert, InsertUser, InsertScimUser, rowVars, pairVars
  <2>3. /\ account' \in Account \union {NoAccount}
        /\ account # NoAccount => account' = account
    BY <1>2, <2>1 DEF LookUpEmail, Insert, InsertUser, InsertScimUser, AccountTypeOK
  <2>4. signUpPc' \in [SignUp -> {"new", "absent", "done", "refused", "failed"}]
    BY <1>2 DEF LookUpEmail, Insert, InsertUser, InsertScimUser, AccountTypeOK
  <2> QED
    BY <1>1, <2>2, <2>3, <2>4 DEF AccountTypeOK, ReadsExist
<1>3. ASSUME NEW c \in Scim, ReadScimUser(c) \/ PatchUser(c) \/ PutUser(c)
      PROVE  AccountTypeOK' /\ ReadsExist'
  <2>1. UNCHANGED <<signUpPc, version, signedOut>>
    BY <1>3 DEF ReadScimUser, PatchUser, PutUser, rowVars, pairVars
  <2>2. account \in Account
    BY <1>3 DEF ReadScimUser, PatchUser, PutUser, AccountTypeOK, ReadsExist
  <2>3. \A a \in BOOLEAN : ActiveWritten(c, a) \in BOOLEAN
    BY <2>2 DEF ActiveWritten, Account
  <2>4. account' \in Account
    <3>1. CASE ReadScimUser(c)
      BY <2>2, <3>1 DEF ReadScimUser
    <3>2. CASE PutUser(c)
      BY <2>2, <2>3, <3>2 DEF PutUser, Account
    <3>3. CASE PatchUser(c)
      <4>1. scimRead[c] \in Account
        BY <3>3 DEF PatchUser, AccountTypeOK
      <4>2. PICK a \in BOOLEAN :
              account' = [active |-> ActiveWritten(c, a),
                          version |-> IF a THEN account.version ELSE scimRead[c].version + 1]
        BY <3>3 DEF PatchUser
      <4> QED
        BY <2>2, <2>3, <4>1, <4>2 DEF Account
    <3> QED
      BY <1>3, <3>1, <3>2, <3>3
  <2>5. scimRead' \in [Scim -> Account \union {NoAccount}]
    BY <1>3, <2>2 DEF ReadScimUser, PatchUser, PutUser, AccountTypeOK
  <2>6. revokedRows' \subseteq Token
    BY <1>3 DEF ReadScimUser, PatchUser, PutUser, AccountTypeOK, rowVars
  <2> QED
    BY <1>1, <2>1, <2>4, <2>5, <2>6, NoAccountAssumption DEF AccountTypeOK, ReadsExist
<1>4. ASSUME NEW t \in Token, Logout(t)
      PROVE  AccountTypeOK' /\ ReadsExist'
  BY <1>1, <1>4 DEF Logout, AccountTypeOK, ReadsExist, pairVars
<1>5. PairsInOrder'
  BY <1>1 DEF PairsInOrder, Exchanging
<1> QED
  BY <1>1, <1>2, <1>3, <1>4, <1>5

\* Sign-ins take their own name as family, and get a row only in CommitLogin.
LEMMA SignInSteps ==
  ASSUME AccountInv, NEW r \in SignIn,
         \/ Login(r) \/ CommitLogin(r) \/ SignInRefused(r) \/ SamlAcs(r) \/ OidcLogin(r)
         \/ OidcCallback(r) \/ OidcExchange(r) \/ JitLink(r) \/ JitInsert(r)
  PROVE  /\ AccountInv'
         /\ holds' = holds /\ r \in Token /\ tokenRow[r] = "none"
         /\ \A t \in Token \ {r} : tokenPc'[t] = tokenPc[t] /\ tokenRow'[t] = tokenRow[t]
                                   /\ family'[t] = family[t]
         /\ \/ tokenRow'[r] = "none"
            \/ tokenRow'[r] = "open" /\ family'[r] = r
<1> USE DEF AccountInv
<1> DEFINE Step == \/ Login(r) \/ CommitLogin(r) \/ SignInRefused(r) \/ SamlAcs(r) \/ OidcLogin(r)
                   \/ OidcCallback(r) \/ OidcExchange(r) \/ JitLink(r) \/ JitInsert(r)
<1>1. r \in Token /\ r \notin Refresh
  BY RequestAssumption DEF Token
<1>2. tokenPc[r] \in {"new", "checked", "asserted", "redirected", "exchanging", "provisioning"}
  BY DEF Login, CommitLogin, SignInRefused, SamlAcs, OidcLogin, OidcCallback, OidcExchange,
         JitLink, JitInsert, Moves
<1>3. tokenRow[r] = "none"
  BY <1>1, <1>2 DEF PairsInOrder
<1>4. UNCHANGED <<holds, revokedRows, signedOut, scimRead, signUpPc>>
  BY DEF Login, CommitLogin, SignInRefused, SamlAcs, OidcLogin, OidcCallback, OidcExchange,
         JitLink, JitInsert, Issue, rowVars, pairVars
<1>5. PICK c \in {"checked", "done", "refused", "asserted", "redirected", "exchanging",
                  "provisioning", "failed"} : tokenPc' = [tokenPc EXCEPT ![r] = c]
  BY DEF Login, CommitLogin, SignInRefused, SamlAcs, OidcLogin, OidcCallback, OidcExchange,
         JitLink, JitInsert, Moves, Answered
<1>6. tokenRow' = tokenRow \/ (tokenPc[r] = "checked" /\ c = "done"
                               /\ tokenRow' = [tokenRow EXCEPT ![r] = "open"])
  BY <1>1, <1>5 DEF Login, CommitLogin, SignInRefused, SamlAcs, OidcLogin, OidcCallback,
         OidcExchange, JitLink, JitInsert, Moves, rowVars, AccountTypeOK
<1>7. \/ family' = [family EXCEPT ![r] = r]
      \/ family' = family /\ (c \in {"checked", "done"} => tokenPc[r] = "checked")
  BY <1>1, <1>5 DEF Login, CommitLogin, SignInRefused, SamlAcs, OidcLogin, OidcCallback,
         OidcExchange, JitLink, JitInsert, Issue, Moves, Answered, pairVars, AccountTypeOK
<1>8. AccountTypeOK'
  <2>1. /\ account' \in Account \union {NoAccount}
        /\ version' \in [Token -> Nat \ {0}]
    <3>1. [active |-> TRUE, version |-> 1] \in Account /\ 1 \in Nat \ {0}
      BY DEF Account
    <3>2. account # NoAccount => account.version \in Nat \ {0}
      BY DEF AccountTypeOK, Account
    <3> QED
      BY <1>1, <3>1, <3>2 DEF Login, CommitLogin, SignInRefused, SamlAcs, OidcLogin, OidcCallback,
         OidcExchange, JitLink, JitInsert, Issue, MayEnter, pairVars, AccountTypeOK
  <2>2. /\ tokenPc' \in [Token -> {"new", "checked", "asserted", "redirected", "exchanging",
               "provisioning", "tracked", "untracked", "rotating", "adopting",
               "done", "refused", "failed"}]
        /\ tokenRow' \in [Token -> {"none", "open", "rotated"}]
        /\ family' \in [Token -> SignIn \union {NoToken}]
    BY <1>5, <1>6, <1>7 DEF AccountTypeOK
  <2> QED
    BY <1>4, <2>1, <2>2 DEF AccountTypeOK
<1>9. ReadsExist'
  <2>1. account # NoAccount => account' = account
    BY DEF Login, CommitLogin, SignInRefused, SamlAcs, OidcLogin, OidcCallback, OidcExchange,
           JitLink, JitInsert
  <2> QED
    BY <1>4, <2>1 DEF ReadsExist
<1>10. /\ \A t \in Token \ {r} : tokenPc'[t] = tokenPc[t] /\ tokenRow'[t] = tokenRow[t]
                                 /\ family'[t] = family[t]
       /\ tokenPc'[r] = c
  BY <1>1, <1>5, <1>6, <1>7 DEF AccountTypeOK
<1>11. c \in {"checked", "done"} => family'[r] = r
  <2>1. c \in {"checked", "done"} /\ family' = family => tokenPc[r] = "checked" \/ family'[r] = r
    BY <1>1, <1>7 DEF AccountTypeOK
  <2> QED
    BY <1>1, <1>7, <2>1 DEF AccountTypeOK, PairsInOrder
<1>12. \/ tokenRow'[r] = "none"
       \/ tokenRow'[r] = "open" /\ family'[r] = r /\ c = "done"
  BY <1>1, <1>3, <1>6, <1>11 DEF AccountTypeOK
<1>13. PairsInOrder'
  <2>1. \A t \in Token : tokenRow'[t] # "none" =>
          tokenPc'[t] = "done" /\ tokenRow'[family'[t]] # "none"
    <3> SUFFICES ASSUME NEW t \in Token, tokenRow'[t] # "none"
                 PROVE  tokenPc'[t] = "done" /\ tokenRow'[family'[t]] # "none"
      OBVIOUS
    <3>1. CASE t = r
      BY <1>10, <1>12, <3>1
    <3>2. CASE t # r
      <4>1. /\ tokenPc[t] = "done" /\ tokenRow[family[t]] # "none" /\ family[t] \in SignIn
        BY <1>10, <3>2 DEF PairsInOrder
      <4>2. family[t] # r /\ family[t] \in Token
        BY <1>3, <4>1 DEF Token
      <4> QED
        BY <1>10, <3>2, <4>1, <4>2
    <3> QED
      BY <3>1, <3>2
  <2>2. \A t \in Token : tokenPc'[t] = "done" => family'[t] \in SignIn
    BY <1>10, <1>11 DEF PairsInOrder
  <2>3. \A s \in SignIn : tokenPc'[s] \in {"checked", "done"} => family'[s] = s
    BY <1>10, <1>11 DEF PairsInOrder, Token
  <2>4. \A q \in Refresh : tokenPc'[q] = "done" => tokenRow'[q] # "none"
    BY <1>1, <1>10 DEF PairsInOrder, Token
  <2>5. \A q \in Refresh : Exchanging(q)' =>
          /\ holds'[q] \in Token /\ tokenPc'[holds'[q]] = "done"
          /\ tokenPc'[q] \in {"tracked", "rotating"} => tokenRow'[holds'[q]] # "none"
    <3> SUFFICES ASSUME NEW q \in Refresh, Exchanging(q)'
                 PROVE  /\ holds'[q] \in Token /\ tokenPc'[holds'[q]] = "done"
                        /\ tokenPc'[q] \in {"tracked", "rotating"} => tokenRow'[holds'[q]] # "none"
      OBVIOUS
    <3>1. q \in Token \ {r}
      BY <1>1 DEF Token
    <3>2. Exchanging(q) /\ tokenPc'[q] = tokenPc[q]
      BY <1>10, <3>1 DEF Exchanging
    <3>3. holds[q] \in Token \ {r}
      BY <1>2, <3>2 DEF PairsInOrder
    <3> QED
      BY <1>4, <1>10, <3>2, <3>3 DEF PairsInOrder
  <2> QED
    BY <2>1, <2>2, <2>3, <2>4, <2>5 DEF PairsInOrder
<1> QED
  BY <1>1, <1>3, <1>4, <1>8, <1>9, <1>10, <1>12, <1>13

\* Presenting a token starts an exchange; nothing else of the pairs changes.
LEMMA PresentSteps ==
  ASSUME AccountInv, NEW q \in Refresh, NEW t \in Token, PresentToken(q, t) \/ ReuseDetected(q, t)
  PROVE  AccountInv'
<1> USE DEF AccountInv
<1>1. /\ q \in Token /\ q \notin SignIn
      /\ tokenPc[q] = "new" /\ tokenPc[t] = "done"
  BY RequestAssumption DEF Token, PresentToken, ReuseDetected, Moves, Issued
<1>2. tokenRow[q] = "none"
  BY <1>1 DEF PairsInOrder
<1>3. UNCHANGED <<account, signUpPc, tokenRow, family, version, signedOut, scimRead>>
  BY DEF PresentToken, ReuseDetected, rowVars, pairVars
<1>4. PICK c \in {"untracked", "tracked", "refused"} :
        /\ tokenPc' = [tokenPc EXCEPT ![q] = c]
        /\ c = "tracked" => tokenRow[t] # "none"
  BY DEF PresentToken, ReuseDetected, Moves
<1>5. holds' = [holds EXCEPT ![q] = t] \/ (holds' = holds /\ c = "refused")
  BY <1>1, <1>4 DEF PresentToken, ReuseDetected, Moves, pairVars, AccountTypeOK
<1>6. revokedRows' \subseteq Token
  BY DEF PresentToken, ReuseDetected, rowVars, AccountTypeOK
<1>7. AccountTypeOK' /\ ReadsExist'
  BY <1>3, <1>4, <1>5, <1>6 DEF AccountTypeOK, ReadsExist
<1>8. /\ \A s \in Token \ {q} : tokenPc'[s] = tokenPc[s]
      /\ tokenPc'[q] = c
      /\ \A p \in Refresh \ {q} : holds'[p] = holds[p]
      /\ c # "refused" => holds'[q] = t
  BY <1>1, <1>4, <1>5 DEF AccountTypeOK
<1>9. PairsInOrder'
  <2>1. \A s \in Token : tokenPc'[s] = "done" <=> tokenPc[s] = "done"
    BY <1>1, <1>8
  <2>2. \A p \in Refresh : Exchanging(p)' =>
          /\ holds'[p] \in Token /\ tokenPc'[holds'[p]] = "done"
          /\ tokenPc'[p] \in {"tracked", "rotating"} => tokenRow'[holds'[p]] # "none"
    <3> SUFFICES ASSUME NEW p \in Refresh, Exchanging(p)'
                 PROVE  /\ holds'[p] \in Token /\ tokenPc'[holds'[p]] = "done"
                        /\ tokenPc'[p] \in {"tracked", "rotating"} => tokenRow'[holds'[p]] # "none"
      OBVIOUS
    <3>1. CASE p = q
      BY <1>1, <1>3, <1>4, <1>8, <2>1, <3>1 DEF Exchanging
    <3>2. CASE p # q
      <4>1. Exchanging(p) /\ tokenPc'[p] = tokenPc[p] /\ holds'[p] = holds[p]
        BY <1>8, <3>2 DEF Exchanging, Token
      <4> QED
        BY <1>3, <2>1, <4>1 DEF PairsInOrder
    <3> QED
      BY <3>1, <3>2
  <2>3. \A r \in SignIn : tokenPc'[r] = tokenPc[r]
    BY <1>1, <1>8 DEF Token
  <2> QED
    BY <1>3, <2>1, <2>2, <2>3 DEF PairsInOrder, Token
<1> QED
  BY <1>7, <1>9

\* Reading the account moves an exchange on, or ends it.
LEMMA CheckSteps ==
  ASSUME AccountInv, NEW q \in Refresh, CheckUser(q)
  PROVE  AccountInv'
<1> USE DEF AccountInv
<1>1. q \in Token /\ q \notin SignIn /\ tokenPc[q] \in {"tracked", "untracked"}
  BY RequestAssumption DEF Token, CheckUser
<1>2. PICK c \in {"rotating", "adopting", "refused"} :
        /\ tokenPc' = [tokenPc EXCEPT ![q] = c]
        /\ c = "rotating" => tokenPc[q] = "tracked"
  BY DEF CheckUser, Answered
<1>3. UNCHANGED <<account, signUpPc, tokenRow, revokedRows, family, holds, signedOut, scimRead>>
  BY DEF CheckUser, rowVars
<1>4. version' \in [Token -> Nat \ {0}]
  <2>1. account # NoAccount => account.version \in Nat \ {0}
    BY DEF AccountTypeOK, Account
  <2> QED
    BY <1>1, <2>1 DEF CheckUser, MayEnter, AccountTypeOK
<1>5. AccountTypeOK' /\ ReadsExist'
  BY <1>2, <1>3, <1>4 DEF AccountTypeOK, ReadsExist
<1>6. /\ \A s \in Token \ {q} : tokenPc'[s] = tokenPc[s]
      /\ tokenPc'[q] = c
  BY <1>1, <1>2 DEF AccountTypeOK
<1>7. PairsInOrder'
  <2>1. \A s \in Token : tokenPc'[s] = "done" <=> tokenPc[s] = "done"
    BY <1>1, <1>6
  <2>2. \A r \in SignIn : tokenPc'[r] = tokenPc[r]
    BY <1>1, <1>6 DEF Token
  <2>3. \A p \in Refresh : Exchanging(p)' =>
          /\ Exchanging(p)
          /\ tokenPc'[p] \in {"tracked", "rotating"} => tokenPc[p] \in {"tracked", "rotating"}
    BY <1>1, <1>2, <1>6 DEF Exchanging, Token
  <2>4. \A p \in Refresh : Exchanging(p)' =>
          /\ holds'[p] \in Token /\ tokenPc'[holds'[p]] = "done"
          /\ tokenPc'[p] \in {"tracked", "rotating"} => tokenRow'[holds'[p]] # "none"
    BY <1>3, <2>1, <2>3 DEF PairsInOrder
  <2> QED
    BY <1>3, <2>1, <2>2, <2>4 DEF PairsInOrder, Token
<1> QED
  BY <1>5, <1>7

\* An exchange leaves the old row rotated and the successor's open, in one
\* family; one that fails changes no row.
LEMMA ExchangeSteps ==
  ASSUME AccountInv, NEW q \in Refresh, RotateToken(q) \/ AdoptToken(q)
  PROVE  /\ AccountInv' /\ UNCHANGED holds
         /\ q \in Token /\ Exchanging(q)
         /\ \A s \in Token \ {q} : tokenPc'[s] = tokenPc[s] /\ family'[s] = family[s]
         /\ \/ /\ tokenPc'[q] = "done" /\ tokenRow[q] = "none"
               /\ tokenPc[q] = "rotating" \/ tokenRow[holds[q]] = "none"
               /\ tokenRow' = [tokenRow EXCEPT ![holds[q]] = "rotated", ![q] = "open"]
               /\ family'[q] = family[holds[q]]
            \/ tokenPc'[q] = "failed" /\ UNCHANGED <<tokenRow, family>>
<1> USE DEF AccountInv
<1>1. /\ q \in Token /\ q \notin SignIn
      /\ tokenPc[q] \in {"rotating", "adopting"} /\ Exchanging(q)
  BY RequestAssumption DEF Token, RotateToken, AdoptToken, Moves, Exchanging
<1>2. /\ tokenRow[q] = "none"
      /\ holds[q] \in Token \ {q} /\ tokenPc[holds[q]] = "done"
      /\ family[holds[q]] \in SignIn
  BY <1>1 DEF PairsInOrder
<1>3. UNCHANGED <<account, signUpPc, revokedRows, holds, version, signedOut, scimRead>>
  BY DEF RotateToken, AdoptToken
<1>4. \/ /\ tokenPc' = [tokenPc EXCEPT ![q] = "done"]
         /\ tokenPc[q] = "rotating" \/ tokenRow[holds[q]] = "none"
         /\ tokenRow' = [tokenRow EXCEPT ![holds[q]] = "rotated", ![q] = "open"]
         /\ family' = [family EXCEPT ![q] = family[holds[q]]]
      \/ tokenPc' = [tokenPc EXCEPT ![q] = "failed"] /\ UNCHANGED <<tokenRow, family>>
  BY DEF RotateToken, AdoptToken, Moves, Answered
<1>5. AccountTypeOK' /\ ReadsExist'
  BY <1>2, <1>3, <1>4 DEF AccountTypeOK, ReadsExist
<1>6. \A s \in Token \ {q} : tokenPc'[s] = tokenPc[s] /\ family'[s] = family[s]
  BY <1>1, <1>4 DEF AccountTypeOK
<1>7. \/ /\ tokenPc'[q] = "done" /\ family'[q] = family[holds[q]]
         /\ tokenRow'[q] = "open" /\ tokenRow'[holds[q]] = "rotated"
         /\ \A s \in Token \ {q, holds[q]} : tokenRow'[s] = tokenRow[s]
      \/ tokenPc'[q] = "failed" /\ tokenRow' = tokenRow /\ family' = family
  BY <1>1, <1>2, <1>4 DEF AccountTypeOK
<1>8. \A s \in Token : tokenRow[s] # "none" => tokenRow'[s] # "none"
  BY <1>2, <1>7
<1>9. PairsInOrder'
  <2>1. \A r \in SignIn : tokenPc'[r] = tokenPc[r] /\ family'[r] = family[r]
    BY <1>1, <1>6 DEF Token
  <2>2. \A t \in Token : tokenPc'[t] = "done" => family'[t] \in SignIn
    BY <1>2, <1>6, <1>7 DEF PairsInOrder
  <2>3. \A t \in Token : tokenRow'[t] # "none" =>
          tokenPc'[t] = "done" /\ tokenRow'[family'[t]] # "none"
    <3>1. CASE tokenPc'[q] = "failed"
      <4>1. \A t \in Token : tokenRow[t] # "none" => t # q
        BY <1>2
      <4> QED
        BY <1>6, <1>7, <3>1, <4>1 DEF PairsInOrder
    <3>2. CASE tokenPc'[q] = "done"
      <4>1. tokenRow'[family[holds[q]]] # "none"
        <5>1. CASE tokenRow[holds[q]] # "none"
          BY <1>2, <1>8, <5>1 DEF PairsInOrder, Token
        <5>2. CASE tokenRow[holds[q]] = "none"
          \* Only a sign-in is without a row, and it is its own family.
          <6>1. holds[q] \in SignIn
            BY <1>2, <5>2 DEF PairsInOrder, Token
          <6>2. family[holds[q]] = holds[q]
            BY <1>2, <6>1 DEF PairsInOrder
          <6> QED
            BY <1>7, <3>2, <6>2
        <5> QED
          BY <5>1, <5>2
      <4>2. ASSUME NEW t \in Token \ {q}, tokenRow'[t] # "none"
            PROVE  tokenPc'[t] = "done" /\ tokenRow'[family'[t]] # "none"
        <5>1. CASE t = holds[q]
          BY <1>2, <1>6, <4>1, <5>1
        <5>2. CASE t # holds[q]
          <6>1. tokenRow[t] # "none"
            BY <1>7, <3>2, <4>2, <5>2
          <6>2. tokenPc[t] = "done" /\ tokenRow[family[t]] # "none" /\ family[t] \in SignIn
            BY <6>1 DEF PairsInOrder
          <6> QED
            BY <1>6, <1>8, <6>2 DEF Token
        <5> QED
          BY <5>1, <5>2
      <4> QED
        BY <1>7, <3>2, <4>1, <4>2
    <3> QED
      BY <1>7, <3>1, <3>2
  <2>4. \A p \in Refresh : tokenPc'[p] = "done" => tokenRow'[p] # "none"
    <3>1. \A p \in Refresh \ {q} : tokenPc'[p] = "done" => tokenRow'[p] # "none"
      BY <1>6, <1>8 DEF PairsInOrder, Token
    <3> QED
      BY <1>7, <3>1
  <2>5. \A p \in Refresh : Exchanging(p)' =>
          /\ holds'[p] \in Token /\ tokenPc'[holds'[p]] = "done"
          /\ tokenPc'[p] \in {"tracked", "rotating"} => tokenRow'[holds'[p]] # "none"
    <3> SUFFICES ASSUME NEW p \in Refresh, Exchanging(p)'
                 PROVE  /\ holds'[p] \in Token /\ tokenPc'[holds'[p]] = "done"
                        /\ tokenPc'[p] \in {"tracked", "rotating"} => tokenRow'[holds'[p]] # "none"
      OBVIOUS
    <3>1. p # q
      BY <1>7 DEF Exchanging
    <3>2. Exchanging(p) /\ tokenPc'[p] = tokenPc[p]
      BY <1>6, <3>1 DEF Exchanging, Token
    <3>3. holds[p] \in Token \ {q} /\ tokenPc[holds[p]] = "done"
      BY <1>1, <3>2 DEF PairsInOrder
    <3> QED
      BY <1>3, <1>6, <1>8, <3>2, <3>3 DEF PairsInOrder
  <2> QED
    BY <2>1, <2>2, <2>3, <2>4, <2>5 DEF PairsInOrder
<1> QED
  BY <1>1, <1>2, <1>3, <1>4, <1>5, <1>6, <1>7, <1>9

\* Every step keeps the invariant.
LEMMA InvPreserved == AccountInv /\ [AccountNext]_accountVars => AccountInv'
<1> SUFFICES ASSUME AccountInv, [AccountNext]_accountVars
             PROVE  AccountInv'
  OBVIOUS
<1>1. CASE UNCHANGED accountVars
  BY <1>1 DEF accountVars, rowVars, pairVars, AccountInv, AccountTypeOK, ReadsExist,
              PairsInOrder, Exchanging
<1>2. CASE AccountNext
  BY <1>2, AccountSteps, SignInSteps, PresentSteps, CheckSteps, ExchangeSteps DEF AccountNext
<1> QED
  BY <1>1, <1>2

\* A pair's row follows its answer, and what an exchange presents was issued, in
\* every reachable state.
THEOREM PairsAreInOrder == AccountSpec => []AccountInv
  BY InitInv, InvPreserved, PTL DEF AccountSpec

-----------------------------------------------------------------------------
(* Refinement                                                               *)

OpenRows == [f \in SignIn |-> RowsOf(f, "open")]
SpentRows == [f \in SignIn |-> RowsOf(f, "rotated")]
Presented == [q \in Refresh |-> IF Exchanging(q) THEN holds[q] ELSE NoToken]

\* What the families show changes only with the rows, and with the exchanges.
LEMMA RowsKept ==
  ASSUME UNCHANGED tokenRow,
         \A t \in Token : tokenRow[t] # "none" => family'[t] = family[t]
  PROVE  UNCHANGED <<OpenRows, SpentRows>>
<1>1. \A f \in SignIn : \A state \in {"open", "rotated"} : RowsOf(f, state)' = RowsOf(f, state)
  BY DEF RowsOf
<1> QED
  BY <1>1 DEF OpenRows, SpentRows

\* Tokens are presented as before while no refresh moves.
LEMMA ExchangesKept ==
  ASSUME UNCHANGED holds, \A q \in Refresh : tokenPc'[q] = tokenPc[q]
  PROVE  UNCHANGED Presented
  BY DEF Presented, Exchanging

\* A token without a row is known to no family.
LEMMA Unknown ==
  ASSUME NEW t \in Token, tokenRow[t] = "none"
  PROVE  t \notin Families!Known
<1>1. \A f \in SignIn : t \notin RowsOf(f, "open") /\ t \notin RowsOf(f, "rotated")
  BY DEF RowsOf
<1> QED
  BY <1>1 DEF Families!Known

\* The initial states of the accounts are initial states of the families.
LEMMA InitImplemented == AccountInit => Families!FamiliesInit
  BY DEF AccountInit, Families!FamiliesInit, RowsOf

FamiliesStep == [Families!FamiliesNext]_(Families!familyVars)

\* A step that changes neither rows nor presentations is a stutter of the families.
LEMMA Stutters ==
  ASSUME UNCHANGED <<OpenRows, SpentRows, Presented>>
  PROVE  FamiliesStep
  BY DEF FamiliesStep, Families!familyVars, OpenRows, SpentRows, Presented, Exchanging

\* A sign-in's row starts its family.
LEMMA SignInImplements ==
  ASSUME AccountInv, NEW r \in SignIn,
         \/ Login(r) \/ CommitLogin(r) \/ SignInRefused(r) \/ SamlAcs(r) \/ OidcLogin(r)
         \/ OidcCallback(r) \/ OidcExchange(r) \/ JitLink(r) \/ JitInsert(r)
  PROVE  FamiliesStep
<1>1. /\ holds' = holds /\ r \in Token /\ tokenRow[r] = "none"
      /\ \A t \in Token \ {r} : tokenPc'[t] = tokenPc[t] /\ tokenRow'[t] = tokenRow[t]
                                /\ family'[t] = family[t]
      /\ \/ tokenRow'[r] = "none"
         \/ tokenRow'[r] = "open" /\ family'[r] = r
  BY SignInSteps
<1>2. \A q \in Refresh : tokenPc'[q] = tokenPc[q]
  BY <1>1, RequestAssumption DEF Token
<1>3. UNCHANGED Presented
  BY <1>1, <1>2, ExchangesKept
<1>4. CASE tokenRow'[r] = "none"
  <2>1. \A f \in SignIn : \A state \in {"open", "rotated"} : RowsOf(f, state)' = RowsOf(f, state)
    BY <1>1, <1>4 DEF RowsOf
  <2>2. UNCHANGED <<OpenRows, SpentRows>>
    BY <2>1 DEF OpenRows, SpentRows
  <2> QED
    BY <1>3, <2>2, Stutters
<1>5. CASE tokenRow'[r] = "open" /\ family'[r] = r
  <2>1. \A t \in Token : tokenRow[t] # "none" => family[t] # r
    BY <1>1 DEF AccountInv, PairsInOrder
  <2>2. RowsOf(r, "open") = {} /\ RowsOf(r, "rotated") = {}
    BY <2>1 DEF RowsOf
  <2>3. \A f \in SignIn : RowsOf(f, "rotated")' = RowsOf(f, "rotated")
    BY <1>1, <1>5 DEF RowsOf
  <2>4. \A f \in SignIn \ {r} : RowsOf(f, "open")' = RowsOf(f, "open")
    BY <1>1, <1>5 DEF RowsOf
  <2>5. RowsOf(r, "open")' = {r}
    BY <1>1, <1>5, <2>1 DEF RowsOf
  <2>6. UNCHANGED SpentRows /\ OpenRows' = [OpenRows EXCEPT ![r] = {r}]
    BY <2>3, <2>4, <2>5 DEF OpenRows, SpentRows
  <2>7. Families!Start(r, r)
    BY <1>1, <1>3, <2>2, <2>6, Unknown
       DEF Families!Start, OpenRows, SpentRows, Presented, Exchanging
  <2> QED
    BY <1>1, <2>7 DEF FamiliesStep, Families!FamiliesNext
<1> QED
  BY <1>1, <1>4, <1>5

\* A token that is read unrotated is presented; a rotated one changes nothing here.
LEMMA PresentImplements ==
  ASSUME AccountInv, NEW q \in Refresh, NEW t \in Token, PresentToken(q, t) \/ ReuseDetected(q, t)
  PROVE  FamiliesStep
<1>1. UNCHANGED <<tokenRow, family>> /\ q \in Token /\ tokenPc[q] = "new"
  BY DEF PresentToken, ReuseDetected, rowVars, pairVars, Moves, Token
<1>2. UNCHANGED <<OpenRows, SpentRows>>
  BY <1>1, RowsKept
<1>3. CASE ReuseDetected(q, t)
  <2>1. UNCHANGED holds /\ tokenPc' = [tokenPc EXCEPT ![q] = "refused"]
    BY <1>3 DEF ReuseDetected, Moves, pairVars
  <2>2. \A p \in Refresh : Exchanging(p)' <=> Exchanging(p)
    BY <1>1, <2>1 DEF Exchanging, AccountInv, AccountTypeOK, Token
  <2>3. UNCHANGED Presented
    BY <2>1, <2>2 DEF Presented
  <2> QED
    BY <1>2, <2>3, Stutters
<1>4. CASE PresentToken(q, t)
  <2>1. PICK c \in {"untracked", "tracked"} : tokenPc' = [tokenPc EXCEPT ![q] = c]
    BY <1>4 DEF PresentToken, Moves
  <2>2. holds' = [holds EXCEPT ![q] = t] /\ tokenRow[t] # "rotated"
    BY <1>4 DEF PresentToken
  <2>3. /\ \A p \in Refresh \ {q} : (Exchanging(p)' <=> Exchanging(p)) /\ holds'[p] = holds[p]
        /\ Exchanging(q)' /\ ~Exchanging(q) /\ holds'[q] = t
    BY <1>1, <2>1, <2>2 DEF Exchanging, AccountInv, AccountTypeOK, Token
  <2>4. Presented' = [Presented EXCEPT ![q] = t] /\ Presented[q] = NoToken
    BY <2>3 DEF Presented
  <2>5. \A f \in SignIn : t \notin SpentRows[f]
    BY <2>2 DEF SpentRows, RowsOf
  <2>6. Families!Present(q, t)
    BY <1>2, <2>4, <2>5 DEF Families!Present, OpenRows, SpentRows, Presented, Exchanging
  <2> QED
    BY <2>6 DEF FamiliesStep, Families!FamiliesNext
<1> QED
  BY <1>3, <1>4

\* An exchange ends that presents nothing any more.
LEMMA Abandoned ==
  ASSUME AccountInv, NEW q \in Refresh, Exchanging(q), ~Exchanging(q)',
         UNCHANGED <<tokenRow, family, holds>>,
         \A s \in Token \ {q} : tokenPc'[s] = tokenPc[s]
  PROVE  FamiliesStep
<1>1. UNCHANGED <<OpenRows, SpentRows>>
  BY RowsKept
<1>2. \A p \in Refresh \ {q} : Exchanging(p)' <=> Exchanging(p)
  BY DEF Exchanging, Token
<1>3. Presented' = [Presented EXCEPT ![q] = NoToken]
  BY <1>2 DEF Presented
<1>4. Presented[q] # NoToken
  BY NoTokenAssumption DEF Presented, AccountInv, PairsInOrder
<1>5. Families!Abandon(q)
  BY <1>1, <1>3, <1>4 DEF Families!Abandon, OpenRows, SpentRows, Presented, Exchanging
<1> QED
  BY <1>5 DEF FamiliesStep, Families!FamiliesNext

\* The check of the user presents nothing and spends nothing.
LEMMA CheckImplements ==
  ASSUME AccountInv, NEW q \in Refresh, CheckUser(q)
  PROVE  FamiliesStep
<1>1. /\ q \in Token /\ Exchanging(q)
      /\ UNCHANGED <<tokenRow, family, holds>>
  BY DEF CheckUser, rowVars, Token, Exchanging
<1>2. PICK c \in {"rotating", "adopting", "refused"} : tokenPc' = [tokenPc EXCEPT ![q] = c]
  BY DEF CheckUser, Answered
<1>3. tokenPc'[q] = c /\ \A s \in Token \ {q} : tokenPc'[s] = tokenPc[s]
  BY <1>1, <1>2 DEF AccountInv, AccountTypeOK
<1>4. CASE c = "refused"
  BY <1>1, <1>3, <1>4, Abandoned DEF Exchanging
<1>5. CASE c # "refused"
  <2>1. \A p \in Refresh : Exchanging(p)' <=> Exchanging(p)
    BY <1>1, <1>3, <1>5 DEF Exchanging, Token
  <2>2. UNCHANGED Presented
    BY <1>1, <2>1 DEF Presented
  <2> QED
    BY <1>1, <2>2, RowsKept, Stutters
<1> QED
  BY <1>4, <1>5

\* The exchange of a tracked token, or the first of a family nothing is known of.
LEMMA ExchangeImplements ==
  ASSUME AccountInv, NEW q \in Refresh, RotateToken(q) \/ AdoptToken(q)
  PROVE  FamiliesStep
<1>1. /\ UNCHANGED holds
      /\ q \in Token /\ Exchanging(q)
      /\ \A s \in Token \ {q} : tokenPc'[s] = tokenPc[s] /\ family'[s] = family[s]
      /\ \/ /\ tokenPc'[q] = "done" /\ tokenRow[q] = "none"
            /\ tokenPc[q] = "rotating" \/ tokenRow[holds[q]] = "none"
            /\ tokenRow' = [tokenRow EXCEPT ![holds[q]] = "rotated", ![q] = "open"]
            /\ family'[q] = family[holds[q]]
         \/ tokenPc'[q] = "failed" /\ UNCHANGED <<tokenRow, family>>
  BY ExchangeSteps
<1>2. CASE tokenPc'[q] = "failed"
  BY <1>1, <1>2, Abandoned DEF Exchanging
<1>3. CASE tokenPc'[q] = "done"
  <2>1. PICK old \in Token, f \in SignIn :
          /\ old = holds[q] /\ f = family[old] /\ tokenPc[old] = "done"
          /\ tokenPc[q] = "rotating" => tokenRow[old] # "none"
    BY <1>1 DEF AccountInv, PairsInOrder
  <2>2. old # q
    BY <1>1, <2>1 DEF Exchanging
  <2>3. /\ tokenRow'[q] = "open" /\ tokenRow'[old] = "rotated"
        /\ \A s \in Token \ {q, old} : tokenRow'[s] = tokenRow[s]
    BY <1>1, <1>3, <2>1, <2>2 DEF AccountInv, AccountTypeOK
  <2>4. family'[q] = f /\ \A s \in Token \ {q} : family'[s] = family[s]
    BY <1>1, <1>3, <2>1
  <2>5. ASSUME NEW g \in SignIn, g # f, NEW t \in Token, NEW state \in {"open", "rotated"}
         PROVE  tokenRow'[t] = state /\ family'[t] = g <=> tokenRow[t] = state /\ family[t] = g
    <3>1. CASE t \in {q, old}
      BY <1>1, <1>3, <2>1, <2>2, <2>3, <2>4, <2>5, <3>1
    <3>2. CASE t \notin {q, old}
      BY <2>3, <2>4, <3>2
    <3> QED
      BY <3>1, <3>2
  <2>6. SpentRows' = [SpentRows EXCEPT ![f] = @ \union {old}]
    <3>1. \A g \in SignIn \ {f} : RowsOf(g, "rotated")' = RowsOf(g, "rotated")
      BY <2>5 DEF RowsOf
    <3>2. RowsOf(f, "rotated")' = RowsOf(f, "rotated") \union {old}
      BY <1>1, <1>3, <2>1, <2>2, <2>3, <2>4 DEF RowsOf
    <3> QED
      BY <2>1, <3>1, <3>2 DEF SpentRows
  <2>7. OpenRows' = [OpenRows EXCEPT ![f] = (@ \ {old}) \union {q}]
    <3>1. \A g \in SignIn \ {f} : RowsOf(g, "open")' = RowsOf(g, "open")
      BY <2>5 DEF RowsOf
    <3>2. RowsOf(f, "open")' = (RowsOf(f, "open") \ {old}) \union {q}
      BY <1>1, <1>3, <2>1, <2>2, <2>3, <2>4 DEF RowsOf
    <3> QED
      BY <2>1, <3>1, <3>2 DEF OpenRows
  <2>8. Presented[q] = old /\ Presented' = [Presented EXCEPT ![q] = NoToken]
    <3>1. ~Exchanging(q)'
      BY <1>3 DEF Exchanging
    <3>2. \A p \in Refresh \ {q} : Exchanging(p)' <=> Exchanging(p)
      BY <1>1 DEF Exchanging, Token
    <3> QED
      BY <1>1, <2>1, <3>1, <3>2 DEF Presented
  <2>9. old # NoToken
    BY <2>1, NoTokenAssumption
  <2>10. q \notin Families!Known
    BY <1>1, <1>3, Unknown
  <2>11. \/ old \in OpenRows[f] \union SpentRows[f]
         \/ old \notin Families!Known /\ OpenRows[f] = {} /\ SpentRows[f] = {}
    <3>1. CASE tokenRow[old] # "none"
      BY <2>1, <3>1 DEF OpenRows, SpentRows, RowsOf, AccountInv, AccountTypeOK
    <3>2. CASE tokenRow[old] = "none"
      <4>1. old \in SignIn
        BY <2>1, <3>2 DEF AccountInv, PairsInOrder, Token
      <4>2. f = old
        BY <2>1, <4>1 DEF AccountInv, PairsInOrder
      <4>3. \A t \in Token : tokenRow[t] # "none" => family[t] # f
        BY <3>2, <4>2 DEF AccountInv, PairsInOrder
      <4>4. OpenRows[f] = {} /\ SpentRows[f] = {}
        BY <2>1, <4>3 DEF OpenRows, SpentRows, RowsOf
      <4> QED
        BY <2>1, <3>2, <4>4, Unknown
    <3> QED
      BY <3>1, <3>2
  <2>12. Families!Exchanged(q, f, q)
    BY <2>6, <2>7, <2>8, <2>9, <2>10, <2>11
       DEF Families!Exchanged, OpenRows, SpentRows, Presented, Exchanging
  <2> QED
    BY <1>1, <2>1, <2>12 DEF FamiliesStep, Families!FamiliesNext
<1> QED
  BY <1>1, <1>2, <1>3

\* Every step of the accounts is a step of the families, or a stutter.
LEMMA StepImplemented == AccountInv /\ [AccountNext]_accountVars => FamiliesStep
<1> SUFFICES ASSUME AccountInv, [AccountNext]_accountVars
             PROVE  FamiliesStep
  OBVIOUS
<1>1. CASE UNCHANGED <<tokenPc, tokenRow, family, holds>>
  BY <1>1, RowsKept, ExchangesKept, Stutters
<1>2. CASE AccountNext
  BY <1>1, <1>2, AccountSteps, SignInImplements, PresentImplements, CheckImplements,
     ExchangeImplements DEF AccountNext
<1>3. UNCHANGED accountVars => UNCHANGED <<tokenPc, tokenRow, family, holds>>
  BY DEF accountVars, rowVars, pairVars
<1> QED
  BY <1>1, <1>2, <1>3

\* Rotation implements the families, whatever the number of sign-ins, refreshes
\* and SCIM requests, and however they overlap.
THEOREM SessionsImplemented == AccountSpec => SessionsAreKept
<1>1. AccountSpec => Families!FamiliesInit
  BY InitImplemented DEF AccountSpec
<1>2. AccountInv /\ [AccountNext]_accountVars
        => [Families!FamiliesNext]_(Families!familyVars)
  BY StepImplemented DEF FamiliesStep
<1> QED
  BY <1>1, <1>2, PairsAreInOrder, PTL DEF AccountSpec, SessionsAreKept, Families!FamiliesSpec
=============================================================================
