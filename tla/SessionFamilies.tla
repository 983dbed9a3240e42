--------------------------- MODULE SessionFamilies ---------------------------
(***************************************************************************)
(* What refresh-token rotation promises of a sign-in: its tokens form a    *)
(* family, each is exchanged for a successor, an exchange is begun only    *)
(* with a token that is not yet spent, and a family whose tokens are being *)
(* spent always has an open one left.                                      *)
(***************************************************************************)
CONSTANTS Family, Token, Exchange, NoToken

VARIABLES
  open,       \* the tokens of each family that were not exchanged
  spent,      \* the tokens of each family that were
  presented   \* the token each exchange was begun with

familyVars == <<open, spent, presented>>

Known == UNION {open[f] \union spent[f] : f \in Family}

FamiliesInit ==
  /\ open = [f \in Family |-> {}]
  /\ spent = [f \in Family |-> {}]
  /\ presented = [q \in Exchange |-> NoToken]

\* A family that is tracked from its first token on.
Start(f, t) ==
  /\ open[f] = {} /\ spent[f] = {} /\ t \notin Known
  /\ open' = [open EXCEPT ![f] = {t}]
  /\ UNCHANGED <<spent, presented>>

Present(q, t) ==
  /\ presented[q] = NoToken
  /\ \A f \in Family : t \notin spent[f]
  /\ presented' = [presented EXCEPT ![q] = t]
  /\ UNCHANGED <<open, spent>>

\* The family knows the token, or is first tracked with this exchange.
Exchanged(q, f, new) ==
  /\ presented[q] # NoToken /\ new \notin Known
  /\ LET old == presented[q]
     IN /\ \/ old \in open[f] \union spent[f]
           \/ old \notin Known /\ open[f] = {} /\ spent[f] = {}
        /\ spent' = [spent EXCEPT ![f] = @ \union {old}]
        /\ open' = [open EXCEPT ![f] = (@ \ {old}) \union {new}]
  /\ presented' = [presented EXCEPT ![q] = NoToken]

Abandon(q) ==
  /\ presented[q] # NoToken
  /\ presented' = [presented EXCEPT ![q] = NoToken]
  /\ UNCHANGED <<open, spent>>

FamiliesNext ==
  \/ \E f \in Family, t \in Token : Start(f, t)
  \/ \E q \in Exchange : \/ Abandon(q)
                          \/ \E t \in Token : Present(q, t)
                          \/ \E f \in Family, new \in Token : Exchanged(q, f, new)

FamiliesSpec == FamiliesInit /\ [][FamiliesNext]_familyVars

\* Spending tokens never strands a family: one of its tokens is still open.
NeverStranded == \A f \in Family : spent[f] # {} => open[f] # {}
=============================================================================
