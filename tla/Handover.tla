------------------------------ MODULE Handover ------------------------------
(***************************************************************************)
(* What browser authorization promises, without tables, clocks, requests   *)
(* or faults: a code is opened once, granted to one person at most, and a  *)
(* granted code is exchanged once, in one step, for a token of that        *)
(* person.  A token lives until it is revoked.                             *)
(*                                                                         *)
(* The promise is stated in src/RUNBOOK.md:201-205 and                     *)
(* src/docs/authentication.md:35-58.                                       *)
(***************************************************************************)
CONSTANTS Codes, Tokens, Emails, NoOne

VARIABLES
  state,   \* of each code: "unopened", "open", "granted" or "spent"
  owner,   \* the email a granted code is bound to
  bearerOf \* the email of each token, or NoOne

pvars == <<state, owner, bearerOf>>

PInit ==
  /\ state = [c \in Codes |-> "unopened"]
  /\ owner = [c \in Codes |-> NoOne]
  /\ bearerOf = [t \in Tokens |-> NoOne]

POpen(c) ==
  /\ state[c] = "unopened"
  /\ state' = [state EXCEPT ![c] = "open"]
  /\ UNCHANGED <<owner, bearerOf>>

PGrant(c, email) ==
  /\ state[c] = "open"
  /\ state' = [state EXCEPT ![c] = "granted"]
  /\ owner' = [owner EXCEPT ![c] = email]
  /\ UNCHANGED bearerOf

PExchange(c, t) ==
  /\ state[c] = "granted"
  /\ state' = [state EXCEPT ![c] = "spent"]
  /\ bearerOf' = [bearerOf EXCEPT ![t] = owner[c]]
  /\ UNCHANGED owner

PRevoke(t) ==
  /\ bearerOf' = [bearerOf EXCEPT ![t] = NoOne]
  /\ UNCHANGED <<state, owner>>

PNext ==
  \/ \E c \in Codes : POpen(c)
  \/ \E c \in Codes, e \in Emails : PGrant(c, e)
  \/ \E c \in Codes, t \in Tokens : PExchange(c, t)
  \/ \E t \in Tokens : PRevoke(t)

PSpec == PInit /\ [][PNext]_pvars
=============================================================================
