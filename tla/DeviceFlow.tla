----------------------------- MODULE DeviceFlow -----------------------------
(***************************************************************************)
(* Browser authorization: an agent opens a device code, a person approves  *)
(* it, the agent polls until the server answers with a personal token      *)
(* (src/src/server.rs, the device_* handlers; src/src/store.rs, the tables *)
(* device_codes and api_tokens).                                           *)
(*                                                                         *)
(* Each store call takes the one connection mutex and is atomic; a handler *)
(* that makes several calls is several actions.  device_poll makes three,  *)
(* so a poll is a request with a program counter, and polls of the same    *)
(* code run side by side.  The tables survive a restart, requests do not.  *)
(***************************************************************************)
EXTENDS Naturals, FiniteSets

CONSTANTS
  Codes,      \* the codes new_device_code returns, each of them once
  Tokens,     \* the tokens new_personal_token returns, each of them once
  People,     \* the people Clerk can sign in, named by their email
  Local,      \* the email bound to a code in local mode
  Requests,   \* slots for device_poll requests in flight
  NoOne, NoCode, NoToken,
  TTL,        \* DEVICE_TTL_SECS, in ticks of the clock
  MaxClock,   \* bound: the clock stops here
  Faults      \* which faults happen: "restart", "store" (a write fails)

ASSUME Naming ==
  /\ Local \notin People /\ NoOne \notin People \cup {Local}
  /\ NoCode \notin Codes /\ NoToken \notin Tokens
  /\ People \cap Tokens = {}

ASSUME Timing == TTL \in Nat \ {0} /\ MaxClock \in Nat

VARIABLES
  clock,      \* now_ts()
  login,      \* both Clerk keys are in the environment (server mode)
  allowlist,  \* WEBO_ALLOWED_EMAILS; empty means no list
  row,        \* table device_codes: one row per code, or "none"
  holder,     \* table api_tokens: the email of each token stored, or NoOne
  poll,       \* the device_poll requests in flight
  opened,     \* history: the codes handed out by device_start
  mintedFor,  \* history: the code each token was issued for
  grants,     \* history: the approvals that were answered "ok"
  handed      \* history: the answers that carried a token to an agent

tables == <<row, holder>>
env == <<login, allowlist>>
history == <<opened, mintedFor, grants, handed>>
vars == <<clock, login, allowlist, row, holder, poll, opened, mintedFor, grants, handed>>

Emails == People \cup {Local}
Bearers == People \cup Tokens   \* a session of a person, or a personal token
NoRow == [status |-> "none", email |-> NoOne, created |-> 0]
Idle == [pc |-> "idle", code |-> NoCode, email |-> NoOne, token |-> NoToken]

-----------------------------------------------------------------------------
(* Credentials (auth.rs, server.rs) *)

Allowed(email) == allowlist = {} \/ email \in allowlist

\* A session JWT resolves to the person who signed in, if the list lets them.
SessionUser(bearer) ==
  IF bearer \in People /\ Allowed(bearer) THEN bearer ELSE NoOne

\* What the gate accepts: a stored personal token of an allowed email, or a
\* session.
CredentialEmail(bearer) ==
  IF bearer \in Tokens
  THEN IF holder[bearer] # NoOne /\ Allowed(holder[bearer]) THEN holder[bearer] ELSE NoOne
  ELSE SessionUser(bearer)

Admitted(bearer) == login => CredentialEmail(bearer) # NoOne

\* Mutant: any credential the gate accepts may approve.
ApprovingEmail_AnyCredential(bearer) == IF login THEN CredentialEmail(bearer) ELSE Local

\* device_approve wants a session, whatever the gate let through.
ApprovingEmail(bearer) == IF login THEN SessionUser(bearer) ELSE Local

-----------------------------------------------------------------------------
(* Device codes (store.rs) *)

\* Mutant: off by one, `created_at >= now - ttl`.
Fresh_OffByOne(c) == row[c].created + TTL >= clock

\* `created_at > now - ttl`
Fresh(c) == row[c].created + TTL > clock

\* Mutant: the age is looked at before the status, and read as a yes.
DeviceStatus_AgeFirst(c) == IF ~Fresh(c) THEN "approved" ELSE row[c].status

\* What device_status reports.
DeviceStatus(c) ==
  IF row[c].status = "pending" /\ ~Fresh(c) THEN "expired" ELSE row[c].status

\* Mutant: a second click approves again.
Approvable_Again(c) == row[c].status \in {"pending", "approved"} /\ Fresh(c)

\* Mutant: only the age of the code is checked, not its status.
Approvable_AnyStatus(c) == row[c].status # "none" /\ Fresh(c)

\* device_approve changes only a pending, unexpired row.
Approvable(c) == row[c].status = "pending" /\ Fresh(c)

\* device_prune(4 * TTL): `created_at <= now - 4 * ttl` goes.
Pruned(table) ==
  [c \in Codes |-> IF table[c].status # "none" /\ table[c].created + 4 * TTL <= clock
                   THEN NoRow ELSE table[c]]

-----------------------------------------------------------------------------
(* Handlers *)

\* POST /api/device/start, with the prune that follows the insert.  A random
\* code is one no one had before.
Start(c) ==
  /\ c \notin opened
  /\ row' = Pruned([row EXCEPT ![c] = [status |-> "pending", email |-> NoOne, created |-> clock]])
  /\ opened' = opened \cup {c}
  /\ UNCHANGED <<clock, env, holder, poll, mintedFor, grants, handed>>

\* Mutant: the row is updated before the session is looked at.
Approve_NoSession(bearer, c) ==
  /\ Admitted(bearer)
  /\ Approvable(c)
  /\ row' = [row EXCEPT ![c].status = "approved", ![c].email = ApprovingEmail(bearer)]
  /\ grants' = grants \cup {[code |-> c, by |-> bearer, email |-> ApprovingEmail(bearer),
                             login |-> login, age |-> clock - row[c].created]}
  /\ UNCHANGED <<clock, env, holder, poll, opened, mintedFor, handed>>

\* POST /api/device/approve by a bearer the gate let through.
Approve(bearer, c) ==
  /\ Admitted(bearer)
  /\ ApprovingEmail(bearer) # NoOne
  /\ Approvable(c)
  /\ row' = [row EXCEPT ![c].status = "approved", ![c].email = ApprovingEmail(bearer)]
  /\ grants' = grants \cup {[code |-> c, by |-> bearer, email |-> ApprovingEmail(bearer),
                             login |-> login, age |-> clock - row[c].created]}
  /\ UNCHANGED <<clock, env, holder, poll, opened, mintedFor, handed>>

\* GET /api/device/poll, first call: an approved row makes the request go on
\* with the email it read; every other status is answered and changes nothing.
PollStatus(r, c) ==
  /\ poll[r] = Idle
  /\ DeviceStatus(c) = "approved"
  /\ poll' = [poll EXCEPT ![r] = [pc |-> "approved", code |-> c, email |-> row[c].email,
                                  token |-> NoToken]]
  /\ UNCHANGED <<clock, env, tables, history>>

\* Mutant: the email of the row is lost on the way and "local" stands in for it.
PollInsert_Local(r, t) ==
  /\ poll[r].pc = "approved"
  /\ mintedFor[t] = NoCode
  /\ holder' = [holder EXCEPT ![t] = Local]
  /\ mintedFor' = [mintedFor EXCEPT ![t] = poll[r].code]
  /\ poll' = [poll EXCEPT ![r].pc = "minted", ![r].token = t]
  /\ UNCHANGED <<clock, env, row, opened, grants, handed>>

\* Second call: token_insert of a token nobody had before.
PollInsert(r, t) ==
  /\ poll[r].pc = "approved"
  /\ mintedFor[t] = NoCode
  /\ holder' = [holder EXCEPT ![t] = poll[r].email]
  /\ mintedFor' = [mintedFor EXCEPT ![t] = poll[r].code]
  /\ poll' = [poll EXCEPT ![r].pc = "minted", ![r].token = t]
  /\ UNCHANGED <<clock, env, row, opened, grants, handed>>

\* Second call fails: the agent is answered with the error.
PollInsertFails(r) ==
  /\ "store" \in Faults
  /\ poll[r].pc = "approved"
  /\ poll' = [poll EXCEPT ![r] = Idle]
  /\ UNCHANGED <<clock, env, tables, history>>

\* Mutant: the code is never marked as delivered.
PollMark_Forgotten(r) ==
  /\ poll[r].pc = "minted"
  /\ poll' = [poll EXCEPT ![r].pc = "marked"]
  /\ UNCHANGED <<clock, env, tables, history>>

\* Third call: device_mark_delivered, an UPDATE of the row if there is one.
PollMark(r) ==
  LET c == poll[r].code IN
  /\ poll[r].pc = "minted"
  /\ row' = IF row[c].status = "none" THEN row ELSE [row EXCEPT ![c].status = "delivered"]
  /\ poll' = [poll EXCEPT ![r].pc = "marked"]
  /\ UNCHANGED <<clock, env, holder, history>>

\* Third call fails: `let _ =` drops the error and the answer goes out.
PollMarkFails(r) ==
  /\ "store" \in Faults
  /\ poll[r].pc = "minted"
  /\ poll' = [poll EXCEPT ![r].pc = "marked"]
  /\ UNCHANGED <<clock, env, tables, history>>

\* The agent receives the cleartext.
PollAnswer(r) ==
  /\ poll[r].pc = "marked"
  /\ handed' = handed \cup {[code |-> poll[r].code, token |-> poll[r].token]}
  /\ poll' = [poll EXCEPT ![r] = Idle]
  /\ UNCHANGED <<clock, env, tables, opened, mintedFor, grants>>

\* DELETE /api/tokens/{hash} by anyone the gate lets through.
Revoke(bearer, t) ==
  /\ Admitted(bearer)
  /\ holder[t] # NoOne
  /\ holder' = [holder EXCEPT ![t] = NoOne]
  /\ UNCHANGED <<clock, env, row, poll, history>>

\* The process stops and starts again with the environment of the moment:
\* requests in flight are lost, the tables are not.
Restart ==
  /\ "restart" \in Faults
  /\ login' \in BOOLEAN
  /\ allowlist' \in SUBSET People
  /\ poll' = [r \in Requests |-> Idle]
  /\ UNCHANGED <<clock, tables, history>>

Tick ==
  /\ clock < MaxClock
  /\ clock' = clock + 1
  /\ UNCHANGED <<env, tables, poll, history>>

-----------------------------------------------------------------------------

Init ==
  /\ clock = 0
  /\ login \in BOOLEAN
  /\ allowlist \in SUBSET People
  /\ row = [c \in Codes |-> NoRow]
  /\ holder = [t \in Tokens |-> NoOne]
  /\ poll = [r \in Requests |-> Idle]
  /\ opened = {}
  /\ mintedFor = [t \in Tokens |-> NoCode]
  /\ grants = {}
  /\ handed = {}

Poll(r) ==
  \/ \E c \in Codes : PollStatus(r, c)
  \/ \E t \in Tokens : PollInsert(r, t)
  \/ PollInsertFails(r)
  \/ PollMark(r)
  \/ PollMarkFails(r)
  \/ PollAnswer(r)

Next ==
  \/ \E c \in Codes : Start(c)
  \/ \E b \in Bearers, c \in Codes : Approve(b, c)
  \/ \E r \in Requests : Poll(r)
  \/ \E b \in Bearers, t \in Tokens : Revoke(b, t)
  \/ Restart
  \/ Tick

Spec == Init /\ [][Next]_vars

\* The agent polls every `interval` seconds, and a request that started is
\* served to its end by the runtime.  People need not do anything.
Fairness ==
  /\ \A r \in Requests, c \in Codes : WF_vars(PollStatus(r, c))
  /\ \A r \in Requests : WF_vars(\E t \in Tokens : PollInsert(r, t))
  /\ \A r \in Requests : WF_vars(PollMark(r))
  /\ \A r \in Requests : WF_vars(PollAnswer(r))

FairSpec == Spec /\ Fairness

-----------------------------------------------------------------------------
(* Properties *)

GrantsOf(c) == {g \in grants : g.code = c}
TokensOf(c) == {t \in Tokens : mintedFor[t] = c}

Rows ==
  [status : {"none", "pending", "approved", "delivered"}, email : Emails \cup {NoOne},
   created : 0..MaxClock]
Polls ==
  [pc : {"idle", "approved", "minted", "marked"}, code : Codes \cup {NoCode},
   email : Emails \cup {NoOne}, token : Tokens \cup {NoToken}]
Grants ==
  [code : Codes, by : Bearers, email : Emails, login : BOOLEAN, age : Nat]

\* The types of the tables, the requests and the history.
TypeOK ==
  /\ clock \in 0..MaxClock
  /\ login \in BOOLEAN
  /\ allowlist \in SUBSET People
  /\ row \in [Codes -> Rows]
  /\ holder \in [Tokens -> Emails \cup {NoOne}]
  /\ poll \in [Requests -> Polls]
  /\ opened \in SUBSET Codes
  /\ mintedFor \in [Tokens -> Codes \cup {NoCode}]
  /\ grants \in SUBSET Grants
  /\ handed \in SUBSET [code : Codes, token : Tokens]

\* "Approving twice, or approving something already delivered, does nothing
\* and says so": of all the people who click authorize on one code, at most
\* one is ever told "ok" (store.rs, device_approve).
OneApproval ==
  \A g, h \in grants : g.code = h.code => g = h

\* A token carries the email of the session that approved its code, however
\* many polls, revocations and restarts lie between the click and the insert
\* (server.rs, device_poll: the email was read two store calls earlier).
TokenIsItsApprovers ==
  \A t \in Tokens : holder[t] # NoOne =>
    \E g \in grants : g.code = mintedFor[t] /\ g.email = holder[t]

\* A code abandoned for longer than its life is worth nothing: no token comes
\* from an approval given TTL or more after the code was opened, even while
\* the expired row waits for the prune (auth.rs, DEVICE_TTL_SECS).
MintedFromTimelyApproval ==
  \A t \in Tokens : mintedFor[t] # NoCode =>
    \E g \in grants : g.code = mintedFor[t] /\ g.age < TTL

\* "A personal token must not be able to mint another one": behind every token
\* issued under login there is a person's session, never a token
\* (server.rs, device_approve).
NoTokenMintsAToken ==
  \A t \in Tokens : mintedFor[t] # NoCode =>
    \E g \in grants : g.code = mintedFor[t] /\ (g.login => g.by \in People)

\* A code whose delivery was recorded is spent for good: nothing a person, an
\* agent, a restart or the clock does makes it approvable or approved again
\* (store.rs, device_approve and device_prune).
SpentStaysSpent ==
  [][\A c \in Codes :
       (c \in opened /\ row[c].status \in {"delivered", "none"})
         => row'[c].status \in {"delivered", "none"}]_vars

\* "The token is handed over exactly once": no code puts two tokens into the
\* hands of agents (store.rs, device_mark_delivered).
HandedOverOnce ==
  \A a, b \in handed : a.code = b.code => a = b

\* Everything that says "approved" leads back to an approval: the row, the
\* email a poll carries from its first call to its last, and the token; and a
\* code still pending, or never opened, has none behind it.  What an agent is
\* handed is the token minted for its own code (device_approve, device_poll).
GrantTrail ==
  /\ \A g \in grants : g.code \in opened /\ row[g.code].status # "pending"
  /\ \A c \in Codes : row[c].status = "approved" =>
       \E g \in grants : g.code = c /\ g.email = row[c].email
  /\ \A r \in Requests : poll[r].pc # "idle" =>
       \E g \in grants : g.code = poll[r].code /\ g.email = poll[r].email
  /\ \A r \in Requests : poll[r].pc \in {"minted", "marked"} =>
       poll[r].token \in Tokens /\ mintedFor[poll[r].token] = poll[r].code
  /\ \A h \in handed : mintedFor[h.token] = h.code
  /\ \A t \in Tokens : mintedFor[t] # NoCode =>
       \E g \in grants : g.code = mintedFor[t] /\ holder[t] \in {g.email, NoOne}

\* What the grants promise as a whole: one approval a code, in time, by a person's
\* session where a login is granted, and a token only of its own code's approver
\* (device_start, device_approve, device_poll).
GrantsAreSound ==
  /\ OneApproval
  /\ TokenIsItsApprovers
  /\ MintedFromTimelyApproval
  /\ NoTokenMintsAToken
  /\ GrantTrail

\* Every approved code that the agent keeps polling is handed over, unless the
\* prune took it first.
ApprovedIsDelivered ==
  \A c \in Codes : (row[c].status = "approved") ~> (row[c].status \in {"delivered", "none"})
\* The inductive invariant: the types, the trail, and what the code's guards
\* leave in each approval.
IInv ==
  /\ TypeOK
  /\ GrantTrail
  /\ OneApproval
  /\ \A c \in Codes : row[c].created <= clock /\ (c \notin opened => row[c].status = "none")
  /\ \A g \in grants : g.age < TTL /\ (g.login => g.by \in People)
  /\ \A t \in Tokens : mintedFor[t] = NoCode => holder[t] = NoOne

-----------------------------------------------------------------------------
(* Refinement of Handover: a code is exchanged when its token is inserted.   *)

CodeState(c) ==
  IF c \notin opened THEN "unopened"
  ELSE IF GrantsOf(c) = {} THEN "open"
  ELSE IF TokensOf(c) = {} THEN "granted" ELSE "spent"

OwnerOf(c) ==
  IF GrantsOf(c) = {} THEN NoOne ELSE (CHOOSE g \in GrantsOf(c) : TRUE).email

Promise == INSTANCE Handover WITH
  state <- [c \in Codes |-> CodeState(c)],
  owner <- [c \in Codes |-> OwnerOf(c)],
  bearerOf <- holder

\* The flow keeps the promise of Handover (RUNBOOK.md, "the polling agent gets
\* the token exactly once").
KeepsThePromise == Promise!PSpec
=============================================================================
