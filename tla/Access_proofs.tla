--------------------------- MODULE Access_proofs ---------------------------
(***************************************************************************)
(* Who is let in and what they then do (src/src/auth.rs, src/src/mcp.rs,   *)
(* src/src/server.rs): the device flow and its tokens, the sessions of the *)
(* panel, the calls of an agent, and the console over a project's data.    *)
(* One inductive invariant for each of the four, the hazards of each in    *)
(* the comment that opens its part; the four share no state.               *)
(***************************************************************************)
EXTENDS DeviceFlow, Sessions, Agent, Console, Lists_proofs, FiniteSetTheorems

-----------------------------------------------------------------------------
(***************************************************************************)
(* The device flow                                                         *)
(* The safety of DeviceFlow for every number of codes, tokens, people,     *)
(* concurrent polls and faults, and for every TTL.  IInv is inductive:     *)
(* the properties that speak of tokens need the email a poll carries       *)
(* between its store calls, which GrantTrail ties to the approval it       *)
(* came from.                                                              *)
(***************************************************************************)

\* The initial tables are empty and no request is in flight.
LEMMA InitIInv == Init => IInv
  <1> SUFFICES ASSUME Init PROVE IInv
    OBVIOUS
  <1>1. TypeOK
    BY Timing DEF Init, TypeOK, NoRow, Idle, Rows, Polls, Emails
  <1>2. GrantTrail /\ OneApproval
    BY DEF Init, GrantTrail, OneApproval, NoRow, Idle
  <1> QED
    BY <1>1, <1>2 DEF Init, IInv, NoRow

\* Pruning keeps the shape of the table and only ever empties rows.
LEMMA PrunedRows ==
  ASSUME TypeOK, NEW table \in [Codes -> Rows]
  PROVE  /\ Pruned(table) \in [Codes -> Rows]
         /\ \A c \in Codes : Pruned(table)[c] = table[c] \/ Pruned(table)[c] = NoRow
  BY Timing DEF Pruned, TypeOK, Rows, NoRow

\* device_start: a code nobody had has no approval behind it.
LEMMA StartIInv == ASSUME IInv, NEW c \in Codes, Start(c) PROVE IInv'
  <1> DEFINE fresh == [status |-> "pending", email |-> NoOne, created |-> clock]
             table == [row EXCEPT ![c] = fresh]
  <1>1. table \in [Codes -> Rows]
    BY DEF IInv, TypeOK, Rows
  <1>2. row' = Pruned(table)
    BY DEF Start
  <1>3. /\ row' \in [Codes -> Rows]
        /\ \A d \in Codes : row'[d] = table[d] \/ row'[d] = NoRow
    BY <1>1, <1>2, PrunedRows DEF IInv
  <1> HIDE DEF table, fresh
  <1>4. TypeOK'
    BY <1>3 DEF IInv, TypeOK, Start, env
  <1>5. \A d \in Codes : d # c => row'[d] = row[d] \/ row'[d] = NoRow
    BY <1>3 DEF table, IInv, TypeOK
  <1>6. \A g \in grants : g.code # c /\ g.code \in Codes
    BY DEF Start, IInv, GrantTrail, TypeOK, Grants
  <1>7. row'[c].status \in {"pending", "none"}
    BY <1>3 DEF table, fresh, IInv, TypeOK, NoRow
  <1>8. /\ opened' = opened \cup {c}
        /\ UNCHANGED <<clock, env, holder, poll, mintedFor, grants, handed>>
    BY DEF Start
  <1>9. GrantTrail'
    <2>1. \A g \in grants : g.code \in opened' /\ row'[g.code].status # "pending"
      BY <1>5, <1>6, <1>8 DEF IInv, GrantTrail, NoRow
    <2>2. \A d \in Codes : row'[d].status = "approved" =>
            \E g \in grants : g.code = d /\ g.email = row'[d].email
      BY <1>5, <1>7 DEF IInv, GrantTrail, NoRow
    <2> QED
      BY <1>8, <2>1, <2>2 DEF IInv, GrantTrail
  <1>10. \A d \in Codes : row'[d].created <= clock
    BY <1>3, <1>5 DEF table, fresh, IInv, TypeOK, NoRow
  <1>11. \A d \in Codes : d \notin opened' => row'[d].status = "none"
    BY <1>5, <1>8 DEF IInv, NoRow
  <1> QED
    BY <1>4, <1>8, <1>9, <1>10, <1>11 DEF IInv, OneApproval

\* device_approve: only a pending row, hence only a code without an approval.
LEMMA ApproveIInv ==
  ASSUME IInv, NEW b \in Bearers, NEW c \in Codes, Approve(b, c) PROVE IInv'
  <1> DEFINE g0 == [code |-> c, by |-> b, email |-> ApprovingEmail(b),
                    login |-> login, age |-> clock - row[c].created]
  <1>1. /\ row[c].status = "pending" /\ row[c].created \in 0..MaxClock /\ c \in opened
        /\ row[c].created + TTL > clock
    BY DEF Approve, Approvable, Fresh, IInv, TypeOK, Rows
  <1>2. ApprovingEmail(b) \in Emails /\ (login => b \in People)
    BY Naming DEF Approve, ApprovingEmail, SessionUser, Emails
  <1>3. row' = [row EXCEPT ![c].status = "approved", ![c].email = ApprovingEmail(b)]
    BY DEF Approve
  <1>4. /\ row'[c].status = "approved" /\ row'[c].email = ApprovingEmail(b)
        /\ \A d \in Codes : d # c => row'[d] = row[d]
        /\ row' \in [Codes -> Rows]
    BY <1>2, <1>3 DEF IInv, TypeOK, Rows
  <1>5. clock - row[c].created \in Nat /\ clock - row[c].created < TTL
    BY <1>1, Timing DEF IInv, TypeOK
  <1>6. g0 \in Grants
    BY <1>2, <1>5 DEF Grants, IInv, TypeOK
  <1>7. /\ grants' = grants \cup {g0}
        /\ UNCHANGED <<clock, env, holder, poll, opened, mintedFor, handed>>
    BY DEF Approve
  <1>8. \A g \in grants : g.code # c /\ g.code \in Codes
    BY <1>1 DEF IInv, GrantTrail, TypeOK, Grants
  <1>9. /\ g0.code = c /\ g0.email = ApprovingEmail(b)
        /\ g0.age < TTL /\ (g0.login => g0.by \in People)
    BY <1>2, <1>5
  <1> HIDE DEF g0
  <1>10. TypeOK'
    BY <1>4, <1>6, <1>7 DEF IInv, TypeOK, env
  <1>11. GrantTrail'
    BY <1>1, <1>4, <1>7, <1>8, <1>9 DEF IInv, GrantTrail
  <1>12. OneApproval'
    BY <1>7, <1>8, <1>9 DEF IInv, OneApproval
  <1>13. \A d \in Codes : row'[d].created <= clock' /\ (d \notin opened' => row'[d].status = "none")
    <2>1. row'[c].created = row[c].created
      BY <1>3 DEF IInv, TypeOK, Rows
    <2> QED
      BY <1>1, <1>4, <1>7, <2>1 DEF IInv
  <1> QED
    BY <1>7, <1>9, <1>10, <1>11, <1>12, <1>13 DEF IInv

\* device_poll: the request copies the email of an approved row, stores it with
\* the token, and marks the row; a failed call changes less.
LEMMA PollIInv == ASSUME IInv, NEW r \in Requests, Poll(r) PROVE IInv'
  <1> USE DEF IInv, env, tables, history
  <1>1. ASSUME NEW c \in Codes, PollStatus(r, c) PROVE IInv'
    <2>1. row[c].status = "approved" /\ row[c] \in Rows
      BY <1>1 DEF PollStatus, DeviceStatus, TypeOK
    <2>2. poll' \in [Requests -> Polls]
      BY <1>1, <2>1 DEF PollStatus, TypeOK, Polls, Rows
    <2>3. TypeOK'
      BY <1>1, <2>2 DEF PollStatus, TypeOK
    <2>4. \A q \in Requests : poll'[q].pc # "idle" =>
            \E g \in grants : g.code = poll'[q].code /\ g.email = poll'[q].email
      BY <1>1, <2>1 DEF PollStatus, GrantTrail, TypeOK
    <2> QED
      BY <1>1, <2>3, <2>4 DEF PollStatus, GrantTrail, OneApproval
  <1>2. ASSUME NEW t \in Tokens, PollInsert(r, t) PROVE IInv'
    <2>1. /\ poll[r] \in Polls /\ poll[r].pc = "approved" /\ mintedFor[t] = NoCode
          /\ \E g \in grants : g.code = poll[r].code /\ g.email = poll[r].email
      BY <1>2 DEF PollInsert, TypeOK, GrantTrail
    <2>2. PICK g \in grants : g.code = poll[r].code /\ g.email = poll[r].email
      BY <2>1
    <2>3. g.code \in Codes /\ g.email \in Emails
      BY DEF TypeOK, Grants
    <2>4. /\ holder' = [holder EXCEPT ![t] = g.email]
          /\ mintedFor' = [mintedFor EXCEPT ![t] = g.code]
          /\ poll' = [poll EXCEPT ![r].pc = "minted", ![r].token = t]
          /\ UNCHANGED <<clock, env, row, opened, grants, handed>>
      BY <1>2, <2>2 DEF PollInsert
    <2>5. /\ poll'[r] = [pc |-> "minted", code |-> poll[r].code, email |-> poll[r].email,
                         token |-> t]
          /\ \A q \in Requests : q # r => poll'[q] = poll[q]
          /\ poll' \in [Requests -> Polls]
      BY <2>1, <2>4 DEF TypeOK, Polls
    <2>6. TypeOK'
      BY <2>3, <2>4, <2>5 DEF TypeOK
    <2>7. \A u \in Tokens : mintedFor[u] # NoCode => mintedFor'[u] = mintedFor[u]
      BY <1>2, <2>4 DEF PollInsert, TypeOK
    <2>8. \A q \in Requests : q # r /\ poll[q].pc \in {"minted", "marked"} =>
            mintedFor'[poll[q].token] = mintedFor[poll[q].token]
      BY <2>7, Naming DEF GrantTrail, TypeOK, Grants
    <2>9. \A h \in handed : mintedFor'[h.token] = h.code
      BY <2>7, Naming DEF GrantTrail, TypeOK
    <2>10. GrantTrail'
      <3>1. \A q \in Requests : poll'[q].pc # "idle" =>
              \E h \in grants' : h.code = poll'[q].code /\ h.email = poll'[q].email
        BY <2>2, <2>4, <2>5 DEF GrantTrail
      <3>2. \A q \in Requests : poll'[q].pc \in {"minted", "marked"} =>
              poll'[q].token \in Tokens /\ mintedFor'[poll'[q].token] = poll'[q].code
        <4>1. mintedFor'[t] = poll[r].code
          BY <2>2, <2>4 DEF TypeOK
        <4> QED
          BY <2>5, <2>8, <4>1 DEF GrantTrail
      <3>3. \A u \in Tokens : mintedFor'[u] # NoCode =>
              \E h \in grants' : h.code = mintedFor'[u] /\ holder'[u] \in {h.email, NoOne}
        BY <2>4 DEF GrantTrail, TypeOK
      <3>4. /\ \A h \in grants' : h.code \in opened' /\ row'[h.code].status # "pending"
            /\ \A c \in Codes : row'[c].status = "approved" =>
                 \E h \in grants' : h.code = c /\ h.email = row'[c].email
            /\ \A h \in handed' : mintedFor'[h.token] = h.code
        BY <2>4, <2>9 DEF GrantTrail
      <3> HIDE DEF IInv
      <3> QED
        BY <3>1, <3>2, <3>3, <3>4 DEF GrantTrail
    <2> QED
      BY <2>3, <2>4, <2>6, <2>10, Naming DEF OneApproval, TypeOK
  <1>3. CASE PollInsertFails(r)
    BY <1>3 DEF PollInsertFails, TypeOK, GrantTrail, OneApproval, Polls, Idle
  <1>4. CASE PollMark(r)
    <2> DEFINE c == poll[r].code
    <2>1. poll[r] \in Polls /\ poll[r].pc = "minted"
      BY <1>4 DEF PollMark, TypeOK
    <2>2. c \in Codes
      BY <2>1 DEF GrantTrail, TypeOK, Grants
    <2>3. /\ row' \in [Codes -> Rows]
          /\ \A d \in Codes : /\ row'[d].created = row[d].created
                              /\ row'[d].email = row[d].email
                              /\ row'[d].status # row[d].status =>
                                   row'[d].status = "delivered" /\ row[d].status # "none"
      BY <1>4, <2>2 DEF PollMark, TypeOK, Rows
    <2>4. /\ poll' = [poll EXCEPT ![r].pc = "marked"]
          /\ UNCHANGED <<clock, env, holder, history>>
      BY <1>4 DEF PollMark
    <2>5. TypeOK'
      BY <2>3, <2>4 DEF TypeOK, Polls
    <2>6. \A q \in Requests :
            /\ poll'[q].code = poll[q].code /\ poll'[q].email = poll[q].email
            /\ poll'[q].token = poll[q].token
            /\ poll'[q].pc # "idle" => poll[q].pc # "idle"
            /\ poll'[q].pc \in {"minted", "marked"} => poll[q].pc \in {"minted", "marked"}
      BY <2>1, <2>4 DEF TypeOK, Polls
    <2>7. GrantTrail'
      BY <2>3, <2>4, <2>6 DEF GrantTrail, TypeOK, Grants
    <2> QED
      BY <2>3, <2>4, <2>5, <2>7 DEF OneApproval
  <1>5. CASE PollMarkFails(r)
    BY <1>5 DEF PollMarkFails, TypeOK, GrantTrail, OneApproval, Polls
  <1>6. CASE PollAnswer(r)
    <2>1. poll[r] \in Polls /\ poll[r].pc = "marked"
      BY <1>6 DEF PollAnswer, TypeOK
    <2>2. /\ poll[r].code \in Codes /\ poll[r].token \in Tokens
          /\ mintedFor[poll[r].token] = poll[r].code
      BY <2>1 DEF GrantTrail, TypeOK, Grants
    <2> QED
      BY <1>6, <2>1, <2>2 DEF PollAnswer, TypeOK, GrantTrail, OneApproval, Polls, Idle
  <1> QED
    BY <1>1, <1>2, <1>3, <1>4, <1>5, <1>6 DEF Poll

\* Revoking, restarting and the clock approve nothing.
LEMMA OthersIInv ==
  ASSUME IInv,
         \/ \E b \in Bearers, t \in Tokens : Revoke(b, t)
         \/ Restart
         \/ Tick
         \/ UNCHANGED vars
  PROVE  IInv'
  <1> USE DEF IInv, env, tables, history
  <1>1. ASSUME NEW b \in Bearers, NEW t \in Tokens, Revoke(b, t) PROVE IInv'
    BY <1>1 DEF Revoke, TypeOK, GrantTrail, OneApproval
  <1>2. CASE Restart
    BY <1>2 DEF Restart, TypeOK, GrantTrail, OneApproval, Idle, Polls
  <1>3. CASE Tick
    BY <1>3, Timing DEF Tick, TypeOK, GrantTrail, OneApproval, Rows
  <1>4. CASE UNCHANGED vars
    BY <1>4 DEF vars, TypeOK, GrantTrail, OneApproval
  <1> QED
    BY <1>1, <1>2, <1>3, <1>4

LEMMA NextIInv == IInv /\ [Next]_vars => IInv'
  BY StartIInv, ApproveIInv, PollIInv, OthersIInv DEF Next

\* The invariant holds in every reachable state, whatever the constants.
THEOREM Invariance == Spec => []IInv
  <1> QED
    BY InitIInv, NextIInv, PTL DEF Spec

\* The tables, the requests in flight and the history keep their types.
THEOREM TypeCorrect == Spec => []TypeOK
  <1>1. IInv => TypeOK
    BY DEF IInv
  <1> QED
    BY <1>1, Invariance, PTL

\* At most one person is ever told that they authorized a given code.
THEOREM ApprovedOnce == Spec => []OneApproval
  <1>1. IInv => OneApproval
    BY DEF IInv
  <1> QED
    BY <1>1, Invariance, PTL

\* A token carries the email of the approval of its own code, for any number
\* of concurrent polls, revocations and restarts.
THEOREM TokenCarriesItsApprover == Spec => []TokenIsItsApprovers
  <1>1. IInv => TokenIsItsApprovers
    BY Naming DEF IInv, GrantTrail, TokenIsItsApprovers
  <1> QED
    BY <1>1, Invariance, PTL

\* No token comes from an approval given past the life of the code.
THEOREM TimelyApproval == Spec => []MintedFromTimelyApproval
  <1>1. IInv => MintedFromTimelyApproval
    BY DEF IInv, GrantTrail, MintedFromTimelyApproval
  <1> QED
    BY <1>1, Invariance, PTL

\* Behind every token issued under login there is a person's session.
THEOREM SessionsMintTokens == Spec => []NoTokenMintsAToken
  <1>1. IInv => NoTokenMintsAToken
    BY DEF IInv, GrantTrail, NoTokenMintsAToken
  <1> QED
    BY <1>1, Invariance, PTL

\* What the grants promise holds as a whole, for any number of everything.
THEOREM SoundGrants == Spec => []GrantsAreSound
  <1>1. IInv => GrantTrail
    BY DEF IInv
  <1> QED
    BY <1>1, Invariance, ApprovedOnce, TokenCarriesItsApprover, TimelyApproval,
       SessionsMintTokens, PTL DEF GrantsAreSound

\* A code handed out whose delivery was recorded, or that was pruned.
Gone(c) == c \in opened /\ row[c].status \in {"delivered", "none"}

\* Only device_start and device_approve lead back, and neither applies.
LEMMA GoneStays ==
  ASSUME IInv, NEW c \in Codes, Gone(c), [Next]_vars
  PROVE  Gone(c)'
  <1> DEFINE StaysSpent(x) == row'[x].status \in {"delivered", "none"}
  <1> USE DEF IInv, TypeOK, env, tables, history, Gone
  <1>1. ASSUME NEW d \in Codes, Start(d) PROVE StaysSpent(c)
    <2> DEFINE table == [row EXCEPT ![d] = [status |-> "pending", email |-> NoOne,
                                             created |-> clock]]
    <2>1. d # c /\ row' = Pruned(table)
      BY <1>1 DEF Start
    <2>2. table[c] = row[c]
      BY <2>1
    <2> QED
      BY <2>1, <2>2 DEF Pruned, NoRow
  <1>2. ASSUME NEW b \in Bearers, NEW d \in Codes, Approve(b, d) PROVE StaysSpent(c)
    <2>1. d # c
      BY <1>2 DEF Approve, Approvable
    <2> QED
      BY <1>2, <2>1 DEF Approve
  <1>3. ASSUME NEW r \in Requests, Poll(r) PROVE StaysSpent(c)
    <2>1. CASE PollMark(r)
      BY <2>1 DEF PollMark, Rows
    <2>2. CASE UNCHANGED row
      BY <2>2
    <2> QED
      BY <1>3, <2>1, <2>2 DEF Poll, PollStatus, PollInsert, PollInsertFails, PollMarkFails,
                              PollAnswer
  <1>4. ASSUME UNCHANGED row PROVE StaysSpent(c)
    BY <1>4
  <1>5. StaysSpent(c)
    BY <1>1, <1>2, <1>3, <1>4 DEF Next, Revoke, Restart, Tick, vars
  <1>6. opened \subseteq opened'
    BY DEF Next, Start, Approve, Poll, PollStatus, PollInsert, PollInsertFails, PollMark,
           PollMarkFails, PollAnswer, Revoke, Restart, Tick, vars
  <1> QED
    BY <1>5, <1>6

\* A code whose delivery was recorded, or that was pruned, is never approvable
\* again, whatever the agents, the people, a restart or the clock do.
THEOREM SpentForGood == Spec => SpentStaysSpent
  <1>1. IInv /\ [Next]_vars => [\A c \in Codes : Gone(c) => Gone(c)']_vars
    BY GoneStays
  <1>2. [\A c \in Codes : Gone(c) => Gone(c)']_vars
          => [\A c \in Codes : (c \in opened /\ row[c].status \in {"delivered", "none"})
                => row'[c].status \in {"delivered", "none"}]_vars
    BY DEF Gone
  <1> QED
    BY <1>1, <1>2, Invariance, PTL DEF Spec, SpentStaysSpent

-----------------------------------------------------------------------------
(* One poll at a time keeps the promise of Handover.                        *)

OnePoll == \A q, r \in Requests : q = r

\* A code with a token is delivered, or pruned, or the poll that got the token
\* is about to mark it; and a poll that is yet to insert finds none.
TokenIsMarked ==
  \A c \in Codes : TokensOf(c) # {} =>
    \/ row[c].status \in {"delivered", "none"}
    \/ \E r \in Requests : poll[r].pc = "minted" /\ poll[r].code = c

NoTokenYet == \A r \in Requests : poll[r].pc = "approved" => TokensOf(poll[r].code) = {}

SoleInv == IInv /\ TokenIsMarked /\ NoTokenYet

\* A code that nobody has approved has no token, nor one yet unopened an approval.
LEMMA TrailBack ==
  ASSUME IInv, NEW c \in Codes
  PROVE  /\ TokensOf(c) # {} => GrantsOf(c) # {}
         /\ GrantsOf(c) # {} => c \in opened /\ row[c].status # "pending"
  <1>1. ASSUME NEW t \in TokensOf(c) PROVE GrantsOf(c) # {}
    BY Naming DEF TokensOf, GrantsOf, IInv, GrantTrail
  <1> QED
    BY <1>1 DEF GrantsOf, IInv, GrantTrail

LEMMA SoleInit == Init => SoleInv
  <1> SUFFICES ASSUME Init PROVE SoleInv
    OBVIOUS
  <1>1. \A c \in Codes : TokensOf(c) = {}
    BY Naming DEF Init, TokensOf
  <1> QED
    BY <1>1, InitIInv DEF SoleInv, TokenIsMarked, NoTokenYet, Init, Idle

\* What neither mints nor moves a poll, and approves only codes without a token.
LEMMA QuietSole ==
  ASSUME SoleInv, UNCHANGED <<mintedFor, poll>>,
         \A c \in Codes : TokensOf(c) # {} => row'[c].status \in {row[c].status, "none"}
  PROVE  TokenIsMarked' /\ NoTokenYet'
  <1>1. \A c \in Codes : TokensOf(c)' = TokensOf(c)
    BY DEF TokensOf
  <1>2. NoTokenYet'
    BY DEF SoleInv, NoTokenYet, TokensOf
  <1>3. TokenIsMarked'
    BY <1>1 DEF SoleInv, TokenIsMarked
  <1> QED
    BY <1>2, <1>3

LEMMA PollSole ==
  ASSUME SoleInv, OnePoll, Faults = {}, NEW r \in Requests, Poll(r)
  PROVE  TokenIsMarked' /\ NoTokenYet'
  <1> USE DEF tables, history
  <1>1. poll \in [Requests -> Polls] /\ \A q \in Requests : q = r
    BY DEF SoleInv, IInv, TypeOK, OnePoll
  <1>2. ASSUME NEW c \in Codes, PollStatus(r, c) PROVE TokenIsMarked' /\ NoTokenYet'
    <2>1. /\ poll[r] = Idle /\ row[c].status = "approved"
          /\ poll'[r].pc = "approved" /\ poll'[r].code = c
          /\ UNCHANGED <<row, mintedFor>>
      BY <1>1, <1>2 DEF PollStatus, DeviceStatus
    <2>2. \A d \in Codes : TokensOf(d)' = TokensOf(d)
      BY <2>1 DEF TokensOf
    <2>3. \A d \in Codes : TokensOf(d) # {} => row[d].status \in {"delivered", "none"}
      BY <1>1, <2>1 DEF SoleInv, TokenIsMarked, Idle
    <2> QED
      BY <1>1, <2>1, <2>2, <2>3 DEF TokenIsMarked, NoTokenYet, TokensOf
  <1>3. ASSUME NEW t \in Tokens, PollInsert(r, t) PROVE TokenIsMarked' /\ NoTokenYet'
    <2>1. /\ poll[r].pc = "approved" /\ mintedFor' = [mintedFor EXCEPT ![t] = poll[r].code]
          /\ poll'[r].pc = "minted" /\ poll'[r].code = poll[r].code /\ UNCHANGED row
      BY <1>1, <1>3 DEF PollInsert, Polls
    <2>2. \A d \in Codes : d # poll[r].code => TokensOf(d)' \subseteq TokensOf(d)
      BY <2>1 DEF TokensOf, SoleInv, IInv, TypeOK
    <2>3. \A d \in Codes : TokensOf(d) # {} => row[d].status \in {"delivered", "none"}
      BY <1>1, <2>1 DEF SoleInv, TokenIsMarked
    <2> QED
      BY <1>1, <2>1, <2>2, <2>3 DEF TokenIsMarked, NoTokenYet
  <1>4. CASE PollMark(r)
    <2>1. /\ poll[r].pc = "minted" /\ poll'[r].pc = "marked" /\ UNCHANGED mintedFor
          /\ \A d \in Codes : row'[d] = row[d] \/ row'[d].status = "delivered"
          /\ poll[r].code \in Codes => row'[poll[r].code].status \in {"delivered", "none"}
      BY <1>1, <1>4 DEF PollMark, Polls, SoleInv, IInv, TypeOK, Rows
    <2>2. \A d \in Codes : TokensOf(d)' = TokensOf(d)
      BY <2>1 DEF TokensOf
    <2> QED
      BY <1>1, <2>1, <2>2 DEF SoleInv, TokenIsMarked, NoTokenYet
  <1>5. CASE PollAnswer(r)
    <2>1. poll[r].pc = "marked" /\ poll'[r].pc = "idle" /\ UNCHANGED <<row, mintedFor>>
      BY <1>1, <1>5 DEF PollAnswer, Idle
    <2>2. \A d \in Codes : TokensOf(d)' = TokensOf(d)
      BY <2>1 DEF TokensOf
    <2> QED
      BY <1>1, <2>1, <2>2 DEF SoleInv, TokenIsMarked, NoTokenYet
  <1> QED
    BY <1>2, <1>3, <1>4, <1>5 DEF Poll, PollInsertFails, PollMarkFails

LEMMA SoleNext == SoleInv /\ OnePoll /\ Faults = {} /\ [Next]_vars => SoleInv'
  <1> SUFFICES ASSUME SoleInv, OnePoll, Faults = {}, [Next]_vars PROVE SoleInv'
    OBVIOUS
  <1> USE DEF tables, history, env
  <1>1. IInv'
    BY NextIInv DEF SoleInv
  <1>2. ASSUME NEW c \in Codes, Start(c) PROVE TokenIsMarked' /\ NoTokenYet'
    <2>1. TokensOf(c) = {}
      BY <1>2, TrailBack DEF Start, SoleInv
    <2>2. \A d \in Codes : d # c => row'[d].status \in {row[d].status, "none"}
      BY <1>2 DEF Start, Pruned, NoRow, SoleInv, IInv, TypeOK
    <2> QED
      BY <1>2, <2>1, <2>2, QuietSole DEF Start
  <1>3. ASSUME NEW b \in Bearers, NEW c \in Codes, Approve(b, c) PROVE TokenIsMarked' /\ NoTokenYet'
    <2>1. TokensOf(c) = {}
      BY <1>3, TrailBack DEF Approve, Approvable, SoleInv
    <2>2. \A d \in Codes : d # c => row'[d].status = row[d].status
      BY <1>3 DEF Approve, SoleInv, IInv, TypeOK
    <2> QED
      BY <1>3, <2>1, <2>2, QuietSole DEF Approve
  <1>4. ASSUME NEW r \in Requests, Poll(r) PROVE TokenIsMarked' /\ NoTokenYet'
    BY <1>4, PollSole
  <1>5. ASSUME UNCHANGED <<row, poll, mintedFor>> PROVE TokenIsMarked' /\ NoTokenYet'
    BY <1>5, QuietSole
  <1>6. ~Restart
    BY DEF Restart
  <1> QED
    BY <1>1, <1>2, <1>3, <1>4, <1>5, <1>6 DEF Next, SoleInv, Revoke, Tick, vars

\* The owner of a code is the email of its one approval, before a step and after.
OwnersKnown == \A c \in Codes : \A g \in GrantsOf(c) : OwnerOf(c) = g.email

LEMMA OwnerIs == IInv => OwnersKnown
  <1> SUFFICES ASSUME IInv, NEW c \in Codes, NEW g \in GrantsOf(c) PROVE OwnerOf(c) = g.email
    BY DEF OwnersKnown
  <1>1. \A h \in GrantsOf(c) : h = g
    BY DEF IInv, OneApproval, GrantsOf
  <1>2. (CHOOSE h \in GrantsOf(c) : TRUE) \in GrantsOf(c)
    OBVIOUS
  <1> QED
    BY <1>1, <1>2 DEF OwnerOf

LEMMA OwnerIsNext == IInv' => OwnersKnown'
  BY OwnerIs, PTL

\* The state and the owner of every code, as the promise sees them.
States == [c \in Codes |-> CodeState(c)]
Owners == [c \in Codes |-> OwnerOf(c)]

LEMMA Values ==
  ASSUME NEW c \in Codes
  PROVE  /\ States[c] = CodeState(c) /\ States'[c] = CodeState(c)'
         /\ Owners[c] = OwnerOf(c) /\ Owners'[c] = OwnerOf(c)'
  BY DEF States, Owners

LEMMA Shapes ==
  /\ States = [c \in Codes |-> States[c]] /\ States' = [c \in Codes |-> States'[c]]
  /\ Owners = [c \in Codes |-> Owners[c]] /\ Owners' = [c \in Codes |-> Owners'[c]]
  BY DEF States, Owners

\* A code whose approvals stay keeps its owner; with its tokens and whether it
\* was handed out too, it keeps its state.
LEMMA CodeStands ==
  ASSUME IInv, IInv', NEW c \in Codes, GrantsOf(c)' = GrantsOf(c)
  PROVE  /\ Owners'[c] = Owners[c]
         /\ (c \in opened' <=> c \in opened) /\ (TokensOf(c)' = {} <=> TokensOf(c) = {})
              => States'[c] = States[c]
  <1>1. OwnersKnown /\ OwnersKnown'
    BY OwnerIs, OwnerIsNext
  <1>2. CASE GrantsOf(c) = {}
    BY <1>2, Values DEF OwnerOf, CodeState
  <1>3. ASSUME NEW g \in GrantsOf(c) PROVE OwnerOf(c)' = OwnerOf(c)
    BY <1>1, <1>3 DEF OwnersKnown
  <1> QED
    BY <1>2, <1>3, Values DEF CodeState

LEMMA InitPromise == Init => Promise!PInit
  <1> SUFFICES ASSUME Init PROVE Promise!PInit
    OBVIOUS
  <1>1. \A c \in Codes : CodeState(c) = "unopened" /\ OwnerOf(c) = NoOne
    BY DEF Init, CodeState, OwnerOf, GrantsOf
  <1> QED
    BY <1>1 DEF Init, Promise!PInit

\* A poll that inserts exchanges the code; its other steps the promise does not see.
LEMMA StepPromise ==
  ASSUME SoleInv, SoleInv', OnePoll, Faults = {}, [Next]_vars
  PROVE  [Promise!PNext]_(Promise!pvars)
  <1> USE DEF tables, history, env
  <1>1. IInv /\ IInv'
    BY DEF SoleInv
  <1>2. ASSUME UNCHANGED <<opened, grants, mintedFor>>
        PROVE  States' = States /\ Owners' = Owners
    <2>1. \A c \in Codes : GrantsOf(c)' = GrantsOf(c) /\ TokensOf(c)' = TokensOf(c)
      BY <1>2 DEF GrantsOf, TokensOf
    <2>2. \A c \in Codes : States'[c] = States[c] /\ Owners'[c] = Owners[c]
      BY <1>1, <1>2, <2>1, CodeStands
    <2> QED
      BY <2>2, Shapes
  <1>3. ASSUME NEW c \in Codes, Start(c) PROVE Promise!POpen(c)
    <2>1. GrantsOf(c) = {} /\ c \notin opened /\ opened' = opened \cup {c}
          /\ UNCHANGED <<grants, mintedFor, holder>>
      BY <1>1, <1>3, TrailBack DEF Start
    <2>2. \A d \in Codes : GrantsOf(d)' = GrantsOf(d) /\ TokensOf(d)' = TokensOf(d)
      BY <2>1 DEF GrantsOf, TokensOf
    <2>3. \A d \in Codes : Owners'[d] = Owners[d] /\ (d # c => States'[d] = States[d])
      BY <1>1, <2>1, <2>2, CodeStands
    <2>4. States[c] = "unopened" /\ States'[c] = "open"
      BY <2>1, <2>2, Values DEF CodeState
    <2>5. States' = [States EXCEPT ![c] = "open"] /\ Owners' = Owners
      BY <2>3, <2>4, Shapes
    <2> QED
      BY <2>1, <2>4, <2>5 DEF Promise!POpen, States, Owners
  <1>4. ASSUME NEW b \in Bearers, NEW c \in Codes, Approve(b, c)
        PROVE  Promise!PGrant(c, ApprovingEmail(b))
    <2> DEFINE g0 == [code |-> c, by |-> b, email |-> ApprovingEmail(b),
                      login |-> login, age |-> clock - row[c].created]
    <2>1. /\ row[c].status = "pending" /\ grants' = grants \cup {g0}
          /\ UNCHANGED <<opened, mintedFor, holder>>
      BY <1>4 DEF Approve, Approvable
    <2>2. c \in opened /\ GrantsOf(c) = {} /\ TokensOf(c) = {}
      BY <1>1, <2>1, TrailBack DEF IInv
    <2>3. g0.code = c /\ g0.email = ApprovingEmail(b)
      OBVIOUS
    <2> HIDE DEF g0
    <2>5. \A d \in Codes : /\ d # c => GrantsOf(d)' = GrantsOf(d)
                           /\ TokensOf(d)' = TokensOf(d)
      BY <2>1, <2>3 DEF GrantsOf, TokensOf
    <2>6. g0 \in GrantsOf(c)'
      BY <2>1, <2>3 DEF GrantsOf
    <2>7. Owners'[c] = ApprovingEmail(b)
      BY <1>1, <2>3, <2>6, OwnerIsNext, Values DEF OwnersKnown
    <2>8. CodeState(c) = "open"
      BY <2>2 DEF CodeState
    <2>9. CodeState(c)' = "granted"
      <3>1. c \in opened' /\ TokensOf(c)' = TokensOf(c)
        BY <2>1, <2>2, <2>5
      <3>2. GrantsOf(c)' # {}
        BY <2>6
      <3> QED
        BY <2>2, <3>1, <3>2 DEF CodeState
    <2>10. \A d \in Codes : d # c => Owners'[d] = Owners[d] /\ States'[d] = States[d]
      BY <1>1, <2>1, <2>5, CodeStands
    <2>11. /\ States' = [States EXCEPT ![c] = "granted"]
           /\ Owners' = [Owners EXCEPT ![c] = ApprovingEmail(b)]
      BY <2>7, <2>9, <2>10, Shapes, Values
    <2> QED
      BY <2>1, <2>8, <2>11, Values DEF Promise!PGrant, States, Owners
  <1>5. ASSUME NEW r \in Requests, NEW t \in Tokens, NEW c \in Codes, c = poll[r].code,
               PollInsert(r, t)
        PROVE  Promise!PExchange(c, t)
    <2>1. /\ poll[r].pc = "approved" /\ mintedFor[t] = NoCode
          /\ holder' = [holder EXCEPT ![t] = poll[r].email]
          /\ mintedFor' = [mintedFor EXCEPT ![t] = c]
          /\ UNCHANGED <<opened, grants>>
      BY <1>5 DEF PollInsert
    <2>2. PICK g \in grants : g.code = c /\ g.email = poll[r].email
      BY <1>1, <1>5, <2>1 DEF IInv, GrantTrail
    <2>3. c \in opened /\ g \in GrantsOf(c)
      BY <1>1, <2>2 DEF IInv, GrantsOf, GrantTrail
    <2>4. TokensOf(c) = {}
      BY <1>5, <2>1 DEF SoleInv, NoTokenYet
    <2>5. t \in TokensOf(c)'
      BY <1>1, <2>1 DEF TokensOf, IInv, TypeOK
    <2>6. Owners[c] = poll[r].email
      BY <1>1, <2>2, <2>3, OwnerIs, Values DEF OwnersKnown
    <2>7. \A d \in Codes : /\ GrantsOf(d)' = GrantsOf(d)
                           /\ d # c => TokensOf(d)' = TokensOf(d)
      <3>1. \A d \in Codes : d # c => \A u \in Tokens : mintedFor'[u] = d <=> mintedFor[u] = d
        BY <1>1, <2>1, Naming DEF IInv, TypeOK
      <3> QED
        BY <2>1, <3>1 DEF GrantsOf, TokensOf
    <2>8. CodeState(c) = "granted"
      BY <2>3, <2>4 DEF CodeState
    <2>9. CodeState(c)' = "spent"
      <3>1. c \in opened' /\ GrantsOf(c)' = GrantsOf(c)
        BY <2>1, <2>3, <2>7
      <3>2. TokensOf(c)' # {}
        BY <2>5
      <3> QED
        BY <2>3, <3>1, <3>2 DEF CodeState
    <2>10. \A d \in Codes : Owners'[d] = Owners[d] /\ (d # c => States'[d] = States[d])
      <3>1. opened' = opened
        BY <2>1
      <3> QED
        BY <1>1, <2>7, <3>1, CodeStands
    <2>11. States' = [States EXCEPT ![c] = "spent"] /\ Owners' = Owners
      BY <2>9, <2>10, Shapes, Values
    <2> QED
      BY <2>1, <2>6, <2>8, <2>11, Values DEF Promise!PExchange, States, Owners
  <1>6. ASSUME NEW b \in Bearers, NEW t \in Tokens, Revoke(b, t) PROVE Promise!PRevoke(t)
    BY <1>2, <1>6 DEF Revoke, Promise!PRevoke, States, Owners
  <1>7. ASSUME UNCHANGED <<opened, grants, mintedFor, holder>> PROVE UNCHANGED Promise!pvars
    BY <1>2, <1>7 DEF Promise!pvars, States, Owners
  <1>8. ASSUME NEW b \in Bearers, NEW c \in Codes, Approve(b, c) PROVE ApprovingEmail(b) \in Emails
    BY <1>8 DEF Approve, ApprovingEmail, SessionUser, Emails
  <1>9. ASSUME NEW r \in Requests, Poll(r) PROVE [Promise!PNext]_(Promise!pvars)
    <2>1. CASE UNCHANGED <<opened, grants, mintedFor, holder>>
      BY <1>7, <2>1
    <2>2. ASSUME NEW t \in Tokens, PollInsert(r, t) PROVE Promise!PNext
      <3>1. poll[r].code \in Codes
        BY <1>1, <2>2 DEF PollInsert, IInv, TypeOK, GrantTrail, Grants
      <3> QED
        BY <1>5, <2>2, <3>1 DEF Promise!PNext
    <2> QED
      BY <1>9, <2>1, <2>2 DEF Poll, PollStatus, PollInsertFails, PollMark, PollMarkFails, PollAnswer
  <1>10. CASE \E c \in Codes : Start(c)
    BY <1>3, <1>10 DEF Promise!PNext
  <1>11. CASE \E b \in Bearers, c \in Codes : Approve(b, c)
    BY <1>4, <1>8, <1>11 DEF Promise!PNext
  <1>12. CASE \E b \in Bearers, t \in Tokens : Revoke(b, t)
    BY <1>6, <1>12 DEF Promise!PNext
  <1>13. CASE Restart \/ Tick \/ UNCHANGED vars
    BY <1>7, <1>13 DEF Restart, Tick, vars
  <1> QED
    BY <1>9, <1>10, <1>11, <1>12, <1>13 DEF Next

\* With one poll at a time, no restart and no write that fails, the flow is the
\* abstract handover: every code is exchanged once, for a token of its approver.
\* More than one poll, or a fault between the insert and the mark, breaks it.
THEOREM SolePollKeepsThePromise == ASSUME OnePoll, Faults = {} PROVE Spec => KeepsThePromise
  <1>1. SoleInv /\ [Next]_vars => SoleInv'
    BY SoleNext
  <1>2. SoleInv /\ SoleInv' /\ [Next]_vars => [Promise!PNext]_(Promise!pvars)
    BY StepPromise
  <1> QED
    BY <1>1, <1>2, SoleInit, InitPromise, PTL DEF Spec, KeepsThePromise, Promise!PSpec

\* What was handed over is gone and no poll is under way for it; a poll that
\* is about to hand over has seen its code gone.
HandInv ==
  /\ IInv /\ HandedOverOnce
  /\ \A h \in handed :
       Gone(h.code) /\ \A r \in Requests : poll[r].pc # "idle" => poll[r].code # h.code
  /\ \A r \in Requests : poll[r].pc = "marked" => Gone(poll[r].code)

\* A step that hands nothing over and starts or moves no poll.
LEMMA QuietHand ==
  ASSUME HandInv, [Next]_vars, IInv', handed' = handed,
         \A r \in Requests : poll'[r].pc = "idle" \/ poll'[r] = poll[r]
  PROVE  HandInv'
  <1>1. \A h \in handed : h.code \in Codes
    BY DEF HandInv, IInv, TypeOK
  <1>2. \A r \in Requests : poll[r].pc # "idle" => poll[r].code \in Codes
    BY DEF HandInv, IInv, TypeOK, GrantTrail, Grants
  <1>3. HandedOverOnce'
    BY DEF HandInv, HandedOverOnce
  <1>4. \A h \in handed' :
          Gone(h.code)' /\ \A r \in Requests : poll'[r].pc # "idle" => poll'[r].code # h.code
    BY <1>1, GoneStays DEF HandInv
  <1>5. ASSUME NEW r \in Requests, poll'[r].pc = "marked" PROVE Gone(poll[r].code)'
    BY <1>2, <1>5, GoneStays DEF HandInv
  <1> QED
    BY <1>3, <1>4, <1>5 DEF HandInv, Gone

LEMMA PollHand ==
  ASSUME HandInv, OnePoll, "store" \notin Faults, [Next]_vars, IInv', NEW r \in Requests, Poll(r)
  PROVE  HandInv'
  <1> USE DEF tables, history, env
  <1>1. /\ poll \in [Requests -> Polls] /\ \A q \in Requests : q = r
        /\ \A h \in handed : h.code \in Codes
        /\ poll[r].pc # "idle" => poll[r].code \in Codes
        /\ row \in [Codes -> Rows]
    BY DEF HandInv, IInv, TypeOK, GrantTrail, Grants, OnePoll
  <1>2. SUFFICES
          /\ HandedOverOnce'
          /\ \A h \in handed' : Gone(h.code)' /\ (poll'[r].pc # "idle" => poll'[r].code # h.code)
          /\ poll'[r].pc = "marked" => Gone(poll[r].code)'
    BY <1>1 DEF HandInv, Gone
  <1>3. \A h \in handed : Gone(h.code)'
    BY <1>1, GoneStays DEF HandInv
  <1>4. ASSUME NEW c \in Codes, PollStatus(r, c)
        PROVE  /\ handed' = handed /\ poll'[r].pc = "approved"
               /\ \A h \in handed : poll'[r].code # h.code
    <2>1. row[c].status = "approved"
      BY <1>1, <1>4 DEF PollStatus, DeviceStatus
    <2> QED
      BY <1>1, <1>4, <2>1 DEF PollStatus, HandInv, Gone
  <1>5. ASSUME NEW t \in Tokens, PollInsert(r, t)
        PROVE  /\ handed' = handed /\ poll'[r].pc = "minted"
               /\ poll'[r].code = poll[r].code /\ poll[r].pc # "idle"
    BY <1>1, <1>5 DEF PollInsert
  <1>6. ASSUME PollMark(r)
        PROVE  /\ handed' = handed /\ poll'[r].code = poll[r].code /\ poll[r].pc # "idle"
               /\ Gone(poll[r].code)'
    <2>1. poll[r].code \in opened
      BY <1>6 DEF PollMark, HandInv, IInv, GrantTrail
    <2>2. row'[poll[r].code].status \in {"delivered", "none"}
      BY <1>1, <1>6 DEF PollMark, Rows
    <2> QED
      BY <1>1, <1>6, <2>1, <2>2 DEF PollMark, Gone
  <1>7. ASSUME NEW c \in Codes, c = poll[r].code, PollAnswer(r)
        PROVE  /\ handed' = handed \cup {[code |-> c, token |-> poll[r].token]}
               /\ poll'[r].pc = "idle" /\ Gone(c)'
               /\ \A h \in handed : h.code # c
    <2>1. Gone(c) /\ \A h \in handed : h.code # c
      BY <1>7 DEF PollAnswer, HandInv
    <2>2. IInv
      BY DEF HandInv
    <2> QED
      BY <1>1, <1>7, <2>1, <2>2, GoneStays DEF PollAnswer, Idle
  <1>8. CASE handed' = handed
    <2>1. HandedOverOnce'
      BY <1>8 DEF HandInv, HandedOverOnce
    <2>2. CASE \E c \in Codes : PollStatus(r, c)
      BY <1>3, <1>4, <1>8, <2>1, <2>2
    <2>3. CASE \E t \in Tokens : PollInsert(r, t)
      BY <1>3, <1>5, <1>8, <2>1, <2>3 DEF HandInv
    <2>4. CASE PollMark(r)
      BY <1>3, <1>6, <1>8, <2>1, <2>4 DEF HandInv
    <2>5. CASE PollAnswer(r)
      BY <1>1, <1>3, <1>7, <1>8, <2>1, <2>5 DEF PollAnswer
    <2> QED
      BY <2>2, <2>3, <2>4, <2>5 DEF Poll, PollInsertFails, PollMarkFails
  <1>9. CASE PollAnswer(r)
    <2>1. PICK c \in Codes : c = poll[r].code
      BY <1>1, <1>9 DEF PollAnswer
    <2> DEFINE new == [code |-> c, token |-> poll[r].token]
    <2>2. new.code = c /\ handed' = handed \cup {new}
      BY <1>7, <1>9, <2>1
    <2> HIDE DEF new
    <2>3. HandedOverOnce'
      BY <1>7, <1>9, <2>1, <2>2 DEF HandInv, HandedOverOnce
    <2>4. \A h \in handed' : Gone(h.code)'
      BY <1>3, <1>7, <1>9, <2>1, <2>2
    <2> QED
      BY <1>7, <1>9, <2>1, <2>3, <2>4
  <1> QED
    BY <1>4, <1>5, <1>6, <1>8, <1>9 DEF Poll, PollInsertFails, PollMarkFails

LEMMA HandNext == HandInv /\ OnePoll /\ "store" \notin Faults /\ [Next]_vars => HandInv'
  <1> SUFFICES ASSUME HandInv, OnePoll, "store" \notin Faults, [Next]_vars PROVE HandInv'
    OBVIOUS
  <1>1. IInv'
    BY NextIInv DEF HandInv
  <1>2. ASSUME NEW r \in Requests, Poll(r) PROVE HandInv'
    BY <1>1, <1>2, PollHand
  <1>3. CASE Restart
    BY <1>1, <1>3, QuietHand DEF Restart, Idle, history
  <1>4. CASE UNCHANGED <<poll, handed>>
    BY <1>1, <1>4, QuietHand
  <1> QED
    BY <1>2, <1>3, <1>4 DEF Next, Start, Approve, Revoke, Tick, vars, history

\* With one poll at a time and no write that fails, a code puts one token at
\* most into an agent's hands, through any restarts: a poll the restart cuts
\* off before the mark minted a token that nobody was given, and one cut off
\* after it leaves a code that no poll is answered for (server.rs, device_poll).
THEOREM SolePollHandsOverOnce ==
  ASSUME OnePoll, "store" \notin Faults PROVE Spec => []HandedOverOnce
  <1>1. Init => HandInv
    <2> SUFFICES ASSUME Init PROVE HandInv
      OBVIOUS
    <2> QED
      BY InitIInv DEF Init, HandInv, HandedOverOnce, Idle
  <1>2. HandInv => HandedOverOnce
    BY DEF HandInv
  <1> QED
    BY <1>1, <1>2, HandNext, PTL DEF Spec
-----------------------------------------------------------------------------
(***************************************************************************)
(* Sessions                                                                *)
(* Whoever is let in or kept out is so by what Clerk said lately, for      *)
(* any number of requests, keys and people, any lives of the caches and    *)
(* any timeout.  The moments when a name was last there and last missing   *)
(* only move forward.  An answer is good from the moment its question      *)
(* was sent; what is stored is no older than its storing less the          *)
(* timeout; and a request that looks for its person carries how old its    *)
(* key was.                                                                *)
(***************************************************************************)

All == Kids \cup Users
Whys == {"none", "invalid", "allowlist", "key", "person", "unreachable"}
Questions == [sent : Int, got : SUBSET All, back : BOOLEAN]
Request == [pc : {"idle", "key", "person", "in", "out"}, kid : Kids, sub : Users,
            began : Nat, decided : Nat, why : Whys, ask : Questions]

PeopleAreUsers == clerk["person"] \subseteq Users

Types ==
  /\ time \in Nat /\ clerk \in [Kinds -> SUBSET All] /\ PeopleAreUsers
  /\ gone \in [All -> Int] /\ joined \in [All -> Int]
  /\ \A kind \in Kinds : \A name \in Names(kind) : missed[kind][name] \in Int
  /\ cache \in [Kinds -> [at : Int, got : SUBSET All]]
  /\ req \in [Visits -> Request]

\* What is remembered is of the past.
Past ==
  /\ \A name \in All : Never <= gone[name] /\ gone[name] <= time
  /\ \A kind \in Kinds : \A name \in Names(kind) : Never <= missed[kind][name] /\ missed[kind][name] <= time

\* What is read of a kind holds of some moment not before a given one.
Reads(kind, got, from) ==
  \A name \in Names(kind) :
    /\ name \in got => LastThere(kind, name) >= from
    /\ name \notin got => LastMissing(kind, name) >= from

\* A cache was true at most a timeout before it was stored.
CacheIsFounded == \A kind \in Kinds : Reads(kind, cache[kind].got, cache[kind].at - Timeout)

Questioned(q) == q.ask.sent # Never
Since(q) == IF Questioned(q) THEN q.ask.sent ELSE time

\* A question is young, and begun after its request.
Young(q) ==
  /\ q.pc \in Kinds => q.began <= time
  /\ Questioned(q) => /\ q.pc \in Kinds /\ q.began <= q.ask.sent
                /\ q.ask.sent <= time /\ time <= q.ask.sent + Timeout

LetIn(q) ==
  q.pc = "in" =>
    /\ LastThere("key", q.kid) > q.decided - KeyTtl - 2 * Timeout
    /\ LastThere("person", q.sub) > q.decided - PeopleTtl - Timeout

Refused(q) ==
  q.pc = "out" =>
    /\ q.why = "key" => LastMissing("key", q.kid) >= q.began
    /\ q.why = "person" => LastMissing("person", q.sub) > q.decided - PeopleTtl - Timeout

\* What one request knows, wherever it is.
Sound(q) ==
  /\ Young(q)
  /\ q.ask.back => Questioned(q) /\ Reads(q.pc, q.ask.got, q.ask.sent)
  /\ q.pc = "person" => LastThere("key", q.kid) > Since(q) - KeyTtl - Timeout
  /\ LetIn(q) /\ Refused(q)

SessionsInv == Types /\ Past /\ CacheIsFounded /\ \A r \in Visits : Sound(req[r])

-----------------------------------------------------------------------------
(* Numbers, and one request at a time                                       *)

LEMMA Lives ==
  /\ KeyTtl \in Nat /\ KeyTtl > 0 /\ PeopleTtl \in Nat /\ PeopleTtl > 0 /\ Timeout \in Nat
  /\ Never \in Int /\ Never + Timeout < 0 /\ Never < 0
BY SessionsAssumption DEF SessionsAssumption, Never

LEMMA NamesOf == \A kind \in Kinds : Names(kind) \subseteq All
BY DEF Names, All

LEMMA Moments ==
  ASSUME Types, NEW kind \in Kinds, NEW name \in Names(kind)
  PROVE  LastThere(kind, name) \in Int /\ LastMissing(kind, name) \in Int
BY NamesOf DEF Types, LastThere, LastMissing

\* Who is on every list is on each page.
LEMMA PagesShow ==
  ASSUME Types, NEW page \in Pages
  PROVE  Newest \subseteq page /\ page \subseteq clerk["person"]
<1>1. clerk["person"] \subseteq Users /\ page \subseteq clerk["person"]
  BY DEF Types, PeopleAreUsers, Pages
<1>2. SUFFICES ASSUME NEW p \in Newest, p \notin page PROVE FALSE
  BY <1>1
<1> DEFINE others == {q \in clerk["person"] \ {p} : joined[q] >= joined[p]}
<1>3. p \in clerk["person"] /\ Cardinality(others) < PeopleLimit
  BY DEF Newest
<1>4. Cardinality(page) = PeopleLimit /\ \A q \in page : joined[q] >= joined[p]
  BY <1>2, <1>3 DEF Pages
<1>5. page \subseteq others /\ others \subseteq Users
  BY <1>1, <1>2, <1>4
<1> HIDE DEF others
<1>6. IsFiniteSet(Users)
  BY SessionsAssumption DEF SessionsAssumption
<1>7. IsFiniteSet(others)
  BY <1>5, <1>6, FS_Subset
<1>8. Cardinality(page) <= Cardinality(others)
  BY <1>5, <1>7, FS_Subset
<1>9. Cardinality(others) \in Nat /\ PeopleLimit \in Nat
  BY <1>7, FS_CardinalityType, SessionsAssumption DEF SessionsAssumption
<1>10. QED  BY <1>3, <1>4, <1>8, <1>9

\* While neither Clerk nor the clock moves, nothing that was known changes.
LEMMA StandStill ==
  ASSUME UNCHANGED <<time, clerk, gone, joined, missed>>, NEW kind, NEW name
  PROVE  LastThere(kind, name)' = LastThere(kind, name) /\ LastMissing(kind, name)' = LastMissing(kind, name)
<1>1. Listed(kind)' = Listed(kind)
  <2>1. Newest' = Newest
    BY DEF Newest
  <2>2. QED  BY <2>1 DEF Listed
<1>2. QED  BY <1>1 DEF LastThere, LastMissing

LEMMA ReadsStay ==
  ASSUME UNCHANGED <<time, clerk, gone, joined, missed>>, NEW kind, NEW got, NEW from, Reads(kind, got, from)
  PROVE  Reads(kind, got, from)'
BY StandStill DEF Reads, Names

LEMMA SoundStays ==
  ASSUME UNCHANGED <<time, clerk, gone, joined, missed>>, NEW q, Sound(q)
  PROVE  Sound(q)'
<1>1. Young(q)' /\ Since(q)' = Since(q) /\ Questioned(q)' = Questioned(q)
  BY DEF Sound, Young, Questioned, Since, Never
<1>2. Reads(q.pc, q.ask.got, q.ask.sent) => Reads(q.pc, q.ask.got, q.ask.sent)'
  BY ReadsStay
<1>3. LetIn(q)' /\ Refused(q)'
  BY StandStill DEF Sound, LetIn, Refused
<1>4. q.pc = "person" => LastThere("key", q.kid)' > Since(q)' - KeyTtl - Timeout
  BY <1>1, StandStill DEF Sound
<1>5. QED  BY <1>1, <1>2, <1>3, <1>4 DEF Sound

LEMMA NoneIsSound ==
  /\ NoRequest \in Request /\ Sound(NoRequest)
  /\ NoRequest.pc = "idle" /\ NoRequest.ask = Unasked /\ Unasked \in Questions
<1>1. (CHOOSE k \in Kids : TRUE) \in Kids /\ (CHOOSE p \in Users : TRUE) \in Users
  BY SessionsAssumption DEF SessionsAssumption
<1>2. Unasked \in Questions /\ Unasked.sent = Never /\ ~Unasked.back
  BY Lives DEF Unasked, Questions
<1>3. NoRequest \in Request
  BY <1>1, <1>2 DEF NoRequest, Request, Whys
<1>4. NoRequest.pc = "idle" /\ NoRequest.ask = Unasked
  BY DEF NoRequest
<1>5. Sound(NoRequest)
  BY <1>2, <1>4 DEF Sound, Young, Questioned, LetIn, Refused, Kinds
<1>6. QED  BY <1>2, <1>3, <1>4, <1>5

\* One request moves, and what the others rest on does not.
LEMMA OneMoves ==
  ASSUME Types, \A s \in Visits : Sound(req[s]), NEW r \in Visits, NEW new,
         new \in Request, Sound(new), req' = [req EXCEPT ![r] = new],
         UNCHANGED <<time, clerk, gone, joined, missed>>
  PROVE  req' \in [Visits -> Request] /\ \A s \in Visits : Sound(req[s])'
<1>1. req' \in [Visits -> Request]
  BY DEF Types
<1>2. ASSUME NEW s \in Visits PROVE Sound(req[s])'
  <2>1. req'[s] = IF s = r THEN new ELSE req[s]
    BY DEF Types
  <2>2. DEFINE q == req'[s]
  <2>3. Sound(q)
    BY <2>1
  <2>4. QED
    BY <2>3, SoundStays
<1>3. QED  BY <1>1, <1>2

-----------------------------------------------------------------------------
(* A change at Clerk and the clock                                          *)

\* When a name was last there, and last missing, only moves forward.
Forward ==
  \A kind \in Kinds : \A name \in Names(kind) :
    /\ LastThere(kind, name) \in Int /\ LastThere(kind, name)' \in Int
    /\ LastThere(kind, name)' >= LastThere(kind, name)
    /\ LastMissing(kind, name) \in Int /\ LastMissing(kind, name)' \in Int
    /\ LastMissing(kind, name)' >= LastMissing(kind, name)

LEMMA ReadsForward ==
  ASSUME Forward, NEW kind \in Kinds, NEW got, NEW from \in Int, Reads(kind, got, from)
  PROVE  Reads(kind, got, from)'
BY DEF Forward, Reads

\* The clock waits for every request that does not wait for Clerk.
StillTime(q) == q.pc # "idle" => time < q.ask.sent + Timeout

LEMMA SoundLater ==
  ASSUME Types, Forward, time' \in Nat, NEW q \in Request, Sound(q),
         time' = time \/ (time' = time + 1 /\ StillTime(q))
  PROVE  Sound(q)'
<1>1. /\ q.kid \in Kids /\ q.sub \in Users /\ q.began \in Nat /\ q.decided \in Nat
      /\ q.ask.sent \in Int /\ time \in Nat
      /\ q.kid \in Names("key") /\ q.sub \in Names("person")
  BY DEF Request, Questions, Types, Names
<1>2. Questioned(q) <=> Questioned(q)'
  BY DEF Questioned, Never
<1>3. ASSUME q.pc # "idle", time' # time PROVE Questioned(q)
  BY <1>1, <1>3, Lives DEF StillTime, Questioned
<1>4. Young(q)'
  <2>1. CASE time' = time
    BY <2>1 DEF Sound, Young, Questioned, Never
  <2>2. CASE time' # time /\ q.pc = "idle"
    BY <2>2, <1>2 DEF Sound, Young, Kinds
  <2>3. CASE time' # time /\ q.pc # "idle"
    BY <2>3, <1>1, <1>2, <1>3, Lives DEF Sound, Young, StillTime
  <2>4. QED  BY <2>1, <2>2, <2>3
<1>5. q.ask.back => Questioned(q)' /\ Reads(q.pc, q.ask.got, q.ask.sent)'
  BY <1>1, <1>2, ReadsForward DEF Sound, Young
<1>6. q.pc = "person" => LastThere("key", q.kid)' > Since(q)' - KeyTtl - Timeout
  <2> SUFFICES ASSUME q.pc = "person" PROVE LastThere("key", q.kid)' > Since(q)' - KeyTtl - Timeout
    OBVIOUS
  <2>1. Since(q)' = Since(q) /\ Since(q) \in Int
    BY <1>1, <1>2, <1>3 DEF Since, Questioned, Never
  <2>2. LastThere("key", q.kid)' >= LastThere("key", q.kid)
        /\ LastThere("key", q.kid) \in Int /\ LastThere("key", q.kid)' \in Int
    BY <1>1 DEF Forward, Kinds
  <2>3. LastThere("key", q.kid) > Since(q) - KeyTtl - Timeout
    BY DEF Sound
  <2>4. QED  BY <2>1, <2>2, <2>3, Lives
<1>7. LetIn(q)' /\ Refused(q)'
  <2>1. /\ LastThere("key", q.kid)' >= LastThere("key", q.kid)
        /\ LastThere("person", q.sub)' >= LastThere("person", q.sub)
        /\ LastMissing("key", q.kid)' >= LastMissing("key", q.kid)
        /\ LastMissing("person", q.sub)' >= LastMissing("person", q.sub)
        /\ {LastThere("key", q.kid), LastThere("person", q.sub), LastMissing("key", q.kid),
            LastMissing("person", q.sub), LastThere("key", q.kid)', LastThere("person", q.sub)',
            LastMissing("key", q.kid)', LastMissing("person", q.sub)'} \subseteq Int
    BY <1>1 DEF Forward, Kinds
  <2>2. LetIn(q) /\ Refused(q)
    BY DEF Sound
  <2>3. LetIn(q)'
    BY <1>1, <2>1, <2>2, Lives DEF LetIn
  <2>4. Refused(q)'
    BY <1>1, <2>1, <2>2, Lives DEF Refused
  <2>5. QED  BY <2>3, <2>4
<1>8. QED  BY <1>4, <1>5, <1>6, <1>7 DEF Sound

LEMMA ChangeForward ==
  ASSUME Types, Past, NEW kind \in Kinds, NEW name \in Names(kind), Change(kind, name)
  PROVE  Types' /\ Past' /\ Forward
<1>1. /\ name \in All /\ time \in Nat /\ UNCHANGED <<time, cache, req>> /\ Kinds = {"key", "person"}
      /\ \A k \in Kinds : \A n \in Names(k) : missed'[k][n] = IF n \in Listed(k) THEN missed[k][n] ELSE time
  BY NamesOf DEF Change, Types, Kinds
<1>2. Types' /\ Past'
  <2>1. /\ clerk' \in [Kinds -> SUBSET All] /\ gone' \in [All -> Int] /\ joined' \in [All -> Int]
        /\ \A n \in All : gone'[n] \in {gone[n], time}
    <3>1. CASE name \in clerk[kind]
      BY <1>1, <3>1 DEF Change, Types
    <3>2. CASE name \notin clerk[kind]
      BY <1>1, <3>2 DEF Change, Types
    <3>3. QED  BY <3>1, <3>2
  <2>2. PeopleAreUsers'
    <3>1. kind = "person" => name \in Users
      BY DEF Names
    <3>2. QED  BY <1>1, <3>1 DEF Change, Types, PeopleAreUsers
  <2>3. \A k \in Kinds : \A n \in Names(k) : missed'[k][n] \in Int /\ Never <= missed'[k][n] /\ missed'[k][n] <= time
    BY <1>1, Lives DEF Types, Past
  <2>4. Never' = Never
    BY DEF Never
  <2>5. Types'
    BY <1>1, <2>1, <2>2, <2>3 DEF Types, Names
  <2>6. \A n \in All : Never <= gone'[n] /\ gone'[n] <= time
    BY <1>1, <2>1, Lives DEF Types, Past
  <2>7. Past'
    BY <1>1, <2>3, <2>4, <2>6 DEF Past, Names
  <2>8. QED  BY <2>5, <2>7
<1>3. ASSUME NEW k \in Kinds, NEW n \in Names(k)
      PROVE  LastThere(k, n) \in Int /\ LastThere(k, n)' \in Int /\ LastThere(k, n)' >= LastThere(k, n)
  <2>1. n \in All
    BY <1>3, NamesOf
  <2>2. CASE name \in clerk[kind]
    BY <1>1, <2>1, <2>2 DEF Change, Types, Past, LastThere
  <2>3. CASE name \notin clerk[kind]
    BY <1>1, <2>1, <2>3 DEF Change, Types, Past, LastThere
  <2>4. QED  BY <2>2, <2>3
<1>4. ASSUME NEW k \in Kinds, NEW n \in Names(k)
      PROVE  LastMissing(k, n) \in Int /\ LastMissing(k, n)' \in Int /\ LastMissing(k, n)' >= LastMissing(k, n)
  <2>1. missed[k][n] \in Int /\ missed[k][n] <= time
    BY DEF Types, Past
  <2>2. LastMissing(k, n)' \in {missed'[k][n], time}
    BY <1>1 DEF LastMissing
  <2>3. LastMissing(k, n) = missed'[k][n]
    BY <1>1 DEF LastMissing
  <2>4. missed'[k][n] \in {missed[k][n], time}
    BY <1>1
  <2>5. QED  BY <1>1, <2>1, <2>2, <2>3, <2>4
<1>5. QED  BY <1>2, <1>3, <1>4 DEF Forward

LEMMA WaitForward ==
  ASSUME Types, Past, Wait
  PROVE  Types' /\ Past' /\ Forward /\ \A r \in Visits : StillTime(req[r])
<1>1. time \in Nat /\ time' = time + 1 /\ UNCHANGED <<clerk, gone, joined, missed, cache, req>>
  BY DEF Wait, Types, clerkVars
<1>2. Types'
  BY <1>1 DEF Types, PeopleAreUsers, Names
<1>3. Past'
  BY <1>1, Lives DEF Types, Past, Never, Names
<1>4. Forward
  <2> SUFFICES ASSUME NEW k \in Kinds, NEW n \in Names(k)
               PROVE  /\ LastThere(k, n) \in Int /\ LastThere(k, n)' \in Int /\ LastThere(k, n)' >= LastThere(k, n)
                      /\ LastMissing(k, n) \in Int /\ LastMissing(k, n)' \in Int
                      /\ LastMissing(k, n)' >= LastMissing(k, n)
    BY DEF Forward
  <2>1. n \in All /\ gone[n] \in Int /\ gone[n] <= time /\ missed[k][n] \in Int /\ missed[k][n] <= time
    BY NamesOf DEF Types, Past
  <2>2. Newest' = Newest
    BY <1>1 DEF Newest
  <2>3. Listed(k)' = Listed(k)
    BY <1>1, <2>2 DEF Listed
  <2>4. LastMissing(k, n)' = (IF n \in Listed(k) THEN missed[k][n] ELSE time + 1)
    BY <1>1, <2>3 DEF LastMissing
  <2>5. LastThere(k, n)' = (IF n \in clerk[k] THEN time + 1 ELSE gone[n])
    BY <1>1 DEF LastThere
  <2>6. QED  BY <1>1, <2>1, <2>4, <2>5 DEF LastThere, LastMissing
<1>5. QED  BY <1>2, <1>3, <1>4 DEF Wait, StillTime

\* What moves the world on keeps the requests and the caches right.
LEMMA WorldKeeps ==
  ASSUME SessionsInv, Types', Past', Forward, UNCHANGED <<cache, req>>,
         time' = time \/ (time' = time + 1 /\ \A r \in Visits : StillTime(req[r]))
  PROVE  SessionsInv'
<1>1. CacheIsFounded'
  <2> SUFFICES ASSUME NEW kind \in Kinds
               PROVE  Reads(kind, cache[kind].got, cache[kind].at - Timeout)'
    BY DEF CacheIsFounded
  <2>1. cache[kind].at - Timeout \in Int
    BY Lives DEF SessionsInv, Types
  <2>2. Reads(kind, cache[kind].got, cache[kind].at - Timeout)
    BY DEF SessionsInv, CacheIsFounded
  <2>3. QED  BY <2>1, <2>2, ReadsForward
<1>2. ASSUME NEW r \in Visits PROVE Sound(req[r])'
  <2>1. req[r] \in Request /\ Sound(req[r]) /\ Types /\ time' \in Nat
    BY DEF SessionsInv, Types
  <2>2. QED  BY <2>1, SoundLater
<1>3. QED  BY <1>1, <1>2 DEF SessionsInv

-----------------------------------------------------------------------------
(* The steps of a request                                                   *)

\* What reading a young answer, cached or fresh, makes of a request.
LEMMA ResolvedIsSound ==
  ASSUME Types, NEW q \in Request, Sound(q), q.pc \in Kinds, NEW got, NEW valid \in BOOLEAN,
         NEW from \in Int, from >= time - Ttl(q.pc) - Timeout + 1, Reads(q.pc, got, from),
         q.pc = "key" => q.kid \in got \/ from >= q.began
  PROVE  Resolved(q, got, valid) \in Request /\ Sound(Resolved(q, got, valid))
<1> DEFINE new == Resolved(q, got, valid)
<1>1. /\ q.kid \in Kids /\ q.sub \in Users /\ q.began \in Nat /\ q.ask.sent \in Int
      /\ time \in Nat /\ q.kid \in Names("key") /\ q.sub \in Names("person") /\ q.began <= time
  BY DEF Request, Questions, Types, Names, Sound, Young
<1>2. Unasked \in Questions /\ Unasked.sent = Never /\ Unasked.back = FALSE
  BY NoneIsSound, Lives DEF Unasked
<1>3. ASSUME NEW pc \in {"in", "out"}, NEW why \in Whys
      PROVE  LET d == Decided(q, pc, why)
             IN  /\ d \in Request /\ Young(d) /\ ~d.ask.back
                 /\ d.pc = pc /\ d.why = why /\ d.decided = time
                 /\ d.kid = q.kid /\ d.sub = q.sub /\ d.began = q.began
  BY <1>1, <1>2 DEF Decided, Request, Young, Questioned, Kinds
<1>4. Wanted(q) \in Names(q.pc)
  BY <1>1 DEF Wanted, Names, Kinds
<1>5. CASE q.pc = "key" /\ Wanted(q) \in got /\ valid
  <2>1. new = [q EXCEPT !.pc = "person", !.ask = Unasked]
    BY <1>5 DEF Resolved, Found
  <2>2. new \in Request /\ new.pc = "person" /\ new.ask = Unasked /\ new.kid = q.kid /\ new.began = q.began
    BY <2>1, <1>2 DEF Request
  <2>3. LastThere("key", q.kid) >= from /\ LastThere("key", q.kid) \in Int
    BY <1>1, <1>4, <1>5, Moments DEF Reads, Wanted, Kinds
  <2> HIDE DEF new
  <2>4. Since(new) = time
    BY <2>2, <1>2 DEF Since, Questioned
  <2>5. LastThere("key", new.kid) > Since(new) - KeyTtl - Timeout
    <3>1. from >= time - KeyTtl - Timeout + 1
      BY <1>5 DEF Ttl
    <3>2. QED  BY <1>1, <2>2, <2>3, <2>4, <3>1, Lives
  <2>6. Young(new) /\ ~new.ask.back /\ LetIn(new) /\ Refused(new)
    BY <1>1, <1>2, <2>2 DEF Young, Questioned, LetIn, Refused
  <2>7. QED  BY <2>2, <2>5, <2>6 DEF Sound, new
<1>6. CASE q.pc = "person" /\ Wanted(q) \in got /\ q.sub \in AllowedUsers
  <2>1. new = Decided(q, "in", "none")
    BY <1>6 DEF Resolved, Found
  <2>2. /\ new \in Request /\ Young(new) /\ ~new.ask.back /\ new.pc = "in" /\ new.decided = time
        /\ new.kid = q.kid /\ new.sub = q.sub
    BY <1>3, <2>1 DEF Whys
  <2>3. LastThere("person", q.sub) >= from /\ LastThere("person", q.sub) \in Int
    BY <1>1, <1>4, <1>6, Moments DEF Reads, Wanted, Kinds
  <2>4. LastThere("key", q.kid) > Since(q) - KeyTtl - Timeout /\ LastThere("key", q.kid) \in Int
    BY <1>1, <1>6, Moments DEF Sound, Kinds
  <2>5. Since(q) \in Int /\ Since(q) >= time - Timeout
    BY <1>1, Lives DEF Sound, Young, Since
  <2>6. LastThere("key", q.kid) > time - KeyTtl - 2 * Timeout
    BY <1>1, <2>4, <2>5, Lives
  <2>7. LastThere("person", q.sub) > time - PeopleTtl - Timeout
    BY <1>1, <1>6, <2>3, Lives DEF Ttl
  <2>8. LetIn(new) /\ Refused(new)
    BY <2>2, <2>6, <2>7 DEF LetIn, Refused
  <2>9. QED  BY <2>2, <2>8 DEF Sound
<1>7. CASE Wanted(q) \in got /\ (IF q.pc = "key" THEN ~valid ELSE q.sub \notin AllowedUsers)
  <2>1. PICK why \in {"invalid", "allowlist"} : new = Decided(q, "out", why)
    BY <1>7 DEF Resolved, Found
  <2>2. /\ new \in Request /\ Young(new) /\ ~new.ask.back
        /\ new.pc = "out" /\ new.why \notin {"key", "person"}
    BY <1>3, <2>1 DEF Whys
  <2>3. QED  BY <2>2 DEF Sound, LetIn, Refused
<1>8. CASE Wanted(q) \notin got
  <2>1. new = Decided(q, "out", q.pc) /\ q.pc \in Whys
    BY <1>8 DEF Resolved, Kinds, Whys
  <2>2. /\ new \in Request /\ Young(new) /\ ~new.ask.back /\ new.pc = "out" /\ new.why = q.pc
        /\ new.decided = time /\ new.kid = q.kid /\ new.sub = q.sub /\ new.began = q.began
    BY <1>3, <2>1
  <2>3. LastMissing(q.pc, Wanted(q)) >= from /\ LastMissing(q.pc, Wanted(q)) \in Int
    BY <1>4, <1>8, Moments DEF Reads
  <2>4. CASE q.pc = "key"
    <3>1. LastMissing("key", q.kid) >= q.began
      BY <1>1, <1>8, <2>3, <2>4 DEF Wanted
    <3>2. QED  BY <2>2, <2>4, <3>1 DEF Sound, LetIn, Refused
  <2>5. CASE q.pc = "person"
    <3>1. LastMissing("person", q.sub) > time - PeopleTtl - Timeout
      BY <1>1, <2>3, <2>5, Lives DEF Wanted, Ttl
    <3>2. QED  BY <2>2, <2>5, <3>1 DEF Sound, LetIn, Refused
  <2>6. QED  BY <2>4, <2>5 DEF Kinds
<1>9. QED  BY <1>5, <1>6, <1>7, <1>8 DEF Kinds

\* A step that moves one request, and not the caches.
LEMMA MoveKeeps ==
  ASSUME SessionsInv, NEW r \in Visits, NEW new \in Request, Sound(new),
         req' = [req EXCEPT ![r] = new], UNCHANGED <<time, clerk, gone, joined, missed, cache>>
  PROVE  SessionsInv'
<1>1. req' \in [Visits -> Request] /\ \A s \in Visits : Sound(req[s])'
  BY OneMoves DEF SessionsInv
<1>2. Types' /\ Past' /\ CacheIsFounded'
  <2>1. Types' /\ Past'
    BY <1>1 DEF SessionsInv, Types, Past, Never, PeopleAreUsers, Names
  <2>2. \A kind \in Kinds : Reads(kind, cache[kind].got, cache[kind].at - Timeout)'
    BY ReadsStay DEF SessionsInv, CacheIsFounded
  <2>3. QED  BY <2>1, <2>2 DEF CacheIsFounded
<1>3. QED  BY <1>1, <1>2 DEF SessionsInv

LEMMA ArriveKeeps ==
  ASSUME SessionsInv, NEW r \in Visits, Arrive(r)
  PROVE  SessionsInv'
<1>1. PICK kid \in Kids, sub \in Users :
        req' = [req EXCEPT ![r] = [NoRequest EXCEPT !.pc = "key", !.kid = kid, !.sub = sub, !.began = time]]
  BY DEF Arrive
<1> DEFINE new == [NoRequest EXCEPT !.pc = "key", !.kid = kid, !.sub = sub, !.began = time]
<1>2. /\ Types /\ time \in Nat /\ NoRequest \in Request /\ NoRequest.ask = Unasked
      /\ Unasked.sent = Never /\ ~Unasked.back
  BY NoneIsSound DEF SessionsInv, Types, Unasked
<1>3. new \in Request /\ new.pc = "key" /\ new.began = time /\ new.ask = Unasked
  BY <1>2 DEF Request
<1>4. Sound(new)
  BY <1>2, <1>3 DEF Sound, Young, Questioned, LetIn, Refused
<1>5. QED
  BY <1>1, <1>3, <1>4, MoveKeeps DEF Arrive, clerkVars

LEMMA UseCacheKeeps ==
  ASSUME SessionsInv, NEW r \in Visits, UseCache(r)
  PROVE  SessionsInv'
<1> DEFINE q == req[r]
<1>1. Types /\ q \in Request /\ Sound(q) /\ q.pc \in Kinds /\ time \in Nat
  BY DEF UseCache, SessionsInv, Types
<1>2. /\ cache[q.pc].at \in Int /\ time - cache[q.pc].at < Ttl(q.pc) /\ Ttl(q.pc) \in Nat
      /\ q.pc = "key" => q.kid \in cache[q.pc].got
      /\ Reads(q.pc, cache[q.pc].got, cache[q.pc].at - Timeout)
  BY <1>1, Lives DEF UseCache, Usable, SessionsInv, Types, CacheIsFounded, Ttl
<1>3. PICK valid \in BOOLEAN : req' = [req EXCEPT ![r] = Resolved(q, cache[q.pc].got, valid)]
  BY <1>1 DEF UseCache, Types
<1>4. /\ cache[q.pc].at - Timeout \in Int
      /\ cache[q.pc].at - Timeout >= time - Ttl(q.pc) - Timeout + 1
  BY <1>1, <1>2, Lives
<1>5. Resolved(q, cache[q.pc].got, valid) \in Request /\ Sound(Resolved(q, cache[q.pc].got, valid))
  BY <1>1, <1>2, <1>4, ResolvedIsSound
<1>6. QED
  BY <1>3, <1>5, MoveKeeps DEF UseCache, clerkVars

LEMMA AskClerkKeeps ==
  ASSUME SessionsInv, NEW r \in Visits, AskClerk(r)
  PROVE  SessionsInv'
<1> DEFINE q == req[r]  new == [q EXCEPT !.ask.sent = time]
<1>1. /\ Types /\ q \in Request /\ Sound(q) /\ q.pc \in Kinds /\ time \in Nat
      /\ q.ask = Unasked /\ q.ask \in Questions
  BY DEF AskClerk, SessionsInv, Types, Request
<1>2. q.ask.sent = Never /\ ~q.ask.back
  BY <1>1 DEF Unasked
<1>3. req' = [req EXCEPT ![r] = new]
  BY <1>1 DEF AskClerk, Types
<1>4. /\ new \in Request /\ new.ask.sent = time /\ ~new.ask.back /\ new.pc = q.pc
      /\ new.kid = q.kid /\ new.began = q.began
  BY <1>1, <1>2 DEF Request, Questions
<1>5. Young(new)
  BY <1>1, <1>4, Lives DEF Sound, Young, Questioned
<1>6. Since(new) = time /\ Since(q) = time
  BY <1>2, <1>4 DEF Since, Questioned
<1>7. Sound(new)
  BY <1>1, <1>4, <1>5, <1>6 DEF Sound, LetIn, Refused, Kinds
<1>8. QED
  BY <1>3, <1>4, <1>7, MoveKeeps DEF AskClerk, clerkVars

\* What Clerk reads is so now, and now is after the question.
LEMMA ClerkAnswersKeeps ==
  ASSUME SessionsInv, NEW r \in Visits, ClerkAnswers(r)
  PROVE  SessionsInv'
<1> DEFINE q == req[r]
<1>1. PICK got \in Answers(q.pc) : req' = [req EXCEPT ![r].ask.got = got, ![r].ask.back = TRUE]
  BY DEF ClerkAnswers
<1> DEFINE new == [q EXCEPT !.ask.got = got, !.ask.back = TRUE]
<1>2. /\ Types /\ q \in Request /\ Sound(q) /\ time \in Nat /\ q.ask \in Questions /\ Questioned(q)
  BY DEF ClerkAnswers, SessionsInv, Types, Request, Questioned
<1>3. q.pc \in Kinds /\ q.ask.sent <= time /\ q.ask.sent \in Int
  BY <1>2 DEF Sound, Young, Questions
<1>4. req' = [req EXCEPT ![r] = new]
  BY <1>1, <1>2 DEF Types
<1>5. got \subseteq clerk[q.pc] /\ Listed(q.pc) \subseteq got
  <2>1. CASE q.pc = "key"
    BY <1>1, <2>1 DEF Answers, Listed
  <2>2. CASE q.pc = "person"
    BY <1>1, <1>2, <2>2, PagesShow DEF Answers, Listed
  <2>3. QED  BY <1>3, <2>1, <2>2 DEF Kinds
<1>6. got \in SUBSET All
  BY <1>2, <1>3, <1>5 DEF Types
<1>7. /\ new \in Request /\ new.ask.sent = q.ask.sent /\ new.ask.got = got
      /\ new.pc = q.pc /\ new.kid = q.kid /\ new.began = q.began
  BY <1>2, <1>3, <1>6 DEF Request, Questions
<1>8. Reads(q.pc, got, q.ask.sent)
  <2>1. \A name \in got : LastThere(q.pc, name) = time
    BY <1>5 DEF LastThere
  <2>2. \A name : name \notin got => LastMissing(q.pc, name) = time
    BY <1>5 DEF LastMissing
  <2>3. QED  BY <1>2, <1>3, <2>1, <2>2 DEF Reads
<1>9. Young(new) /\ Questioned(new) /\ Since(new) = Since(q)
  BY <1>2, <1>7 DEF Sound, Young, Questioned, Since
<1>10. Sound(new)
  BY <1>2, <1>3, <1>7, <1>8, <1>9 DEF Sound, LetIn, Refused, Kinds
<1>11. QED
  BY <1>4, <1>7, <1>10, MoveKeeps DEF ClerkAnswers, clerkVars

\* Whatever it overwrites, what is stored was read within the timeout.
LEMMA StoreAnswerKeeps ==
  ASSUME SessionsInv, NEW r \in Visits, StoreAnswer(r)
  PROVE  SessionsInv'
<1> DEFINE q == req[r]
<1>1. Types /\ q \in Request /\ Sound(q) /\ q.ask.back /\ time \in Nat /\ Past
  BY DEF StoreAnswer, SessionsInv, Types
<1>2. /\ q.pc \in Kinds /\ q.ask.sent \in Int /\ q.ask.got \in SUBSET All /\ q.began \in Nat
      /\ q.began <= q.ask.sent /\ q.ask.sent <= time /\ time <= q.ask.sent + Timeout
      /\ Reads(q.pc, q.ask.got, q.ask.sent)
  BY <1>1 DEF Sound, Young, Request, Questions
<1>3. PICK valid \in BOOLEAN : req' = [req EXCEPT ![r] = Resolved(q, q.ask.got, valid)]
  BY <1>1 DEF StoreAnswer, Types
<1>4. q.ask.sent >= time - Ttl(q.pc) - Timeout + 1
  BY <1>1, <1>2, Lives DEF Ttl
<1>5. Resolved(q, q.ask.got, valid) \in Request /\ Sound(Resolved(q, q.ask.got, valid))
  BY <1>1, <1>2, <1>4, ResolvedIsSound
<1>6. UNCHANGED <<time, clerk, gone, joined, missed>>
  BY DEF StoreAnswer, clerkVars
<1>7. req' \in [Visits -> Request] /\ \A s \in Visits : Sound(req[s])'
  BY <1>3, <1>5, <1>6, OneMoves DEF SessionsInv
<1>8. cache' = [cache EXCEPT ![q.pc] = [at |-> time, got |-> q.ask.got]]
  BY DEF StoreAnswer
<1>9. Types' /\ Past'
  BY <1>1, <1>2, <1>6, <1>7, <1>8 DEF Types, Past, Never, PeopleAreUsers, Names
<1>10. CacheIsFounded'
  <2> SUFFICES ASSUME NEW kind \in Kinds, NEW name \in Names(kind)
               PROVE  /\ name \in cache'[kind].got => LastThere(kind, name)' >= cache'[kind].at - Timeout
                      /\ name \notin cache'[kind].got => LastMissing(kind, name)' >= cache'[kind].at - Timeout
    BY DEF CacheIsFounded, Reads
  <2>1. /\ LastThere(kind, name)' = LastThere(kind, name)
        /\ LastMissing(kind, name)' = LastMissing(kind, name)
        /\ LastThere(kind, name) \in Int /\ LastMissing(kind, name) \in Int
    BY <1>1, <1>6, Moments, StandStill
  <2>2. CASE kind = q.pc
    <3>1. cache'[kind].at = time /\ cache'[kind].got = q.ask.got
      BY <1>1, <1>8, <2>2 DEF Types
    <3>2. QED  BY <1>1, <1>2, <2>1, <2>2, <3>1, Lives DEF Reads
  <2>3. CASE kind # q.pc
    <3>1. cache'[kind] = cache[kind]
      BY <1>1, <1>8, <2>3 DEF Types
    <3>2. QED  BY <2>1, <3>1 DEF SessionsInv, CacheIsFounded, Reads
  <2>4. QED  BY <2>2, <2>3
<1>11. QED  BY <1>7, <1>9, <1>10 DEF SessionsInv

LEMMA UnreachableKeeps ==
  ASSUME SessionsInv, NEW r \in Visits, Unreachable(r)
  PROVE  SessionsInv'
<1> DEFINE q == req[r]  new == Decided(q, "out", "unreachable")
<1>1. Types /\ q \in Request /\ time \in Nat
  BY DEF SessionsInv, Types
<1>2. Unasked \in Questions /\ Unasked.sent = Never /\ Unasked.back = FALSE
  BY <1>1, NoneIsSound DEF Unasked
<1>3. new \in Request /\ new.pc = "out" /\ new.why = "unreachable" /\ new.ask = Unasked
  BY <1>1, <1>2 DEF Decided, Request, Whys
<1>4. Sound(new)
  BY <1>2, <1>3 DEF Sound, Young, Questioned, LetIn, Refused, Kinds
<1>5. req' = [req EXCEPT ![r] = new]
  BY <1>1 DEF Unreachable, Types
<1>6. QED
  BY <1>3, <1>4, <1>5, MoveKeeps DEF Unreachable, clerkVars

LEMMA DoneKeeps ==
  ASSUME SessionsInv, NEW r \in Visits, Done(r)
  PROVE  SessionsInv'
BY NoneIsSound, MoveKeeps DEF SessionsInv, Done, clerkVars

\* Before anything was read nothing is there to be wrong.
LEMMA ColdIsFounded ==
  ASSUME Types, Past
  PROVE  /\ Cold \in [Kinds -> [at : Int, got : SUBSET All]]
         /\ \A kind \in Kinds : Reads(kind, Cold[kind].got, Cold[kind].at - Timeout)
<1>1. Cold \in [Kinds -> [at : Int, got : SUBSET All]]
  BY Lives DEF Cold
<1>2. ASSUME NEW kind \in Kinds, NEW name \in Names(kind)
      PROVE  LastMissing(kind, name) >= Never - Timeout
  BY Lives DEF Types, Past, LastMissing
<1>3. QED
  BY <1>1, <1>2 DEF Cold, Reads

LEMMA StartAgainKeeps ==
  ASSUME SessionsInv, StartAgain
  PROVE  SessionsInv'
<1>1. /\ Types /\ Past /\ cache' = Cold /\ req' = [r \in Visits |-> NoRequest]
      /\ UNCHANGED <<time, clerk, gone, joined, missed>>
  BY DEF SessionsInv, StartAgain, clerkVars
<1>2. NoRequest \in Request /\ Sound(NoRequest)
  BY <1>1, NoneIsSound
<1>3. Types' /\ Past'
  BY <1>1, <1>2, ColdIsFounded DEF Types, Past, Never, PeopleAreUsers, Names
<1>4. CacheIsFounded'
  <2>1. \A kind \in Kinds : Reads(kind, Cold[kind].got, Cold[kind].at - Timeout)'
    <3>1. \A kind \in Kinds : Reads(kind, Cold[kind].got, Cold[kind].at - Timeout)
      BY <1>1, ColdIsFounded
    <3>2. Cold' = Cold
      BY DEF Cold, Never, Kinds
    <3>3. QED  BY <1>1, <3>1, <3>2, ReadsStay
  <2>2. cache' = Cold'
    BY <1>1 DEF Cold, Never, Kinds
  <2>3. QED  BY <2>1, <2>2 DEF CacheIsFounded
<1>5. ASSUME NEW r \in Visits PROVE Sound(req[r])'
  <2>1. Sound(req'[r])
    BY <1>1, <1>2
  <2>2. QED
    BY <1>1, <2>1, SoundStays
<1>6. QED  BY <1>3, <1>4, <1>5 DEF SessionsInv

-----------------------------------------------------------------------------
(* The theorems                                                             *)

LEMMA SessionsBegin == SessionsInit => SessionsInv
<1> SUFFICES ASSUME SessionsInit PROVE SessionsInv
  OBVIOUS
<1>1. /\ time = 0 /\ clerk \in [Kinds -> SUBSET All] /\ cache = Cold
      /\ gone = [name \in All |-> Never] /\ joined = gone /\ PeopleAreUsers
      /\ missed = [kind \in Kinds |-> [name \in Names(kind) |-> Never]]
      /\ req = [r \in Visits |-> NoRequest]
  BY DEF SessionsInit, All, PeopleAreUsers, Names, Kinds
<1>2. /\ NoRequest \in Request /\ Sound(NoRequest)
      /\ Cold \in [Kinds -> [at : Int, got : SUBSET All]]
  BY NoneIsSound, Lives DEF Cold
<1>3. Types
  BY <1>1, <1>2, Lives DEF Types
<1>4. Past
  BY <1>1, Lives DEF Past
<1>5. CacheIsFounded
  BY <1>1, <1>3, <1>4, ColdIsFounded DEF CacheIsFounded
<1>6. QED  BY <1>1, <1>2, <1>3, <1>4, <1>5 DEF SessionsInv

LEMMA SessionsStep == SessionsInv /\ [SessionsNext]_sessionsVars => SessionsInv'
<1> SUFFICES ASSUME SessionsInv, [SessionsNext]_sessionsVars PROVE SessionsInv'
  OBVIOUS
<1>1. CASE \E r \in Visits : \/ Arrive(r) \/ UseCache(r) \/ AskClerk(r) \/ ClerkAnswers(r)
                               \/ StoreAnswer(r) \/ Unreachable(r) \/ Done(r)
  BY <1>1, ArriveKeeps, UseCacheKeeps, AskClerkKeeps, ClerkAnswersKeeps, StoreAnswerKeeps,
     UnreachableKeeps, DoneKeeps
<1>2. CASE \E kind \in Kinds : \E name \in Names(kind) : Change(kind, name)
  <2>0. PICK kind \in Kinds : \E name \in Names(kind) : Change(kind, name)
    BY <1>2
  <2>1. PICK name \in Names(kind) : Change(kind, name)
    BY <2>0
  <2>2. Types' /\ Past' /\ Forward
    BY <2>1, ChangeForward DEF SessionsInv
  <2>3. UNCHANGED <<time, cache, req>>
    BY <2>1 DEF Change
  <2>4. QED  BY <2>2, <2>3, WorldKeeps
<1>3. CASE Wait
  <2>1. Types' /\ Past' /\ Forward /\ \A r \in Visits : StillTime(req[r])
    BY <1>3, WaitForward DEF SessionsInv
  <2>2. time' = time + 1 /\ UNCHANGED <<cache, req>>
    BY <1>3 DEF Wait
  <2>3. QED  BY <2>1, <2>2, WorldKeeps
<1>4. CASE StartAgain
  BY <1>4, StartAgainKeeps
<1>5. CASE UNCHANGED sessionsVars
  <2>1. UNCHANGED <<time, clerk, gone, joined, missed, cache, req>>
    BY <1>5 DEF sessionsVars, clerkVars
  <2>2. Types' /\ Past'
    BY <2>1 DEF SessionsInv, Types, Past, Never, PeopleAreUsers, Names
  <2>3. ASSUME NEW r \in Visits PROVE Sound(req[r])'
    BY <2>1, SoundStays DEF SessionsInv
  <2>4. CacheIsFounded'
    BY <2>1, ReadsStay DEF SessionsInv, CacheIsFounded
  <2>5. QED  BY <2>2, <2>3, <2>4 DEF SessionsInv
<1>6. QED  BY <1>1, <1>2, <1>3, <1>4, <1>5 DEF SessionsNext

\* At any time the caches were true at most a timeout before they were stored,
\* although no lock is held while Clerk is asked (key_for, team).
THEOREM CachesAreFounded == SessionsSpec => []CacheIsFounded
<1>1. SessionsInv => CacheIsFounded
  BY DEF SessionsInv
<1>2. QED  BY <1>1, SessionsBegin, SessionsStep, PTL DEF SessionsSpec

\* Whoever is let in was known to Clerk within the life of the cache and the
\* time the questions took; whoever is refused as unknown was not on every list
\* of what Clerk has, for not being there, not parsing or not being among the
\* newest; for any number of requests that ask at once (session_user,
\* check_allowed, verify).
THEOREM DecisionsStand == SessionsSpec => []DecisionsAreFounded
<1>1. SessionsInv => DecisionsAreFounded
  BY DEF SessionsInv, Sound, LetIn, Refused, DecisionsAreFounded, AdmittedWereKnown,
         RefusedWereUnknown
<1>2. QED  BY <1>1, SessionsBegin, SessionsStep, PTL DEF SessionsSpec
-----------------------------------------------------------------------------
(***************************************************************************)
(* The calls of an agent                                                   *)
(* A step of a call is one its tool was permitted when the call was        *)
(* taken, so what it has changed, and what its line says of it, follow     *)
(* from its arguments and from where it is.                                *)
(***************************************************************************)

\* What a step of a call may be: only a tool that is audited changes anything,
\* and what takes more than a variable or a domain was asked for twice.
Permitted(a, s) ==
  /\ s \in Changes => a.tool \in WRITE_TOOLS
  /\ s \in {"teardown", "delete"} => a.confirm = "slug"
  /\ s \in {"restore", "forget"} => a.confirm # "no"
  /\ s = "prune" => a.tool = "db_backup" /\ a.action = "create"

StepNames == Waits \cup Changes
PermittedPlan(a, plan) ==
  plan \in Seq(StepNames) /\ \A i \in DOMAIN plan : Permitted(a, plan[i])


LEMMA ChangesAre ==
  /\ Changes = {"dump", "set", "file", "connect", "register", "deploy", "restore", "forget", "unset",
                "disconnect", "teardown", "delete", "query", "prune", "triage"}
  /\ StepNames = Changes \cup {"read", "routes"}
<1>1. DOMAIN Gains = {"dump", "set", "file", "connect", "register", "deploy"}
  BY DEF Gains
<1>2. DOMAIN Losses = {"restore", "forget", "unset", "disconnect", "teardown", "delete", "prune"}
  BY DEF Losses
<1>3. QED
  BY <1>1, <1>2 DEF Changes, StepNames, Waits

LEMMA NoPlan == \A a : PermittedPlan(a, Refusal)
  BY DEF PermittedPlan, Refusal

LEMMA PlanOfOne ==
  ASSUME NEW a, NEW x \in StepNames, Permitted(a, x) PROVE PermittedPlan(a, <<x>>)
<1>1. <<x>> \in Seq(StepNames) /\ DOMAIN <<x>> = 1 .. 1 /\ <<x>>[1] = x
  OBVIOUS
<1>2. QED  BY <1>1 DEF PermittedPlan

LEMMA PlanOfTwo ==
  ASSUME NEW a, NEW x \in StepNames, NEW y \in StepNames, Permitted(a, x), Permitted(a, y)
  PROVE  PermittedPlan(a, <<x, y>>)
<1>1. /\ <<x, y>> \in Seq(StepNames) /\ DOMAIN <<x, y>> = 1 .. 2
      /\ <<x, y>>[1] = x /\ <<x, y>>[2] = y
  OBVIOUS
<1>2. QED  BY <1>1 DEF PermittedPlan

LEMMA PlanOfThree ==
  ASSUME NEW a, NEW x \in StepNames, NEW y \in StepNames, NEW z \in StepNames,
         Permitted(a, x), Permitted(a, y), Permitted(a, z)
  PROVE  PermittedPlan(a, <<x, y, z>>)
<1>1. /\ <<x, y, z>> \in Seq(StepNames) /\ DOMAIN <<x, y, z>> = 1 .. 3
      /\ <<x, y, z>>[1] = x /\ <<x, y, z>>[2] = y /\ <<x, y, z>>[3] = z
  OBVIOUS
<1>2. QED  BY <1>1 DEF PermittedPlan

\* Whatever a call comes to, its steps are permitted to it.
LEMMA PlansArePermitted ==
  ASSUME NEW a, NEW plan \in Plans(a) PROVE PermittedPlan(a, plan)
<1>1. CASE a.form # "odd" /\ a.tool = "create_project"
  <2>1. plan \in CreateProject
    BY <1>1 DEF Plans
  <2>2. \/ plan = Refusal
        \/ plan = <<"register">>
    BY <2>1 DEF CreateProject
  <2>3. CASE plan = <<"register">>
    <3>1. /\ "register" \in StepNames /\ Permitted(a, "register")
      BY <1>1, <2>3, ChangesAre DEF Permitted, WRITE_TOOLS
    <3>2. QED  BY <2>3, <3>1, PlanOfOne
  <2>4. QED  BY <2>2, <2>3, NoPlan
<1>2. CASE a.form = "odd" \/ (a.tool # "create_project" /\ "row" \notin things)
  <2>1. plan = Refusal
    BY <1>2 DEF Plans
  <2>2. QED  BY <2>1, NoPlan
<1>3. CASE a.form # "odd" /\ a.tool = "deploy_project" /\ "row" \in things
  <2>1. plan \in DeployProject
    BY <1>3 DEF Plans
  <2>2. \/ plan = Refusal
        \/ plan = <<"deploy">>
    BY <2>1 DEF DeployProject
  <2>3. CASE plan = <<"deploy">>
    <3>1. /\ "deploy" \in StepNames /\ Permitted(a, "deploy")
      BY <1>3, <2>3, ChangesAre DEF Permitted, WRITE_TOOLS
    <3>2. QED  BY <2>3, <3>1, PlanOfOne
  <2>4. QED  BY <2>2, <2>3, NoPlan
<1>4. CASE a.form # "odd" /\ a.tool = "db_query" /\ "row" \in things
  <2>1. plan \in DbQuery(a)
    BY <1>4 DEF Plans
  <2>2. \/ plan = Refusal
        \/ plan = <<"dump", "query">>
        \/ plan = <<"query">>
        \/ plan = <<"read">>
    BY <2>1 DEF DbQuery
  <2>3. CASE plan = <<"dump", "query">>
    <3>1. /\ "dump" \in StepNames /\ Permitted(a, "dump")
          /\ "query" \in StepNames /\ Permitted(a, "query")
      BY <1>4, <2>3, ChangesAre DEF Permitted, WRITE_TOOLS
    <3>2. QED  BY <2>3, <3>1, PlanOfTwo
  <2>4. CASE plan = <<"query">>
    <3>1. /\ "query" \in StepNames /\ Permitted(a, "query")
      BY <1>4, <2>4, ChangesAre DEF Permitted, WRITE_TOOLS
    <3>2. QED  BY <2>4, <3>1, PlanOfOne
  <2>5. CASE plan = <<"read">>
    <3>1. /\ "read" \in StepNames /\ Permitted(a, "read")
      BY <1>4, <2>5, ChangesAre DEF Permitted, WRITE_TOOLS
    <3>2. QED  BY <2>5, <3>1, PlanOfOne
  <2>6. QED  BY <2>2, <2>3, <2>4, <2>5, NoPlan
<1>5. CASE a.form # "odd" /\ a.tool = "db_backup" /\ "row" \in things
  <2>1. plan \in DbBackup(a)
    BY <1>5 DEF Plans
  <2>2. \/ plan = Refusal
        \/ plan = <<"dump", "prune">> /\ a.action = "create"
        \/ plan = <<"restore">> /\ a.confirm = "true"
    BY <2>1 DEF DbBackup
  <2>3. CASE plan = <<"dump", "prune">> /\ a.action = "create"
    <3>1. /\ "dump" \in StepNames /\ Permitted(a, "dump")
          /\ "prune" \in StepNames /\ Permitted(a, "prune")
      BY <1>5, <2>3, ChangesAre DEF Permitted, WRITE_TOOLS
    <3>2. QED  BY <2>3, <3>1, PlanOfTwo
  <2>4. CASE plan = <<"restore">> /\ a.confirm = "true"
    <3>1. /\ "restore" \in StepNames /\ Permitted(a, "restore")
      BY <1>5, <2>4, ChangesAre DEF Permitted, WRITE_TOOLS
    <3>2. QED  BY <2>4, <3>1, PlanOfOne
  <2>5. QED  BY <2>2, <2>3, <2>4, NoPlan
<1>6. CASE a.form # "odd" /\ a.tool = "triage_errors" /\ "row" \in things
  <2>1. plan \in TriageErrors(a)
    BY <1>6 DEF Plans
  <2>2. \/ plan = Refusal
        \/ plan = <<"forget">> /\ a.confirm = "true"
        \/ plan = <<"triage">>
    BY <2>1 DEF TriageErrors
  <2>3. CASE plan = <<"forget">> /\ a.confirm = "true"
    <3>1. /\ "forget" \in StepNames /\ Permitted(a, "forget")
      BY <1>6, <2>3, ChangesAre DEF Permitted, WRITE_TOOLS
    <3>2. QED  BY <2>3, <3>1, PlanOfOne
  <2>4. CASE plan = <<"triage">>
    <3>1. /\ "triage" \in StepNames /\ Permitted(a, "triage")
      BY <1>6, <2>4, ChangesAre DEF Permitted, WRITE_TOOLS
    <3>2. QED  BY <2>4, <3>1, PlanOfOne
  <2>5. QED  BY <2>2, <2>3, <2>4, NoPlan
<1>7. CASE a.form # "odd" /\ a.tool = "project_env" /\ "row" \in things
  <2>1. plan \in ProjectEnv(a)
    BY <1>7 DEF Plans
  <2>2. \/ plan = Refusal
        \/ plan = <<"set", "file">>
        \/ plan = <<"unset", "file">>
    BY <2>1 DEF ProjectEnv
  <2>3. CASE plan = <<"set", "file">>
    <3>1. /\ "set" \in StepNames /\ Permitted(a, "set")
          /\ "file" \in StepNames /\ Permitted(a, "file")
      BY <1>7, <2>3, ChangesAre DEF Permitted, WRITE_TOOLS
    <3>2. QED  BY <2>3, <3>1, PlanOfTwo
  <2>4. CASE plan = <<"unset", "file">>
    <3>1. /\ "unset" \in StepNames /\ Permitted(a, "unset")
          /\ "file" \in StepNames /\ Permitted(a, "file")
      BY <1>7, <2>4, ChangesAre DEF Permitted, WRITE_TOOLS
    <3>2. QED  BY <2>4, <3>1, PlanOfTwo
  <2>5. QED  BY <2>2, <2>3, <2>4, NoPlan
<1>8. CASE a.form # "odd" /\ a.tool = "connect_domain" /\ "row" \in things
  <2>1. plan \in ConnectDomain(a)
    BY <1>8 DEF Plans
  <2>2. \/ plan = Refusal
        \/ plan = <<"connect", "routes">>
        \/ plan = <<"disconnect", "routes">>
    BY <2>1 DEF ConnectDomain
  <2>3. CASE plan = <<"connect", "routes">>
    <3>1. /\ "connect" \in StepNames /\ Permitted(a, "connect")
          /\ "routes" \in StepNames /\ Permitted(a, "routes")
      BY <1>8, <2>3, ChangesAre DEF Permitted, WRITE_TOOLS
    <3>2. QED  BY <2>3, <3>1, PlanOfTwo
  <2>4. CASE plan = <<"disconnect", "routes">>
    <3>1. /\ "disconnect" \in StepNames /\ Permitted(a, "disconnect")
          /\ "routes" \in StepNames /\ Permitted(a, "routes")
      BY <1>8, <2>4, ChangesAre DEF Permitted, WRITE_TOOLS
    <3>2. QED  BY <2>4, <3>1, PlanOfTwo
  <2>5. QED  BY <2>2, <2>3, <2>4, NoPlan
<1>9. CASE a.form # "odd" /\ a.tool = "delete_project" /\ "row" \in things
  <2>1. plan \in DeleteProject(a)
    BY <1>9 DEF Plans
  <2>2. \/ plan = Refusal
        \/ plan = <<"teardown", "delete", "routes">> /\ a.confirm = "slug"
    BY <2>1 DEF DeleteProject
  <2>3. CASE plan = <<"teardown", "delete", "routes">> /\ a.confirm = "slug"
    <3>1. /\ "teardown" \in StepNames /\ Permitted(a, "teardown")
          /\ "delete" \in StepNames /\ Permitted(a, "delete")
          /\ "routes" \in StepNames /\ Permitted(a, "routes")
      BY <1>9, <2>3, ChangesAre DEF Permitted, WRITE_TOOLS
    <3>2. QED  BY <2>3, <3>1, PlanOfThree
  <2>4. QED  BY <2>2, <2>3, NoPlan
<1>10. CASE /\ a.form # "odd" /\ "row" \in things
            /\ a.tool \notin {"create_project", "deploy_project", "db_query", "db_backup",
                              "triage_errors", "project_env", "connect_domain", "delete_project"}
  <2>1. plan = <<"read">>
    BY <1>10 DEF Plans
  <2>2. "read" \in StepNames /\ Permitted(a, "read")
    BY ChangesAre DEF Permitted
  <2>3. QED  BY <2>1, <2>2, PlanOfOne
<1>11. QED
  BY <1>1, <1>2, <1>3, <1>4, <1>5, <1>6, <1>7, <1>8, <1>9, <1>10

-----------------------------------------------------------------------------
(* The invariant *)

Outcomes == {"done", "refused", "failed", "no_dump"}
CallState == [pc : {"new", "act", "audit", "answer", "over"}, ask : Asks,
              left : Seq(StepNames), outcome : Outcomes \cup {"none"}]
LineRec == [call : Calls, outcome : Outcomes \cup {"prelude"},
            shows : SUBSET {"arguments", "database_url", "env", "sql", "value"}]

AgentTypes ==
  /\ call \in [Calls -> CallState]
  /\ lines \in Seq(LineRec)
  /\ answers \in [Calls -> Outcomes \cup {"none"}]
  /\ changed \subseteq Calls

\* A call on its way has steps left, each of them permitted to it.
OnItsWay(q) ==
  /\ q.pc = "act" => q.left # <<>> /\ PermittedPlan(q.ask, q.left)
  /\ q.pc = "act" => q.outcome # "refused"
  /\ q.pc # "new" => q.outcome # "none"

\* The one line a call has when its outcome is known, if it is of a tool audited.
Recorded(c) ==
  IF call[c].ask.tool \in WRITE_TOOLS
  THEN \E i \in DOMAIN lines : LinesOf(c) = {i} /\ lines[i] = Line(c)
  ELSE LinesOf(c) = {}

\* A call has no line before its outcome is known, and that outcome after.
Told(c) ==
  /\ call[c].pc \in {"new", "act", "audit"} => LinesOf(c) = {}
  /\ call[c].pc # "over" => answers[c] = "none"
  /\ call[c].pc = "answer" \/ LinesOf(c) # {} => Recorded(c)
  /\ answers[c] # "none" => Recorded(c) /\ answers[c] = call[c].outcome

ChangesAreAudited ==
  \A c \in changed :
    call[c].ask.tool \in WRITE_TOOLS /\ call[c].pc # "new" /\ call[c].outcome # "refused"

AgentInv ==
  /\ AgentTypes
  /\ \A c \in Calls : OnItsWay(call[c])
  /\ \A c \in Calls : Told(c)
  /\ ChangesAreAudited
  /\ LossIsConfirmed

LEMMA FreshCall == NewCall \in CallState /\ NewCall.pc = "new"
<1>1. [tool |-> "project_status", action |-> "show", confirm |-> "no", form |-> "object",
       id |-> TRUE] \in Asks
  BY DEF Asks, WriteActions, Holds
<1>2. (CHOOSE a \in Asks : TRUE) \in Asks
  BY <1>1
<1>3. <<>> \in Seq(StepNames)
  OBVIOUS
<1>4. QED  BY <1>2, <1>3 DEF NewCall, CallState

LEMMA AgentStarts == AgentInit => AgentInv
<1> SUFFICES ASSUME AgentInit PROVE AgentInv
  OBVIOUS
<1>1. AgentTypes
  BY FreshCall DEF AgentInit, AgentTypes
<1>2. ASSUME NEW c \in Calls PROVE OnItsWay(call[c]) /\ Told(c)
  <2>1. call[c].pc = "new" /\ answers[c] = "none"
    BY FreshCall DEF AgentInit
  <2>2. LinesOf(c) = {}
    BY DEF AgentInit, LinesOf
  <2>3. QED  BY <2>1, <2>2 DEF OnItsWay, Told
<1>3. ChangesAreAudited /\ LossIsConfirmed
  BY DEF AgentInit, ChangesAreAudited, LossIsConfirmed
<1>4. QED  BY <1>1, <1>2, <1>3 DEF AgentInv

-----------------------------------------------------------------------------
(* What a step of a call leaves alone *)

\* Nothing is said of a call whose own state, lines and answer stay.
LEMMA TellsTheSame ==
  ASSUME NEW c \in Calls, Told(c), LinesOf(c)' = LinesOf(c),
         \A i \in DOMAIN lines : i \in DOMAIN lines' /\ lines'[i] = lines[i],
         call'[c].ask = call[c].ask, answers'[c] = answers[c],
         call[c].pc \notin {"new", "act", "audit"} => call'[c].outcome = call[c].outcome,
         \/ call'[c].pc = call[c].pc
         \/ call[c].pc \in {"act", "audit"} /\ call'[c].pc \in {"act", "audit"}
         \/ call'[c].pc = "over"
  PROVE  Told(c)'
<1>1. ASSUME Recorded(c), call'[c].outcome = call[c].outcome PROVE Recorded(c)'
  <2>1. Line(c)' = Line(c)
    BY <1>1 DEF Line
  <2>2. QED  BY <1>1, <2>1 DEF Recorded
<1>2. CASE LinesOf(c) # {} \/ answers[c] # "none"
  <2>1. Recorded(c)
    BY <1>2 DEF Told
  <2>2. answers[c] # "none" => call[c].pc = "over" /\ answers[c] = call[c].outcome
    BY DEF Told
  <2>3. call[c].pc \notin {"new", "act", "audit"}
    BY <1>2, <2>2 DEF Told
  <2>4. call'[c].outcome = call[c].outcome /\ Recorded(c)'
    BY <1>1, <2>1, <2>3
  <2>5. call'[c].pc \in {call[c].pc, "over"}
    BY <2>3
  <2>6. QED  BY <2>2, <2>3, <2>4, <2>5 DEF Told
<1>3. CASE LinesOf(c) = {} /\ answers[c] = "none"
  <2>1. call[c].pc = "answer" => Recorded(c)'
    <3>1. call[c].pc = "answer" => Recorded(c)
      BY DEF Told
    <3>2. QED  BY <1>1, <3>1
  <2>2. call'[c].pc = "answer" => call[c].pc = "answer"
    OBVIOUS
  <2>3. QED  BY <1>3, <2>1, <2>2 DEF Told
<1>4. QED  BY <1>2, <1>3

\* What a step does to the history: only a tool audited changes a thing, and what
\* is lost was confirmed.
LEMMA DoesWhatItMay ==
  ASSUME AgentTypes, ChangesAreAudited, LossIsConfirmed, NEW c \in Calls, NEW s,
         Permitted(call[c].ask, s), Does(c, s),
         \A d \in Calls : d # c => call'[d] = call[d],
         call[c].pc # "new" /\ call'[c].ask = call[c].ask /\ call'[c].pc # "new",
         call'[c].outcome # "refused"
  PROVE  changed' \subseteq Calls /\ ChangesAreAudited' /\ LossIsConfirmed'
<1>1. changed' \subseteq changed \cup {c} /\ (c \in changed' => c \in changed \/ s \in Changes)
  BY DEF Does
<1>2. changed' \subseteq Calls /\ ChangesAreAudited'
  BY <1>1 DEF AgentTypes, ChangesAreAudited, Permitted
<1>3. ASSUME NEW l \in lost', l \notin lost
      PROVE /\ l.thing \notin {"volume", "dump", "file"}
            /\ l.thing \in {"row", "containers"} => l.by.confirm = "slug"
            /\ l.thing \in {"data", "issue"} => l.by.confirm # "no"
            /\ l.thing = "old_dump" => l.by.tool = "db_backup" /\ l.by.action = "create"
  <2>1. PICK x \in Lost(s) : l = [by |-> call[c].ask, thing |-> x]
    BY <1>3 DEF Does
  <2>2. DOMAIN Losses = {"restore", "forget", "unset", "disconnect", "teardown", "delete", "prune"}
    BY DEF Losses
  <2>3. /\ Losses["restore"] = {"data"} /\ Losses["forget"] = {"issue"}
        /\ Losses["unset"] = {"variable"} /\ Losses["disconnect"] = {"domain"}
        /\ Losses["teardown"] = {"containers"} /\ Losses["delete"] = OfTheRow
        /\ Losses["prune"] = {"old_dump"}
    BY DEF Losses
  <2>4. s \in DOMAIN Losses /\ x \in Losses[s]
    BY DEF Lost
  <2>5. \/ s = "restore" /\ x = "data"
        \/ s = "forget" /\ x = "issue"
        \/ s = "unset" /\ x = "variable"
        \/ s = "disconnect" /\ x = "domain"
        \/ s = "teardown" /\ x = "containers"
        \/ s = "delete" /\ x \in {"row", "issue", "variable", "domain"}
        \/ s = "prune" /\ x = "old_dump"
    <3>1. \/ s = "restore" \/ s = "forget" \/ s = "unset" \/ s = "disconnect"
          \/ s = "teardown" \/ s = "delete" \/ s = "prune"
      BY <2>2, <2>4
    <3>2. s = "delete" => x \in {"row", "issue", "variable", "domain"}
      BY <2>3, <2>4 DEF OfTheRow
    <3>3. /\ s = "restore" => x = "data"
          /\ s = "forget" => x = "issue"
          /\ s = "unset" => x = "variable"
          /\ s = "disconnect" => x = "domain"
          /\ s = "teardown" => x = "containers"
          /\ s = "prune" => x = "old_dump"
      BY <2>3, <2>4
    <3>4. QED  BY <3>1, <3>2, <3>3
  <2>6. /\ s \in {"teardown", "delete"} => l.by.confirm = "slug"
        /\ s \in {"restore", "forget"} => l.by.confirm # "no"
        /\ s = "prune" => l.by.tool = "db_backup" /\ l.by.action = "create"
    BY <2>1 DEF Permitted
  <2>7. l.thing = x
    BY <2>1
  <2>8. QED  BY <2>5, <2>6, <2>7
<1>4. LossIsConfirmed'
  BY <1>3 DEF LossIsConfirmed
<1>5. QED  BY <1>2, <1>4

\* The first of the steps left is permitted, and so are the rest.
LEMMA NextOfThePlan ==
  ASSUME NEW q \in CallState, OnItsWay(q), q.pc = "act"
  PROVE  /\ Permitted(q.ask, Head(q.left))
         /\ Tail(q.left) \in Seq(StepNames) /\ PermittedPlan(q.ask, Tail(q.left))
<1>1. /\ q.left \in Seq(StepNames) /\ q.left # <<>>
      /\ \A i \in DOMAIN q.left : Permitted(q.ask, q.left[i])
  BY DEF OnItsWay, PermittedPlan
<1>2. DEFINE rest == Tail(q.left)
<1>3. /\ Head(q.left) = q.left[1] /\ 1 \in DOMAIN q.left /\ rest \in Seq(StepNames)
      /\ \A i \in DOMAIN rest : rest[i] = q.left[i + 1] /\ i + 1 \in DOMAIN q.left
  BY <1>1
<1>4. QED  BY <1>1, <1>3 DEF PermittedPlan

-----------------------------------------------------------------------------
(* The steps *)

\* One call moves to a state of a call, and the others stay.
LEMMA OneCallMoves ==
  ASSUME AgentTypes, NEW c \in Calls, NEW new \in CallState, call' = [call EXCEPT ![c] = new]
  PROVE  /\ call' \in [Calls -> CallState] /\ call'[c] = new
         /\ \A d \in Calls : d # c => call'[d] = call[d]
  BY DEF AgentTypes

LEMMA CallKeeps ==
  ASSUME AgentInv, NEW c \in Calls, Call(c) PROVE AgentInv'
<1> USE DEF AgentInv
<1>1. PICK a \in Asks : \E plan \in Plans(a) :
        call' = [call EXCEPT ![c] =
                   [pc |-> IF ~a.id THEN "over" ELSE IF plan = Refusal THEN "audit" ELSE "act",
                    ask |-> a, left |-> plan, outcome |-> IF plan = Refusal THEN "refused" ELSE "done"]]
  BY DEF Call
<1> PICK plan \in Plans(a) :
        call' = [call EXCEPT ![c] =
                   [pc |-> IF ~a.id THEN "over" ELSE IF plan = Refusal THEN "audit" ELSE "act",
                    ask |-> a, left |-> plan, outcome |-> IF plan = Refusal THEN "refused" ELSE "done"]]
  BY <1>1
<1>2. DEFINE new == [pc |-> IF ~a.id THEN "over" ELSE IF plan = Refusal THEN "audit" ELSE "act",
                     ask |-> a, left |-> plan, outcome |-> IF plan = Refusal THEN "refused" ELSE "done"]
<1>3. PermittedPlan(a, plan) /\ plan \in Seq(StepNames)
  BY PlansArePermitted DEF PermittedPlan
<1>4. new \in CallState /\ OnItsWay(new)
  BY <1>3 DEF CallState, Outcomes, OnItsWay, Refusal
<1>5. /\ call' \in [Calls -> CallState] /\ call'[c] = new
      /\ \A d \in Calls : d # c => call'[d] = call[d]
  <2> HIDE DEF new
  <2>1. call' = [call EXCEPT ![c] = new]
    BY DEF new
  <2>2. QED  BY <1>4, <2>1, OneCallMoves
<1>6. call[c].pc = "new" /\ UNCHANGED <<lines, answers, changed, lost>>
  BY DEF Call
<1>7. AgentTypes'
  BY <1>5, <1>6 DEF AgentTypes
<1>8. ASSUME NEW d \in Calls PROVE OnItsWay(call[d])' /\ Told(d)'
  <2>1. CASE d = c
    <3>1. new.pc \in {"act", "audit", "over"}
      OBVIOUS
    <3>2. LinesOf(c) = {} /\ answers[c] = "none"
      BY <1>6 DEF Told
    <3>3. LinesOf(c)' = {} /\ answers'[c] = "none"
      BY <1>6, <3>2 DEF LinesOf
    <3>4. Told(c)'
      BY <1>5, <3>1, <3>3 DEF Told
    <3>5. OnItsWay(call[c])'
      BY <1>4, <1>5 DEF OnItsWay
    <3>6. QED  BY <2>1, <3>4, <3>5
  <2>2. CASE d # c
    <3>1. call'[d] = call[d] /\ LinesOf(d)' = LinesOf(d)
      BY <1>5, <1>6, <2>2 DEF LinesOf
    <3>2. OnItsWay(call[d])'
      BY <3>1 DEF OnItsWay
    <3>3. Told(d)'
      BY <1>6, <3>1, TellsTheSame
    <3>4. QED  BY <3>2, <3>3
  <2>3. QED  BY <2>1, <2>2
<1>9. ChangesAreAudited' /\ LossIsConfirmed'
  BY <1>5, <1>6 DEF ChangesAreAudited, LossIsConfirmed, AgentTypes
<1>10. QED  BY <1>7, <1>8, <1>9

\* A call moves on without a word: neither a line nor an answer.
LEMMA MovesOn ==
  ASSUME AgentInv, NEW c \in Calls, NEW new \in CallState, OnItsWay(new),
         call' = [call EXCEPT ![c] = new], UNCHANGED <<lines, answers>>,
         new.ask = call[c].ask,
         call[c].pc \in {"act", "audit"}, new.pc \in {"act", "audit", "over"}
  PROVE  /\ call' \in [Calls -> CallState]
         /\ \A d \in Calls : OnItsWay(call[d])' /\ Told(d)'
<1>1. /\ call' \in [Calls -> CallState] /\ call'[c] = new
      /\ \A d \in Calls : d # c => call'[d] = call[d]
  BY OneCallMoves DEF AgentInv
<1>2. ASSUME NEW d \in Calls PROVE OnItsWay(call[d])' /\ Told(d)'
  <2>1. LinesOf(d)' = LinesOf(d)
    BY DEF LinesOf
  <2>2. Told(d)'
    <3>1. Told(d) /\ call'[d].ask = call[d].ask
      BY <1>1 DEF AgentInv
    <3>2. CASE d = c
      BY <1>1, <2>1, <3>1, <3>2, TellsTheSame
    <3>3. CASE d # c
      BY <1>1, <2>1, <3>1, <3>3, TellsTheSame
    <3>4. QED  BY <3>2, <3>3
  <2>3. CASE d = c
    BY <1>1, <2>2, <2>3 DEF OnItsWay
  <2>4. CASE d # c
    BY <1>1, <2>2, <2>4 DEF OnItsWay, AgentInv
  <2>5. QED  BY <2>3, <2>4
<1>3. QED  BY <1>1, <1>2

LEMMA StepKeeps ==
  ASSUME AgentInv, NEW c \in Calls, NEW works \in BOOLEAN, Step(c, works) PROVE AgentInv'
<1>1. DEFINE s == Head(call[c].left)
             left == IF works \/ s \notin Stops THEN Tail(call[c].left) ELSE <<>>
             new == [call[c] EXCEPT !.left = left,
                                    !.outcome = Outcome(call[c], s, works),
                                    !.pc = IF left = <<>> THEN "audit" ELSE call[c].pc]
<1>2. /\ call[c].pc = "act" /\ call[c] \in CallState /\ OnItsWay(call[c])
      /\ UNCHANGED <<lines, answers>>
  BY DEF Step, AgentInv, AgentTypes
<1>3. call' = [call EXCEPT ![c] = new]
  BY DEF Step, AgentInv, AgentTypes, CallState
<1>4. /\ Permitted(call[c].ask, s)
      /\ left \in Seq(StepNames) /\ PermittedPlan(call[c].ask, left)
  <2>1. PermittedPlan(call[c].ask, <<>>)
    BY NoPlan DEF Refusal
  <2>2. QED  BY <1>2, <2>1, NextOfThePlan
<1>5. /\ new \in CallState /\ new.ask = call[c].ask /\ new.left = left
      /\ new.pc = (IF left = <<>> THEN "audit" ELSE "act")
      /\ new.outcome \in Outcomes \cup {"none"} /\ new.outcome \notin {"none", "refused"}
  <2> HIDE DEF left, s
  <2>1. call[c].outcome \notin {"none", "refused"}
    BY <1>2 DEF OnItsWay
  <2>2. QED  BY <1>2, <1>4, <2>1 DEF CallState, Outcomes, Outcome
<1> HIDE DEF new, left, s
<1>6. OnItsWay(new)
  BY <1>4, <1>5 DEF OnItsWay
<1>7. /\ call' \in [Calls -> CallState]
      /\ \A d \in Calls : OnItsWay(call[d])' /\ Told(d)'
  BY <1>2, <1>3, <1>5, <1>6, MovesOn
<1>8. changed' \subseteq Calls /\ ChangesAreAudited' /\ LossIsConfirmed'
  <2>1. /\ call'[c] = new /\ \A d \in Calls : d # c => call'[d] = call[d]
    BY <1>3 DEF AgentInv, AgentTypes
  <2>2. Does(c, s) \/ UNCHANGED <<things, lost, changed>>
    BY DEF Step, s
  <2>3. CASE Does(c, s)
    BY <1>2, <1>4, <1>5, <2>1, <2>3, DoesWhatItMay DEF AgentInv
  <2>4. CASE UNCHANGED <<things, lost, changed>>
    BY <1>2, <1>5, <2>1, <2>4 DEF ChangesAreAudited, LossIsConfirmed, AgentInv, AgentTypes
  <2>5. QED  BY <2>2, <2>3, <2>4
<1>9. AgentTypes'
  BY <1>2, <1>7, <1>8 DEF AgentTypes, AgentInv
<1>10. QED  BY <1>7, <1>8, <1>9 DEF AgentInv

\* A call that is over keeps what it was asked and what came of it.
LEMMA OverIsACall ==
  ASSUME NEW q \in CallState, OnItsWay(q), q.pc # "new"
  PROVE  /\ [q EXCEPT !.pc = "over"] \in CallState /\ OnItsWay([q EXCEPT !.pc = "over"])
         /\ [q EXCEPT !.pc = "over"].ask = q.ask /\ [q EXCEPT !.pc = "over"].pc = "over"
         /\ [q EXCEPT !.pc = "over"].outcome = q.outcome
  BY DEF CallState, OnItsWay

LEMMA HangUpKeeps ==
  ASSUME AgentInv, NEW c \in Calls, NEW done \in BOOLEAN, HangUp(c, done) PROVE AgentInv'
<1>1. DEFINE new == [call[c] EXCEPT !.pc = "over"]
<1>2. /\ call[c].pc = "act" /\ call[c] \in CallState /\ OnItsWay(call[c])
      /\ UNCHANGED <<lines, answers>>
  BY DEF HangUp, AgentInv, AgentTypes
<1>3. call' = [call EXCEPT ![c] = new]
  BY DEF HangUp
<1>4. /\ new \in CallState /\ OnItsWay(new) /\ new.ask = call[c].ask /\ new.pc = "over"
      /\ new.outcome # "refused"
  <2>1. call[c].outcome # "refused"
    BY <1>2 DEF OnItsWay
  <2>2. QED  BY <1>2, <2>1, OverIsACall
<1>5. Permitted(call[c].ask, Head(call[c].left))
  BY <1>2, NextOfThePlan
<1> HIDE DEF new
<1>6. /\ call' \in [Calls -> CallState]
      /\ \A d \in Calls : OnItsWay(call[d])' /\ Told(d)'
  BY <1>2, <1>3, <1>4, MovesOn
<1>7. changed' \subseteq Calls /\ ChangesAreAudited' /\ LossIsConfirmed'
  <2>1. /\ call'[c] = new /\ \A d \in Calls : d # c => call'[d] = call[d]
    BY <1>3 DEF AgentInv, AgentTypes
  <2>2. Does(c, Head(call[c].left)) \/ UNCHANGED <<things, lost, changed>>
    BY DEF HangUp
  <2>3. CASE Does(c, Head(call[c].left))
    BY <1>2, <1>4, <1>5, <2>1, <2>3, DoesWhatItMay DEF AgentInv
  <2>4. CASE UNCHANGED <<things, lost, changed>>
    BY <1>2, <1>4, <2>1, <2>4 DEF ChangesAreAudited, LossIsConfirmed, AgentInv, AgentTypes
  <2>5. QED  BY <2>2, <2>3, <2>4
<1>8. AgentTypes'
  BY <1>2, <1>6, <1>7 DEF AgentTypes, AgentInv
<1>9. QED  BY <1>6, <1>7, <1>8 DEF AgentInv

LEMMA PanicKeeps ==
  ASSUME AgentInv, NEW c \in Calls, Panic(c) PROVE AgentInv'
<1>1. DEFINE new == [call[c] EXCEPT !.pc = "over"]
<1>2. /\ call[c].pc = "audit" /\ call[c] \in CallState /\ OnItsWay(call[c])
      /\ UNCHANGED <<lines, answers, changed, lost>>
  BY DEF Panic, AgentInv, AgentTypes
<1>3. call' = [call EXCEPT ![c] = new]
  BY DEF Panic
<1>4. /\ new \in CallState /\ OnItsWay(new) /\ new.ask = call[c].ask /\ new.pc = "over"
      /\ new.outcome = call[c].outcome
  BY <1>2, OverIsACall
<1> HIDE DEF new
<1>5. /\ call' \in [Calls -> CallState]
      /\ \A d \in Calls : OnItsWay(call[d])' /\ Told(d)'
  BY <1>2, <1>3, <1>4, MovesOn
<1>6. /\ call'[c] = new /\ \A d \in Calls : d # c => call'[d] = call[d]
  BY <1>3 DEF AgentInv, AgentTypes
<1>7. ChangesAreAudited' /\ LossIsConfirmed'
  BY <1>2, <1>4, <1>6 DEF ChangesAreAudited, LossIsConfirmed, AgentInv, AgentTypes
<1>8. AgentTypes'
  BY <1>2, <1>5 DEF AgentTypes, AgentInv
<1>9. QED  BY <1>5, <1>7, <1>8 DEF AgentInv

LEMMA CutOffKeeps == ASSUME AgentInv, CutOff PROVE AgentInv'
<1>1. UNCHANGED <<lines, answers, changed, lost>>
  BY DEF CutOff
<1>2. ASSUME NEW c \in Calls
      PROVE  call'[c] = (IF call[c].pc = "new" THEN call[c] ELSE [call[c] EXCEPT !.pc = "over"])
  BY DEF CutOff
<1>3. ASSUME NEW c \in Calls
      PROVE  /\ call'[c] \in CallState /\ OnItsWay(call'[c]) /\ Told(c)'
             /\ call'[c].pc = "new" <=> call[c].pc = "new"
             /\ call'[c].pc = "new" \/ call'[c].ask = call[c].ask
             /\ call'[c].outcome = call[c].outcome
  <2>1. call[c] \in CallState /\ OnItsWay(call[c]) /\ Told(c)
    BY DEF AgentInv, AgentTypes
  <2>2. LinesOf(c)' = LinesOf(c)
    BY <1>1 DEF LinesOf
  <2>3. CASE call[c].pc = "new"
    BY <1>1, <1>2, <2>1, <2>2, <2>3, TellsTheSame
  <2>4. CASE call[c].pc # "new"
    <3>1. /\ call'[c] \in CallState /\ OnItsWay(call'[c])
          /\ call'[c].ask = call[c].ask /\ call'[c].pc = "over"
          /\ call'[c].outcome = call[c].outcome
      BY <1>2, <2>1, <2>4, OverIsACall
    <3>2. QED  BY <1>1, <2>1, <2>2, <2>4, <3>1, TellsTheSame
  <2>5. QED  BY <2>3, <2>4
<1>4. call' \in [Calls -> CallState]
  BY <1>3 DEF CutOff
<1>5. AgentTypes'
  BY <1>1, <1>4 DEF AgentTypes, AgentInv
<1>6. ChangesAreAudited' /\ LossIsConfirmed'
  BY <1>1, <1>3 DEF ChangesAreAudited, LossIsConfirmed, AgentInv, AgentTypes
<1>7. \A c \in Calls : OnItsWay(call[c])' /\ Told(c)'
  BY <1>3 DEF OnItsWay
<1>8. QED  BY <1>5, <1>6, <1>7 DEF AgentInv

\* What is written of a call: what the first line of its answer says, and none of
\* what is always hidden.
LEMMA LineIsClean ==
  ASSUME AgentInv, NEW c \in Calls, call[c].pc # "new"
  PROVE  /\ Line(c) \in LineRec /\ Line(c).call = c
         /\ \/ Line(c).outcome = call[c].outcome
            \/ Line(c).outcome = "prelude" /\ call[c].ask.action = "write"
         /\ Line(c).shows \cap {"value", "database_url"} = {}
         /\ "env" \in Line(c).shows => call[c].ask.form = "odd_env"
<1>1. call[c].outcome \in Outcomes
  BY DEF AgentInv, AgentTypes, CallState, OnItsWay, Outcomes
<1>2. DEFINE shown == Redacted(call[c].ask, SecretsIn(call[c].ask))
<1>3. /\ shown \in SUBSET {"arguments", "database_url", "env", "sql", "value"}
      /\ shown \cap {"value", "database_url"} = {}
      /\ "env" \in shown => call[c].ask.form = "odd_env"
  BY DEF Redacted, SecretsIn, Holds
<1> HIDE DEF shown
<1>4. Line(c) = [call |-> c, outcome |-> Says(call[c].ask, call[c].outcome), shows |-> shown]
  BY DEF Line, shown
<1>5. DEFINE says == Says(call[c].ask, call[c].outcome)
<1>6. /\ says \in Outcomes \cup {"prelude"}
      /\ says = call[c].outcome \/ (says = "prelude" /\ call[c].ask.action = "write")
  BY <1>1 DEF Says
<1> HIDE DEF says
<1>7. Line(c) = [call |-> c, outcome |-> says, shows |-> shown]
  BY <1>4 DEF says
<1>8. QED  BY <1>3, <1>6, <1>7 DEF LineRec

LEMMA AuditKeeps == ASSUME AgentInv, NEW c \in Calls, Audit(c) PROVE AgentInv'
<1>1. DEFINE new == [call[c] EXCEPT !.pc = "answer"]
<1>2. /\ call[c].pc = "audit" /\ call[c] \in CallState /\ OnItsWay(call[c]) /\ Told(c)
      /\ call' = [call EXCEPT ![c] = new]
      /\ UNCHANGED <<answers, changed, lost>> /\ lines \in Seq(LineRec)
  BY DEF Audit, AgentInv, AgentTypes
<1>3. /\ new \in CallState /\ OnItsWay(new) /\ new.ask = call[c].ask /\ new.pc = "answer"
      /\ new.outcome = call[c].outcome
  BY <1>2 DEF CallState, OnItsWay
<1> HIDE DEF new
<1>4. /\ call' \in [Calls -> CallState] /\ call'[c] = new
      /\ \A d \in Calls : d # c => call'[d] = call[d]
  BY <1>2, <1>3, OneCallMoves DEF AgentInv
<1>5. Line(c) \in LineRec /\ Line(c).call = c /\ Line(c)' = Line(c)
  <2>1. Line(c)' = Line(c)
    BY <1>3, <1>4 DEF Line
  <2>2. QED  BY <1>2, <2>1, LineIsClean
<1>6. lines' = IF call[c].ask.tool \in WRITE_TOOLS THEN Append(lines, Line(c)) ELSE lines
  BY DEF Audit
<1>7. /\ lines' \in Seq(LineRec)
      /\ \A i \in DOMAIN lines : i \in DOMAIN lines' /\ lines'[i] = lines[i]
      /\ \A i \in DOMAIN lines' : i \in DOMAIN lines \/ lines'[i].call = c
  BY <1>2, <1>5, <1>6
<1>8. ASSUME NEW d \in Calls, d # c PROVE OnItsWay(call[d])' /\ Told(d)'
  <2>1. call'[d] = call[d] /\ Told(d) /\ answers'[d] = answers[d]
    BY <1>2, <1>4, <1>8 DEF AgentInv
  <2>2. LinesOf(d)' = LinesOf(d)
    BY <1>7, <1>8 DEF LinesOf
  <2>3. Told(d)'
    BY <1>7, <2>1, <2>2, TellsTheSame
  <2>4. OnItsWay(call[d])'
    BY <1>4, <1>8 DEF OnItsWay, AgentInv
  <2>5. QED  BY <2>3, <2>4
<1>9. OnItsWay(call[c])' /\ Told(c)'
  <2>1. LinesOf(c) = {} /\ answers'[c] = "none"
    BY <1>2 DEF Told
  <2>2. Recorded(c)'
    <3>1. CASE call[c].ask.tool \in WRITE_TOOLS
      <4>1. DEFINE i == Len(lines) + 1
      <4>2. /\ i \in DOMAIN lines' /\ lines'[i] = Line(c)
            /\ \A j \in DOMAIN lines' : j # i => j \in DOMAIN lines /\ lines'[j] = lines[j]
        BY <1>2, <1>5, <1>6, <3>1
      <4> HIDE DEF i
      <4>3. LinesOf(c)' = {i}
        BY <1>5, <2>1, <4>2 DEF LinesOf
      <4>4. call'[c].ask.tool \in WRITE_TOOLS /\ lines'[i] = Line(c)'
        BY <1>3, <1>4, <1>5, <3>1, <4>2
      <4>5. QED  BY <4>2, <4>3, <4>4 DEF Recorded
    <3>2. CASE call[c].ask.tool \notin WRITE_TOOLS
      <4>1. LinesOf(c)' = {} /\ call'[c].ask.tool \notin WRITE_TOOLS
        BY <1>3, <1>4, <1>6, <2>1, <3>2 DEF LinesOf
      <4>2. QED  BY <4>1 DEF Recorded
    <3>3. QED  BY <3>1, <3>2
  <2>3. Told(c)'
    BY <1>3, <1>4, <2>1, <2>2 DEF Told
  <2>4. QED  BY <1>3, <1>4, <2>3 DEF OnItsWay
<1>10. ChangesAreAudited' /\ LossIsConfirmed'
  BY <1>2, <1>3, <1>4 DEF ChangesAreAudited, LossIsConfirmed, AgentInv, AgentTypes
<1>11. AgentTypes'
  BY <1>2, <1>4, <1>7 DEF AgentTypes, AgentInv
<1>12. QED  BY <1>8, <1>9, <1>10, <1>11 DEF AgentInv

LEMMA AnswerKeeps ==
  ASSUME AgentInv, NEW c \in Calls, NEW heard \in BOOLEAN, Answer(c, heard) PROVE AgentInv'
<1>1. DEFINE new == [call[c] EXCEPT !.pc = "over"]
<1>2. /\ call[c].pc = "answer" /\ call[c] \in CallState /\ OnItsWay(call[c]) /\ Told(c)
      /\ call' = [call EXCEPT ![c] = new]
      /\ answers' = [answers EXCEPT ![c] = IF heard THEN call[c].outcome ELSE @]
      /\ UNCHANGED <<lines, changed, lost>>
  BY DEF Answer, AgentInv, AgentTypes
<1>3. /\ new \in CallState /\ OnItsWay(new) /\ new.ask = call[c].ask /\ new.pc = "over"
      /\ new.outcome = call[c].outcome
  BY <1>2, OverIsACall
<1> HIDE DEF new
<1>4. /\ call' \in [Calls -> CallState] /\ call'[c] = new
      /\ \A d \in Calls : d # c => call'[d] = call[d]
  BY <1>2, <1>3, OneCallMoves DEF AgentInv
<1>5. /\ answers' \in [Calls -> Outcomes \cup {"none"}]
      /\ answers'[c] \in {"none", call[c].outcome}
      /\ \A d \in Calls : d # c => answers'[d] = answers[d]
  <2>1. call[c].outcome \in Outcomes \cup {"none"} /\ answers[c] = "none"
    BY <1>2 DEF CallState, Told
  <2>2. QED  BY <1>2, <2>1 DEF AgentInv, AgentTypes
<1>6. ASSUME NEW d \in Calls, d # c PROVE OnItsWay(call[d])' /\ Told(d)'
  <2>1. call'[d] = call[d] /\ Told(d) /\ answers'[d] = answers[d] /\ LinesOf(d)' = LinesOf(d)
    BY <1>2, <1>4, <1>5, <1>6 DEF AgentInv, LinesOf
  <2>2. Told(d)'
    BY <1>2, <2>1, TellsTheSame
  <2>3. OnItsWay(call[d])'
    BY <1>4, <1>6 DEF OnItsWay, AgentInv
  <2>4. QED  BY <2>2, <2>3
<1>7. OnItsWay(call[c])' /\ Told(c)'
  <2>1. Recorded(c)
    BY <1>2 DEF Told
  <2>2. Recorded(c)'
    <3>1. LinesOf(c)' = LinesOf(c)
      BY <1>2 DEF LinesOf
    <3>2. CASE call[c].ask.tool \in WRITE_TOOLS
      <4>1. PICK i \in DOMAIN lines : LinesOf(c) = {i} /\ lines[i] = Line(c)
        BY <2>1, <3>2 DEF Recorded
      <4>2. LinesOf(c)' = {i} /\ lines'[i] = Line(c)'
        BY <1>2, <1>3, <1>4, <3>1, <4>1 DEF Line
      <4>3. QED  BY <1>2, <1>3, <1>4, <3>2, <4>1, <4>2 DEF Recorded
    <3>3. CASE call[c].ask.tool \notin WRITE_TOOLS
      BY <1>3, <1>4, <2>1, <3>1, <3>3 DEF Recorded
    <3>4. QED  BY <3>2, <3>3
  <2>3. Told(c)'
    BY <1>3, <1>4, <1>5, <2>2 DEF Told
  <2>4. QED  BY <1>3, <1>4, <2>3 DEF OnItsWay
<1>8. ChangesAreAudited' /\ LossIsConfirmed'
  BY <1>2, <1>3, <1>4 DEF ChangesAreAudited, LossIsConfirmed, AgentInv, AgentTypes
<1>9. AgentTypes'
  BY <1>2, <1>4, <1>5 DEF AgentTypes, AgentInv
<1>10. QED  BY <1>6, <1>7, <1>8, <1>9 DEF AgentInv

\* What the panel does is not a call's, and where nothing moves nothing is said.
LEMMA StayKeeps ==
  ASSUME AgentInv, UNCHANGED <<call, lines, answers, changed, lost>> PROVE AgentInv'
<1>1. AgentTypes' /\ ChangesAreAudited' /\ LossIsConfirmed'
  BY DEF AgentInv, AgentTypes, ChangesAreAudited, LossIsConfirmed
<1>2. ASSUME NEW c \in Calls PROVE OnItsWay(call[c])' /\ Told(c)'
  <2>1. Told(c) /\ OnItsWay(call[c]) /\ LinesOf(c)' = LinesOf(c)
    BY DEF AgentInv, LinesOf
  <2>2. QED  BY <2>1, TellsTheSame
<1>3. QED  BY <1>1, <1>2 DEF AgentInv

LEMMA AgentKeeps == ASSUME AgentInv, [AgentNext]_agentVars PROVE AgentInv'
<1>1. ASSUME NEW c \in Calls, Call(c) \/ Audit(c) \/ Panic(c) PROVE AgentInv'
  BY <1>1, CallKeeps, AuditKeeps, PanicKeeps
<1>2. ASSUME NEW c \in Calls, NEW b \in BOOLEAN, Step(c, b) \/ HangUp(c, b) \/ Answer(c, b)
      PROVE  AgentInv'
  BY <1>2, StepKeeps, HangUpKeeps, AnswerKeeps
<1>3. ASSUME Panel PROVE AgentInv'
  BY <1>3, StayKeeps DEF Panel
<1>4. ASSUME UNCHANGED agentVars PROVE AgentInv'
  BY <1>4, StayKeeps DEF agentVars
<1>5. QED  BY <1>1, <1>2, <1>3, <1>4, CutOffKeeps DEF AgentNext

-----------------------------------------------------------------------------
(* The theorems *)

LEMMA AgentSafe == AgentSpec => []AgentInv
  BY AgentStarts, AgentKeeps, PTL DEF AgentSpec

\* What is told of a call is what its line says.
LEMMA TellsTrue == AgentInv => LinesAreTrue
<1> SUFFICES ASSUME AgentInv, NEW c \in Calls
             PROVE  /\ c \in changed => call[c].ask.tool \notin ReadOnlyHint
                    /\ c \in changed /\ answers[c] # "none" => Cardinality(LinesOf(c)) = 1
                    /\ \A i \in LinesOf(c) :
                         /\ \/ answers[c] \in {"none", lines[i].outcome}
                            \/ call[c].ask.action = "write" /\ lines[i].outcome = "prelude"
                         /\ lines[i].outcome = "refused" => c \notin changed
                         /\ lines[i].shows \cap {"value", "database_url"} = {}
                         /\ "env" \in lines[i].shows => call[c].ask.form = "odd_env"
  BY DEF LinesAreTrue
<1>1. Told(c)
  BY DEF AgentInv
<1>2. c \in changed => call[c].ask.tool \in WRITE_TOOLS /\ call[c].outcome # "refused"
  BY DEF AgentInv, ChangesAreAudited
<1>3. c \in changed => call[c].ask.tool \notin ReadOnlyHint
  BY <1>2 DEF WRITE_TOOLS, ReadOnlyHint
<1>4. ASSUME c \in changed, answers[c] # "none" PROVE Cardinality(LinesOf(c)) = 1
  <2>1. PICK i \in DOMAIN lines : LinesOf(c) = {i}
    BY <1>1, <1>2, <1>4 DEF Told, Recorded
  <2>2. QED  BY <2>1, FS_Singleton
<1>5. ASSUME NEW i \in LinesOf(c)
      PROVE  /\ \/ answers[c] \in {"none", lines[i].outcome}
                \/ call[c].ask.action = "write" /\ lines[i].outcome = "prelude"
             /\ lines[i].outcome = "refused" => c \notin changed
             /\ lines[i].shows \cap {"value", "database_url"} = {}
             /\ "env" \in lines[i].shows => call[c].ask.form = "odd_env"
  <2>1. LinesOf(c) # {} /\ call[c].pc # "new"
    BY <1>1 DEF Told
  <2>2. lines[i] = Line(c)
    BY <1>1, <2>1 DEF Told, Recorded
  <2>3. answers[c] \in {"none", call[c].outcome}
    BY <1>1 DEF Told
  <2>4. /\ \/ lines[i].outcome = call[c].outcome
           \/ lines[i].outcome = "prelude" /\ call[c].ask.action = "write"
        /\ lines[i].shows \cap {"value", "database_url"} = {}
        /\ "env" \in lines[i].shows => call[c].ask.form = "odd_env"
    BY <2>1, <2>2, LineIsClean
  <2>5. QED  BY <1>2, <2>3, <2>4
<1>6. QED  BY <1>3, <1>4, <1>5

\* A call that changed something is of a tool announced as changing things, and was
\* not told it was refused; once answered it has one line, with what the first line
\* of its answer says and nothing of what is hidden, for any number of calls, faults,
\* restarts and changes at the panel.
THEOREM AuditIsTrue == AgentSpec => []LinesAreTrue
  BY AgentSafe, TellsTrue, PTL

\* No call takes away what was not confirmed for it, for any number of calls,
\* faults, restarts and changes at the panel.
THEOREM NothingLostUnasked == AgentSpec => []LossIsConfirmed
  BY AgentSafe, PTL DEF AgentInv
-----------------------------------------------------------------------------
(***************************************************************************)
(* The console                                                             *)
(* What a page shows is tied to what the table has been since the          *)
(* request came: that holds what the table of the database the request     *)
(* is for is now, for as long as it is under way.                          *)
(***************************************************************************)

Pcs == {"new", "names", "info", "page", "count", "statement", "answered", "refused"}
Question == [pc : Pcs, kind : Requested, write : BOOLEAN, offset : Nat, cell : Cells,
             on : Stores \cup {"none"}, wrote : BOOLEAN, blind : BOOLEAN,
             page : Seq(Printed), total : Nat]

World ==
  /\ base \in [Stores -> Seq(Cells) \cup {Missing}]
  /\ current \in Stores \cup {"none"}

\* The table was s's at one moment: a page of it, a count of it.
PageIn(q, s) ==
  \E rows \in s : /\ rows # Missing
                  /\ Plain(rows) => q.page = Slice(rows, q.offset, Limit)
TotalIn(q, s) == \E rows \in s : rows # Missing /\ q.total = Len(rows)

\* What holds of a request wherever it is, when s is what was seen since it came.
Fits(q, s) ==
  /\ q.kind = "insert" => q.pc \in {"names", "statement", "answered", "refused"}
  /\ q.kind \in Browsing => q.pc \in {"names", "page", "count", "answered"}
  /\ q.pc \in {"names", "info", "page", "count", "statement"} => q.on \in Stores
  /\ q.wrote => q.write \/ (q.kind = "script" /\ q.on = Postgres)
  /\ q.wrote => q.pc \in {"answered", "refused"}
  /\ Len(q.page) <= Limit
  /\ q.kind = "insert" /\ ~q.blind => /\ q.pc = "answered" => q.wrote
                                      /\ q.pc = "refused" => ~q.wrote
  /\ q.kind \in Browsing /\ q.pc \in {"count", "answered"} /\ ~q.blind => PageIn(q, s)
  /\ q.kind \in Browsing /\ q.pc # "answered" => q.total = 0
  /\ q.kind \in Browsing /\ ~q.blind /\ q.total # 0 => TotalIn(q, s)

AsksFit == ask \in [Clients -> Question] /\ \A c \in Clients : Fits(ask[c], seen[c])

\* What is seen for a request under way is up to date.
SeenIsCurrent ==
  \A c \in Clients :
    ask[c].kind \in Browsing /\ ask[c].pc \in {"names", "page", "count"} => base[ask[c].on] \in seen[c]

Marks ==
  /\ saved = [n \in DOMAIN saved |-> saved[n]] /\ \A n \in DOMAIN saved : saved[n] \in BOOLEAN
  /\ RunsAreMarked
  /\ by \in [Clients -> DOMAIN saved \cup {"-"}]
  /\ \A c \in Clients : by[c] # "-" => saved[by[c]]

ConsoleInv == World /\ AsksFit /\ SeenIsCurrent /\ Marks

-----------------------------------------------------------------------------
(* What is printed and what is read from it                                 *)

PlainCells == Cells \ {"blank", "bar", "torn"}

LEMMA SliceIs ==
  ASSUME NEW rows \in Seq(Cells), NEW offset \in Nat
  PROVE  /\ Slice(rows, offset, Limit) \in Seq(Cells) /\ Len(Slice(rows, offset, Limit)) <= Limit
         /\ Plain(rows) => Slice(rows, offset, Limit) \in Seq(PlainCells)
<1> DEFINE last == Min({Len(rows), offset + Limit})
<1>1. Len(rows) \in Nat /\ Limit \in Nat /\ offset + Limit \in Nat
  BY ConsoleAssumption DEF ConsoleAssumption
<1>2. last \in Nat /\ last <= Len(rows) /\ last <= offset + Limit
  <2>1. \E x \in {Len(rows), offset + Limit} : \A y \in {Len(rows), offset + Limit} : x <= y
    BY <1>1
  <2>2. QED  BY <1>1, <2>1 DEF Min
<1> HIDE DEF last
<1>3. \A i \in offset + 1 .. last : rows[i] \in Cells
  BY <1>1, <1>2
<1>4. Plain(rows) => \A i \in offset + 1 .. last : rows[i] \in PlainCells
  BY <1>1, <1>2, <1>3 DEF Plain, PlainCells, Cells
<1>5. /\ SubSeq(rows, offset + 1, last) \in Seq(Cells)
      /\ Len(SubSeq(rows, offset + 1, last)) = IF offset + 1 <= last THEN last - offset ELSE 0
  BY <1>2, <1>3, SubSeqProperties
<1>6. Plain(rows) => SubSeq(rows, offset + 1, last) \in Seq(PlainCells)
  BY <1>2, <1>4, SubSeqProperties
<1>7. Len(SubSeq(rows, offset + 1, last)) <= Limit
  BY <1>1, <1>2, <1>5
<1>8. QED  BY <1>5, <1>6, <1>7 DEF Slice, last

\* Every cell is printed on two lines, of which the second is not there.
LEMMA TwiceIs ==
  ASSUME NEW rows \in Seq(Cells)
  PROVE  /\ Twice(rows) \in Seq(Cells \cup {"split"}) /\ Len(Twice(rows)) = 2 * Len(rows)
         /\ \A i \in 1 .. 2 * Len(rows) :
              /\ (i + 1) \div 2 \in 1 .. Len(rows)
              /\ Twice(rows)[i] = IF rows[(i + 1) \div 2] = "bar" THEN "split" ELSE rows[(i + 1) \div 2]
<1> PICK n \in Nat : n = Len(rows)
  OBVIOUS
<1>1. \A i \in 1 .. 2 * n : (i + 1) \div 2 \in 1 .. n
  OBVIOUS
<1>2. Twice(rows) = [i \in 1 .. 2 * n |->
                       IF rows[(i + 1) \div 2] = "bar" THEN "split" ELSE rows[(i + 1) \div 2]]
  BY DEF Twice
<1>3. \A i \in 1 .. 2 * n : Twice(rows)[i] \in Cells \cup {"split"}
  <2> SUFFICES ASSUME NEW i \in 1 .. 2 * n PROVE Twice(rows)[i] \in Cells \cup {"split"}
    OBVIOUS
  <2>1. rows[(i + 1) \div 2] \in Cells
    BY <1>1
  <2>2. QED  BY <1>2, <2>1
<1>4. QED  BY <1>1, <1>2, <1>3

LEMMA ShownIs == ASSUME NEW rows \in Seq(Cells) PROVE Shown(rows) \in Seq(Cells \cup {"split"})
BY TwiceIs, PickedIn DEF Shown

Odds(s) == {i \in DOMAIN s : i % 2 = 1 \/ s[i] = "torn"}

LEMMA TwiceOfMore ==
  ASSUME NEW t \in Seq(PlainCells), NEW x \in PlainCells
  PROVE  /\ Twice(t) \in Seq(PlainCells) /\ Len(Twice(t)) = 2 * Len(t)
         /\ Twice(Append(t, x)) = Append(Append(Twice(t), x), x)
<1> PICK n \in Nat : n = Len(t)
  OBVIOUS
<1> DEFINE a == Append(t, x)
           b == Append(Append(Twice(t), x), x)
<1>1. \A y \in PlainCells : y \in Cells /\ y # "bar" /\ y # "torn"
  BY DEF PlainCells, Cells
<1>2. t \in Seq(Cells) /\ a \in Seq(Cells) /\ Len(a) = n + 1 /\ a[n + 1] = x /\ \A j \in 1 .. n : a[j] = t[j]
  BY <1>1
<1>3. Twice(t) \in Seq(Cells \cup {"split"}) /\ Len(Twice(t)) = 2 * n
  BY <1>2, TwiceIs
<1>4. ASSUME NEW i \in 1 .. 2 * n PROVE Twice(t)[i] = t[(i + 1) \div 2] /\ (i + 1) \div 2 \in 1 .. n
  BY <1>1, <1>2, TwiceIs
<1>5. Twice(t) \in Seq(PlainCells)
  <2>1. \A i \in 1 .. 2 * n : Twice(t)[i] \in PlainCells
    BY <1>4
  <2>2. QED  BY <1>3, <2>1
<1>6. Twice(a) \in Seq(Cells \cup {"split"}) /\ Len(Twice(a)) = 2 * n + 2
  <2> HIDE DEF a
  <2>1. Twice(a) \in Seq(Cells \cup {"split"}) /\ Len(Twice(a)) = 2 * Len(a)
    BY <1>2, TwiceIs
  <2>2. QED  BY <1>2, <2>1
<1>7. b \in Seq(Cells \cup {"split"}) /\ Len(b) = 2 * n + 2 /\ b[2 * n + 1] = x /\ b[2 * n + 2] = x
      /\ \A i \in 1 .. 2 * n : b[i] = Twice(t)[i]
  <2>1. x \in Cells \cup {"split"}
    BY <1>1
  <2>2. QED  BY <1>3, <2>1
<1>8. ASSUME NEW i \in 1 .. 2 * n + 2 PROVE Twice(a)[i] = b[i]
  <2> HIDE DEF a, b
  <2>1. i \in 1 .. 2 * Len(a)
    BY <1>2
  <2> DEFINE k == (i + 1) \div 2
  <2>2. k \in 1 .. n + 1 /\ Twice(a)[i] = IF a[k] = "bar" THEN "split" ELSE a[k]
    BY <1>2, <2>1, TwiceIs
  <2>3. CASE i \in 1 .. 2 * n
    <3>1. k \in 1 .. n /\ b[i] = t[k]
      BY <1>4, <1>7, <2>3
    <3>2. a[k] = t[k] /\ t[k] \in PlainCells
      BY <1>2, <3>1
    <3>3. QED  BY <1>1, <2>2, <3>1, <3>2
  <2>4. CASE i \notin 1 .. 2 * n
    <3>1. (i = 2 * n + 1 \/ i = 2 * n + 2) /\ k = n + 1
      BY <2>4
    <3>2. a[k] = x /\ b[i] = x
      BY <1>2, <1>7, <3>1
    <3>3. QED  BY <1>1, <2>2, <3>2
  <2>5. QED  BY <2>3, <2>4
<1> HIDE DEF a, b
<1>9. Twice(a) = b
  BY <1>6, <1>7, <1>8, SeqEqual
<1>10. QED  BY <1>3, <1>5, <1>9 DEF a, b

\* Cells that each print a line of their own are shown as they are.
LEMMA ShownAsTheyAre == ASSUME NEW rows \in Seq(PlainCells) PROVE Shown(rows) = rows
<1> DEFINE T == {t \in Seq(PlainCells) : Picked(Twice(t), Odds(Twice(t))) = t}
<1>1. <<>> \in T
  <2>1. <<>> \in Seq(Cells) /\ Len(<<>>) = 0
    OBVIOUS
  <2>2. Twice(<<>>) \in Seq(Cells \cup {"split"}) /\ Len(Twice(<<>>)) = 2 * 0
    BY <2>1, TwiceIs
  <2>3. Twice(<<>>) = <<>>
    BY <2>2
  <2>4. QED  BY <2>3, PickedOfNone
<1>2. ASSUME NEW t \in Seq(PlainCells), NEW x \in PlainCells, t \in T PROVE Append(t, x) \in T
  <2> DEFINE u == Twice(t)
             v == Append(u, x)
             w == Append(v, x)
  <2>1. u \in Seq(PlainCells) /\ Twice(Append(t, x)) = w
    BY TwiceOfMore
  <2>2. PICK n \in Nat : n = Len(t) /\ Len(u) = 2 * n
    BY TwiceOfMore
  <2> HIDE DEF u
  <2> HIDE DEF v, w
  <2>3. /\ v \in Seq(PlainCells) /\ Len(v) = 2 * n + 1 /\ v[2 * n + 1] = x
        /\ \A i \in 1 .. 2 * n : v[i] = u[i]
    BY <2>1, <2>2 DEF v
  <2>4. /\ w \in Seq(PlainCells) /\ Len(w) = 2 * n + 2 /\ w[2 * n + 2] = x
        /\ \A i \in 1 .. 2 * n + 1 : w[i] = v[i]
    BY <2>3 DEF w
  <2>5. x # "torn" /\ (2 * n + 1) % 2 = 1 /\ (2 * n + 2) % 2 = 0
    BY DEF PlainCells
  <2>6. /\ DOMAIN u = 1 .. 2 * n /\ DOMAIN v = 1 .. 2 * n + 1 /\ DOMAIN w = 1 .. 2 * n + 2
    BY <2>1, <2>2, <2>3, <2>4
  <2>7. Picked(v, Odds(v)) = Append(Picked(u, Odds(u)), x)
    <3>1. \A i \in 1 .. Len(u) : i \in Odds(u) <=> i \in Odds(v)
      BY <2>2, <2>3, <2>6 DEF Odds
    <3>2. Len(u) + 1 \in Odds(v)
      BY <2>2, <2>5, <2>6 DEF Odds
    <3>3. Picked(Append(u, x), Odds(v)) = Append(Picked(u, Odds(u)), x)
      BY <2>1, <3>1, <3>2, PickedOfMore
    <3>4. QED  BY <3>3 DEF v
  <2>8. Picked(w, Odds(w)) = Picked(v, Odds(v))
    <3>1. \A i \in 1 .. Len(v) : i \in Odds(v) <=> i \in Odds(w)
      BY <2>3, <2>4, <2>6 DEF Odds
    <3>2. Len(v) + 1 \notin Odds(w)
      BY <2>3, <2>4, <2>5, <2>6 DEF Odds
    <3>3. v \in Seq(PlainCells)
      BY <2>3
    <3>4. Picked(Append(v, x), Odds(w))
            = IF Len(v) + 1 \in Odds(w) THEN Append(Picked(v, Odds(v)), x) ELSE Picked(v, Odds(v))
      BY <3>1, <3>3, PickedOfMore
    <3>5. QED  BY <3>2, <3>4 DEF w
  <2>9. Picked(u, Odds(u)) = t
    BY <1>2 DEF u
  <2>10. QED  BY <2>1, <2>7, <2>8, <2>9
<1>3. Seq(PlainCells) \subseteq T
  <2> HIDE DEF T
  <2>1. QED  BY <1>1, <1>2, Grow
<1>4. QED  BY <1>3 DEF Shown, Odds

LEMMA ParsedIsPrinted ==
  ASSUME NEW X, NEW printed \in Seq(X)
  PROVE  Parsed(printed) \in Seq(Printed) /\ Len(Parsed(printed)) <= Limit
<1> DEFINE left == Only(printed, Printed)
<1>1. left \in Seq(X \cap Printed) /\ Limit \in Nat
  BY OnlyPasses, ConsoleAssumption DEF ConsoleAssumption
<1>2. left \in Seq(Printed)
  BY <1>1
<1>3. CASE left = <<>>
  <2>1. Parsed(printed) = <<>>
    BY <1>3 DEF Parsed
  <2>2. QED  BY <1>1, <2>1
<1>4. CASE left # <<>>
  <2> HIDE DEF left
  <2>0. Tail(left) \in Seq(Printed)
    BY <1>2, <1>4
  <2>1. PICK rest \in Seq(Printed) : rest = Tail(left)
    BY <2>0
  <2>2. Parsed(printed) = FirstOf(rest, Limit)
    BY <1>4, <2>1, Zenon DEF Parsed, FirstOf, left
  <2>3. /\ FirstOf(rest, Limit) \in Seq(Printed) /\ Len(FirstOf(rest, Limit)) \in Nat
        /\ Len(rest) \in Nat /\ Len(rest) <= Limit => FirstOf(rest, Limit) = rest
        /\ Len(rest) > Limit => Len(FirstOf(rest, Limit)) = Limit
    BY <1>1, FirstOfHas
  <2>4. Len(FirstOf(rest, Limit)) <= Limit
    BY <1>1, <2>3
  <2>5. QED  BY <2>2, <2>3, <2>4
<1>5. QED  BY <1>3, <1>4

LEMMA LinesAre ==
  ASSUME NEW store, NEW rows \in Seq(Cells) PROVE Lines(store, rows) \in Seq(Cells \cup {"split", "header"})
<1>1. Shown(rows) \in Seq(Cells \cup {"split", "header"}) /\ <<"header">> \in Seq(Cells \cup {"split", "header"})
  BY ShownIs
<1>2. <<"header">> \o Shown(rows) \in Seq(Cells \cup {"split", "header"}) /\ <<>> \in Seq(Cells \cup {"split", "header"})
  BY <1>1
<1>3. Lines(store, rows) \in {<<>>, <<"header">> \o Shown(rows)}
  BY Zenon DEF Lines
<1>4. QED  BY <1>2, <1>3, Zenon

\* A page of rows that each print a line of their own is read as it is.
LEMMA ReadAsTheyAre ==
  ASSUME NEW rows \in Seq(PlainCells), Len(rows) <= Limit, NEW store PROVE Parsed(Lines(store, rows)) = rows
<1>0. Shown(rows) = rows
  BY ShownAsTheyAre
<1>1. CASE Lines(store, rows) = <<>>
  <2>1. rows = <<>>
    <3>1. <<"header">> \o rows # <<>>
      OBVIOUS
    <3>2. QED  BY <1>0, <1>1, <3>1 DEF Lines
  <2>2. QED  BY <1>1, <2>1, OnlyOfNone DEF Parsed
<1>2. CASE Lines(store, rows) = <<"header">> \o rows
  <2> DEFINE all == <<"header">> \o rows
  <2>1. rows \in Seq(Printed) /\ <<"header">> \in Seq(Printed)
    BY DEF Printed, PlainCells, Cells
  <2>2. all \in Seq(Printed)
    BY <2>1
  <2>3. Only(all, Printed) = all
    <3> HIDE DEF all
    <3>1. QED  BY <2>2, OnlyOfAll
  <2>4. all # <<>> /\ Tail(all) = rows
    BY <2>1
  <2> HIDE DEF all
  <2>5. Parsed(all) = FirstOf(rows, Limit)
    BY <2>3, <2>4, Zenon DEF Parsed, FirstOf
  <2>6. FirstOf(rows, Limit) = rows
    BY FirstOfHas, ConsoleAssumption DEF ConsoleAssumption
  <2>7. QED  BY <1>2, <2>5, <2>6 DEF all
<1>3. QED  BY <1>0, <1>1, <1>2 DEF Lines

-----------------------------------------------------------------------------
(* One request moves                                                        *)

Runs == {"names", "info", "page", "count", "statement"}

\* What a step says of the requests, whatever is seen with it.
AsksMove ==
  /\ ask' \in [Clients -> Question]
  /\ \A c \in Clients : Fits(ask'[c], seen[c])
  /\ \A c \in Clients : ask[c].pc = "answered" => ask'[c] \in {ask[c], Unused}

LEMMA UnusedFits ==
  /\ Unused \in Question /\ Unused.pc = "new" /\ Unused.kind = "tables"
  /\ Unused.total = 0 /\ ~Unused.wrote /\ Len(Unused.page) <= Limit /\ \A s : Fits(Unused, s)
<1>1. Unused \in Question
  BY DEF Unused, Question, Pcs, Requested, Cells
<1>2. Len(Unused.page) <= Limit
  BY ConsoleAssumption DEF Unused, ConsoleAssumption
<1>3. QED  BY <1>1, <1>2 DEF Unused, Fits, Browsing

LEMMA OneAsks ==
  ASSUME AsksFit, NEW c \in Clients, NEW new \in Question, Fits(new, seen[c]),
         ask' = [ask EXCEPT ![c] = new], ask[c].pc = "answered" => new = Unused
  PROVE  AsksMove
<1>1. ask' \in [Clients -> Question] /\ \A d \in Clients : ask'[d] = IF d = c THEN new ELSE ask[d]
  BY DEF AsksFit
<1>2. QED  BY <1>1 DEF AsksFit, AsksMove

LEMMA NobodyAsks == ASSUME AsksFit, ask' = ask PROVE AsksMove
  BY DEF AsksFit, AsksMove

\* A statement is sent for a database there is, or the request is over.
LEMMA SendsFits ==
  ASSUME World, AsksFit, NEW c \in Clients, NEW q \in Question, Sends(c, q),
         ask[c].pc # "answered", q.pc \in Runs, ~q.wrote, Len(q.page) <= Limit,
         q.kind \in Browsing => q.total = 0,
         q.kind = "insert" => q.pc \in {"names", "statement"},
         q.kind \in Browsing => q.pc \in {"names", "page"}
  PROVE  AsksMove
<1> DEFINE new == [q EXCEPT !.on = current]
<1>1. CASE current \in {"none", Layer}
  BY <1>1, UnusedFits, OneAsks DEF Sends
<1>2. CASE current \notin {"none", Layer}
  <2>1. current \in Stores
    BY <1>2 DEF World
  <2>2. /\ new \in Question /\ new.pc = q.pc /\ new.kind = q.kind /\ new.on = current
        /\ new.wrote = q.wrote /\ new.page = q.page /\ new.total = q.total
    BY <2>1 DEF Question
  <2> HIDE DEF new
  <2>3. Fits(new, seen[c])
    BY <2>1, <2>2 DEF Fits, Browsing
  <2>4. ask' = [ask EXCEPT ![c] = new]
    BY <1>2 DEF Sends, new
  <2>5. QED  BY <2>2, <2>3, <2>4, OneAsks
<1>3. QED  BY <1>1, <1>2

\* What every request under way is: of its type, and fitting.
LEMMA AsksOf ==
  ASSUME AsksFit, NEW c \in Clients PROVE ask[c] \in Question /\ Fits(ask[c], seen[c])
  BY DEF AsksFit

LEMMA OpenedIsThere ==
  ASSUME NEW on \in Stores, NEW store \in Opened(on)
  PROVE  store \in Stores \cup {"nothing"} /\ (store = Postgres => on = Postgres)
<1>1. Twins \subseteq Stores /\ Stores \cap {"nothing"} = {} /\ Postgres \notin Twins /\ Postgres # "nothing"
  BY ConsoleAssumption DEF ConsoleAssumption, Stores
<1>2. QED  BY <1>1 DEF Opened

LEMMA RunNamesMoves ==
  ASSUME ConsoleInv, NEW c \in Clients, RunNames(c) PROVE AsksMove
<1>1. ask[c] \in Question /\ Fits(ask[c], seen[c]) /\ ask[c].pc = "names"
  BY AsksOf DEF ConsoleInv, RunNames
<1>2. PICK store \in Opened(ask[c].on) :
        IF store = "nothing" \/ base[store] = Missing
        THEN ask' = [ask EXCEPT ![c] = Unused]
        ELSE Sends(c, [ask[c] EXCEPT !.pc = CASE ask[c].kind = "info" -> "info"
                                              [] ask[c].kind \in Browsing -> "page"
                                              [] OTHER -> "statement"])
  BY DEF RunNames
<1>3. CASE ask' = [ask EXCEPT ![c] = Unused]
  BY <1>3, UnusedFits, OneAsks DEF ConsoleInv
<1>4. ASSUME NEW pc \in {"info", "page", "statement"}, Sends(c, [ask[c] EXCEPT !.pc = pc]),
             ask[c].kind \in Browsing => pc = "page", pc = "page" => ask[c].kind \in Browsing,
             pc = "info" => ask[c].kind = "info"
      PROVE  AsksMove
  <2> DEFINE new == [ask[c] EXCEPT !.pc = pc]
  <2>1. /\ new \in Question /\ new.pc = pc /\ new.kind = ask[c].kind
        /\ new.wrote = ask[c].wrote /\ new.page = ask[c].page /\ new.total = ask[c].total
    BY <1>1 DEF Question, Pcs
  <2> HIDE DEF new
  <2>2. Sends(c, new)
    BY <1>4 DEF new
  <2>3. /\ ~new.wrote /\ Len(new.page) <= Limit
        /\ new.kind \in Browsing => new.total = 0
        /\ new.kind = "insert" => new.pc = "statement"
        /\ new.kind \in Browsing => new.pc = "page"
        /\ new.pc \in Runs
    BY <1>1, <1>4, <2>1 DEF Fits, Runs, Browsing
  <2>4. QED  BY <1>1, <2>1, <2>2, <2>3, SendsFits DEF ConsoleInv
<1>5. QED
  <2>1. CASE ask[c].kind = "info"
    <3>1. ask[c].kind \notin Browsing
      BY <2>1 DEF Browsing
    <3>2. QED  BY <1>2, <1>3, <1>4, <2>1, <3>1
  <2>2. CASE ask[c].kind # "info" /\ ask[c].kind \in Browsing
    BY <1>2, <1>3, <1>4, <2>2
  <2>3. CASE ask[c].kind # "info" /\ ask[c].kind \notin Browsing
    BY <1>2, <1>3, <1>4, <2>3
  <2>4. QED  BY <2>1, <2>2, <2>3

LEMMA AskedMoves ==
  ASSUME ConsoleInv, NEW c \in Clients, NEW kind \in Requested, NEW write \in BOOLEAN,
         NEW offset \in 0 .. 1, NEW cell \in {"word", "error"}, NEW name,
         Asked(c, kind, write, offset, cell, name)
  PROVE  AsksMove
<1> DEFINE looks == kind \in {"tables", "info", "insert"} \cup Browsing
           new == [Unused EXCEPT !.pc = IF looks THEN "names" ELSE "statement", !.kind = kind,
                                 !.write = write, !.offset = offset, !.cell = cell]
<1>1. ask' = ask \/ Sends(c, new)
  BY DEF Asked
<1>2. ask[c] = Unused
  BY DEF Asked
<1>3. /\ new \in Question /\ new.pc = (IF looks THEN "names" ELSE "statement") /\ new.kind = kind
      /\ new.wrote = FALSE /\ new.total = 0 /\ Len(new.page) <= Limit
  <2>1. offset \in Nat /\ cell \in Cells
    BY DEF Cells
  <2>2. (IF looks THEN "names" ELSE "statement") \in Pcs
    BY DEF Pcs
  <2> DEFINE pc == IF looks THEN "names" ELSE "statement"
  <2>3. new = [Unused EXCEPT !.pc = pc, !.kind = kind, !.write = write, !.offset = offset, !.cell = cell]
    OBVIOUS
  <2> HIDE DEF looks, new, pc
  <2>4. pc \in Pcs
    BY <2>2 DEF pc
  <2>5. /\ new \in Question /\ new.pc = pc /\ new.kind = kind /\ new.wrote = FALSE /\ new.total = 0
        /\ new.page = Unused.page /\ Len(Unused.page) <= Limit
    BY <2>1, <2>3, <2>4, UnusedFits DEF Question
  <2>6. QED  BY <2>5 DEF pc
<1>4. /\ new.pc \in Runs
      /\ new.kind = "insert" => new.pc \in {"names", "statement"}
      /\ new.kind \in Browsing => new.pc \in {"names", "page"}
  <2> HIDE DEF new
  <2>1. QED  BY <1>3 DEF Runs
<1> HIDE DEF new
<1>5. CASE Sends(c, new)
  BY <1>2, <1>3, <1>4, <1>5, SendsFits, UnusedFits DEF ConsoleInv
<1>6. CASE ask' = ask
  BY <1>6, NobodyAsks DEF ConsoleInv
<1>7. QED  BY <1>1, <1>5, <1>6

\* A request whose step only changes where it is, with nothing left to fit.
LEMMA EndsFits ==
  ASSUME ConsoleInv, NEW c \in Clients, ask' = [ask EXCEPT ![c].pc = "answered"],
         \/ ask[c].kind \notin Browsing \cup {"insert"} /\ ask[c].pc \notin {"answered", "refused"}
         \/ ask[c].pc = "count"
  PROVE  AsksMove
<1> DEFINE new == [ask[c] EXCEPT !.pc = "answered"]
<1>1. ask[c] \in Question /\ Fits(ask[c], seen[c]) /\ ask[c].pc # "answered"
  BY AsksOf DEF ConsoleInv
<1>2. /\ new \in Question /\ new.pc = "answered" /\ new.kind = ask[c].kind
      /\ new.wrote = ask[c].wrote /\ new.write = ask[c].write /\ new.total = ask[c].total
      /\ new.blind = ask[c].blind /\ new.page = ask[c].page /\ new.offset = ask[c].offset
      /\ ~new.wrote
  <2>1. ~ask[c].wrote
    BY <1>1 DEF Fits
  <2>2. QED  BY <1>1, <2>1 DEF Question, Pcs
<1>3. ask' = [ask EXCEPT ![c] = new]
  OBVIOUS
<1> HIDE DEF new
<1>4. ask[c].pc = "count" => new.kind # "insert"
  BY <1>1, <1>2 DEF Fits
<1>5. new.kind \in Browsing => new.total = 0 /\ ask[c].pc = "count"
  BY <1>1, <1>2 DEF Fits
<1>6. new.kind # "insert"
  BY <1>2, <1>4
<1>7. new.kind \in Browsing /\ ~new.blind => PageIn(new, seen[c])
  BY <1>1, <1>2, <1>5 DEF Fits, PageIn
<1>8. Fits(new, seen[c])
  BY <1>1, <1>2, <1>5, <1>6, <1>7 DEF Fits
<1>9. QED  BY <1>1, <1>2, <1>3, <1>8, OneAsks DEF ConsoleInv

LEMMA RunPageMoves ==
  ASSUME ConsoleInv, NEW c \in Clients, RunPage(c) PROVE AsksMove
<1>1. ask[c] \in Question /\ Fits(ask[c], seen[c]) /\ ask[c].pc = "page" /\ ask[c].on \in Stores
  BY AsksOf DEF ConsoleInv, RunPage, Fits
<1>2. PICK store \in Opened(ask[c].on) :
       LET there == store # "nothing" /\ base[store] # Missing
           page == IF there THEN Parsed(Lines(store, Slice(base[store], ask[c].offset, Limit)))
                   ELSE Parsed(Failure)
           read == [ask[c] EXCEPT !.page = page, !.blind = ~there \/ store # ask[c].on, !.pc = "answered"]
           done == current \in {"none", Layer} \/ (page = <<>> /\ ask[c].kind = "db_rows")
       IN ask' = [ask EXCEPT ![c] = IF done THEN read
                                    ELSE [read EXCEPT !.pc = "count", !.on = current]]
  BY DEF RunPage
<1> DEFINE there == store # "nothing" /\ base[store] # Missing
           rows == Slice(base[store], ask[c].offset, Limit)
           page == IF there THEN Parsed(Lines(store, rows)) ELSE Parsed(Failure)
           read == [ask[c] EXCEPT !.page = page, !.blind = ~there \/ store # ask[c].on, !.pc = "answered"]
           done == current \in {"none", Layer} \/ (page = <<>> /\ ask[c].kind = "db_rows")
           new == IF done THEN read ELSE [read EXCEPT !.pc = "count", !.on = current]
<1>3. ask' = [ask EXCEPT ![c] = new]
  BY <1>2
<1>4. there => base[store] \in Seq(Cells) /\ rows \in Seq(Cells) /\ Len(rows) <= Limit
  <2>1. store \in Stores \cup {"nothing"}
    BY <1>1, OpenedIsThere
  <2>2. ASSUME there PROVE base[store] \in Seq(Cells)
    BY <2>1, <2>2 DEF ConsoleInv, World
  <2>3. ask[c].offset \in Nat
    BY <1>1 DEF Question
  <2>4. QED  BY <2>2, <2>3, SliceIs
<1>5. page \in Seq(Printed) /\ Len(page) <= Limit
  <2>1. CASE there
    <3>1. Lines(store, rows) \in Seq(Cells \cup {"split", "header"})
      <4> HIDE DEF rows
      <4>1. QED  BY <1>4, <2>1, LinesAre
    <3>2. Parsed(Lines(store, rows)) \in Seq(Printed) /\ Len(Parsed(Lines(store, rows))) <= Limit
      BY <3>1, ParsedIsPrinted
    <3>3. QED  BY <2>1, <3>2
  <2>2. CASE ~there
    <3>1. Failure \in Seq({"error"})
      BY DEF Failure
    <3>2. Parsed(Failure) \in Seq(Printed) /\ Len(Parsed(Failure)) <= Limit
      BY <3>1, ParsedIsPrinted
    <3>3. QED  BY <2>2, <3>2
  <2>3. QED  BY <2>1, <2>2
<1>6. done \/ current \in Stores
  BY DEF ConsoleInv, World
<1>7. /\ new \in Question /\ new.pc \in {"count", "answered"} /\ new.kind = ask[c].kind
      /\ new.pc = "count" => new.on \in Stores
      /\ ~new.wrote /\ new.write = ask[c].write /\ new.total = ask[c].total
      /\ new.blind = (~there \/ store # ask[c].on) /\ new.page = page /\ new.offset = ask[c].offset
  <2> HIDE DEF page, there, done
  <2>1. (~there \/ store # ask[c].on) \in BOOLEAN
    BY DEF there
  <2>2. ~ask[c].wrote
    BY <1>1 DEF Fits
  <2>3. QED  BY <1>1, <1>5, <1>6, <2>1, <2>2 DEF Question, Pcs
<1> HIDE DEF new, read, done
<1>8. new.kind # "insert" /\ (new.kind \in Browsing => new.total = 0)
  BY <1>1, <1>7 DEF Fits
<1>9. ASSUME new.kind \in Browsing, ~new.blind PROVE PageIn(new, seen[c])
  <2>1. there /\ store = ask[c].on
    BY <1>7, <1>9
  <2>2. base[store] \in seen[c] /\ base[store] # Missing
    BY <1>1, <1>7, <1>9, <2>1 DEF ConsoleInv, SeenIsCurrent
  <2>3. ASSUME Plain(base[store]) PROVE new.page = Slice(base[store], new.offset, Limit)
    <3>1. ask[c].offset \in Nat
      BY <1>1 DEF Question
    <3>2. rows \in Seq(PlainCells) /\ Len(rows) <= Limit
      BY <1>4, <2>1, <2>3, <3>1, SliceIs
    <3>3. page = rows
      BY <2>1, <3>2, ReadAsTheyAre
    <3>4. QED  BY <1>7, <3>3
  <2>4. QED  BY <2>2, <2>3 DEF PageIn
<1>10. Fits(new, seen[c])
  BY <1>1, <1>5, <1>7, <1>8, <1>9 DEF Fits
<1>11. QED  BY <1>1, <1>3, <1>7, <1>10, OneAsks DEF ConsoleInv

LEMMA RunCountMoves ==
  ASSUME ConsoleInv, NEW c \in Clients, RunCount(c) PROVE AsksMove
<1>1. ask[c] \in Question /\ Fits(ask[c], seen[c]) /\ ask[c].pc = "count" /\ ask[c].on \in Stores
  BY AsksOf DEF ConsoleInv, RunCount, Fits
<1>2. PICK store \in Opened(ask[c].on) :
       ask' = [ask EXCEPT ![c].pc = "answered",
                 ![c].blind = @ \/ store # ask[c].on,
                 ![c].total = IF store = "nothing" \/ base[store] = Missing THEN 0 ELSE Len(base[store])]
  BY DEF RunCount
<1> DEFINE total == IF store = "nothing" \/ base[store] = Missing THEN 0 ELSE Len(base[store])
           new == [ask[c] EXCEPT !.pc = "answered", !.blind = ask[c].blind \/ store # ask[c].on,
                                 !.total = total]
<1>3. ask' = [ask EXCEPT ![c] = new]
  BY <1>1, <1>2 DEF ConsoleInv, AsksFit, Question
<1>4. total \in Nat
  <2>1. store \in Stores \cup {"nothing"}
    BY <1>1, OpenedIsThere
  <2>2. QED  BY <2>1 DEF ConsoleInv, World
<1> HIDE DEF total
<1>5. /\ new \in Question /\ new.pc = "answered" /\ new.kind = ask[c].kind
      /\ ~new.wrote /\ new.write = ask[c].write /\ new.total = total
      /\ new.blind = (ask[c].blind \/ store # ask[c].on)
      /\ new.page = ask[c].page /\ new.offset = ask[c].offset
  <2>1. ~ask[c].wrote
    BY <1>1 DEF Fits
  <2>2. QED  BY <1>1, <1>4, <2>1 DEF Question, Pcs
<1> HIDE DEF new
<1>6. new.kind # "insert"
  BY <1>1, <1>5 DEF Fits
<1>7. new.kind \in Browsing /\ ~new.blind => PageIn(new, seen[c])
  BY <1>1, <1>5 DEF Fits, PageIn
<1>8. ASSUME new.kind \in Browsing, ~new.blind, new.total # 0 PROVE TotalIn(new, seen[c])
  <2>1. store = ask[c].on /\ base[store] # Missing /\ new.total = Len(base[store])
    BY <1>5, <1>8 DEF total
  <2>2. base[store] \in seen[c]
    BY <1>1, <1>5, <1>8, <2>1 DEF ConsoleInv, SeenIsCurrent
  <2>3. QED  BY <2>1, <2>2 DEF TotalIn
<1>9. Fits(new, seen[c])
  BY <1>1, <1>5, <1>6, <1>7, <1>8 DEF Fits
<1>10. QED  BY <1>1, <1>3, <1>5, <1>9, OneAsks DEF ConsoleInv

LEMMA RanFits ==
  ASSUME NEW q \in Question, NEW s, q.kind \notin Browsing, q.pc \in {"refused", "answered"},
         Len(q.page) <= Limit,
         q.wrote => q.write \/ (q.kind = "script" /\ q.on = Postgres),
         q.kind = "insert" /\ ~q.blind /\ q.pc = "answered" => q.wrote,
         q.kind = "insert" /\ ~q.blind /\ q.pc = "refused" => ~q.wrote
  PROVE  Fits(q, s)
BY DEF Fits

LEMMA RunStatementMoves ==
  ASSUME ConsoleInv, NEW c \in Clients, RunStatement(c) PROVE AsksMove /\ World'
<1>1. ask[c] \in Question /\ Fits(ask[c], seen[c]) /\ ask[c].pc = "statement" /\ ask[c].on \in Stores
  BY AsksOf DEF ConsoleInv, RunStatement, Fits
<1>2. PICK store \in Opened(ask[c].on) :
       LET q == ask[c]
           there == store # "nothing" /\ base[store] # Missing
           works == q.kind # "read" /\ there /\ MayWrite(q, store)
           failed == store # "nothing" /\ ~works
       IN /\ works => Len(base[store]) < MaxRows
          /\ base' = IF works THEN [base EXCEPT ![store] = Append(@, q.cell)] ELSE base
          /\ ask' = [ask EXCEPT ![c].wrote = works, ![c].blind = store = "nothing",
                                ![c].pc = IF q.kind = "insert" /\ failed THEN "refused" ELSE "answered"]
  BY Zenon DEF RunStatement
<1> DEFINE there == store # "nothing" /\ base[store] # Missing
           works == ask[c].kind # "read" /\ there /\ MayWrite(ask[c], store)
           failed == store # "nothing" /\ ~works
           blind == store = "nothing"
           pc == IF ask[c].kind = "insert" /\ failed THEN "refused" ELSE "answered"
           new == [ask[c] EXCEPT !.wrote = works, !.blind = blind, !.pc = pc]
<1>3. ask' = [ask EXCEPT ![c] = new]
  BY <1>1, <1>2 DEF ConsoleInv, AsksFit, Question
<1>4. works \in BOOLEAN /\ blind \in BOOLEAN /\ pc \in {"refused", "answered"}
  OBVIOUS
<1>5. /\ new \in Question /\ new.pc = pc /\ new.kind = ask[c].kind /\ new.wrote = works
      /\ new.write = ask[c].write /\ new.blind = blind /\ new.on = ask[c].on /\ new.page = ask[c].page
  <2> HIDE DEF works, blind, pc
  <2>1. QED  BY <1>1, <1>4 DEF Question, Pcs
<1>6. works => ask[c].write \/ (ask[c].kind = "script" /\ ask[c].on = Postgres)
  BY <1>1, OpenedIsThere DEF MayWrite
<1>7. ask[c].kind \notin Browsing
  BY <1>1 DEF Fits
<1>8. ask[c].kind = "insert" /\ ~blind => /\ pc = "answered" => works
                                          /\ pc = "refused" => ~works
  OBVIOUS
<1>9. World'
  <2>1. store \in Stores \cup {"nothing"}
    BY <1>1, OpenedIsThere
  <2>2. ask[c].cell \in Cells
    BY <1>1 DEF Question
  <2>3. CASE works
    <3>1. store \in Stores /\ base[store] \in Seq(Cells)
      BY <2>1, <2>3 DEF ConsoleInv, World
    <3>2. base' = [base EXCEPT ![store] = Append(base[store], ask[c].cell)]
      BY <1>2, <2>3
    <3>3. Append(base[store], ask[c].cell) \in Seq(Cells)
      BY <2>2, <3>1
    <3>4. QED  BY <3>1, <3>2, <3>3 DEF ConsoleInv, World, RunStatement
  <2>4. CASE ~works
    BY <1>2, <2>4 DEF ConsoleInv, World, RunStatement
  <2>5. QED  BY <2>3, <2>4
<1> HIDE DEF new, works, blind, pc, failed, there
<1>10. Fits(new, seen[c])
  <2>1. /\ new.kind = "insert" /\ ~new.blind /\ new.pc = "answered" => new.wrote
        /\ new.kind = "insert" /\ ~new.blind /\ new.pc = "refused" => ~new.wrote
    BY <1>5, <1>8
  <2>2. new.kind \notin Browsing /\ new.pc \in {"refused", "answered"}
    BY <1>4, <1>5, <1>7
  <2>3. new.wrote => new.write \/ (new.kind = "script" /\ new.on = Postgres)
    BY <1>5, <1>6
  <2>4. Len(new.page) <= Limit
    BY <1>1, <1>5 DEF Fits
  <2>5. QED  BY <1>5, <2>1, <2>2, <2>3, <2>4, RanFits
<1>11. QED  BY <1>1, <1>3, <1>5, <1>9, <1>10, OneAsks DEF ConsoleInv

LEMMA OthersMove ==
  ASSUME ConsoleInv, NEW c \in Clients, RunTables(c) \/ RunInfo(c) \/ HelperFails(c) \/ Answered(c)
  PROVE  AsksMove
<1>1. Fits(ask[c], seen[c])
  BY AsksOf DEF ConsoleInv
<1>2. CASE ask' = [ask EXCEPT ![c] = Unused]
  BY <1>2, UnusedFits, OneAsks DEF ConsoleInv
<1>3. ASSUME RunTables(c) \/ RunInfo(c) PROVE AsksMove
  <2>1. ask' = [ask EXCEPT ![c].pc = "answered"] /\ ask[c].pc \notin {"answered", "refused"}
    BY <1>3 DEF RunTables, RunInfo
  <2>2. ask[c].kind \notin Browsing \cup {"insert"}
    BY <1>1, <1>3 DEF RunTables, RunInfo, Fits, Browsing
  <2>3. QED  BY <2>1, <2>2, EndsFits
<1>4. ASSUME HelperFails(c), ask[c].pc \in {"count", "info"} PROVE AsksMove
  <2>1. ask' = [ask EXCEPT ![c].pc = "answered"]
    BY <1>4 DEF HelperFails
  <2>2. ask[c].pc = "count" \/ ask[c].kind \notin Browsing \cup {"insert"}
    BY <1>1, <1>4 DEF Fits
  <2>3. ask[c].pc \notin {"answered", "refused"}
    BY <1>4
  <2>4. QED  BY <2>1, <2>2, <2>3, EndsFits
<1>5. ASSUME HelperFails(c), ask[c].pc \notin {"count", "info"} PROVE ask' = [ask EXCEPT ![c] = Unused]
  BY <1>5 DEF HelperFails
<1>6. ASSUME Answered(c) PROVE ask' = [ask EXCEPT ![c] = Unused]
  BY <1>6 DEF Answered
<1>7. QED  BY <1>2, <1>3, <1>4, <1>5, <1>6

-----------------------------------------------------------------------------
(* Marks, the app, the database                                             *)

LEMMA MarksStay == ASSUME Marks, UNCHANGED queryVars PROVE Marks'
  BY DEF Marks, RunsAreMarked, queryVars

LEMMA MarksAsked ==
  ASSUME Marks, NEW c \in Clients, NEW kind, NEW write, NEW offset, NEW cell, NEW name,
         Asked(c, kind, write, offset, cell, name)
  PROVE  Marks'
<1>1. /\ sent' = sent
      /\ \/ saved' = saved /\ by' = [by EXCEPT ![c] = "-"]
         \/ name \in DOMAIN saved /\ saved' = Marked(name) /\ by' = [by EXCEPT ![c] = name]
  BY Zenon DEF Asked
<1>2. CASE saved' = saved /\ by' = [by EXCEPT ![c] = "-"]
  BY <1>1, <1>2 DEF Marks, RunsAreMarked
<1>3. CASE name \in DOMAIN saved /\ saved' = Marked(name) /\ by' = [by EXCEPT ![c] = name]
  <2>0. saved' = [n \in DOMAIN saved |-> IF n = name THEN TRUE ELSE saved[n]]
    BY <1>3, Zenon DEF Marked
  <2>1. /\ DOMAIN saved' = DOMAIN saved /\ saved' = [n \in DOMAIN saved' |-> saved'[n]]
        /\ \A n \in DOMAIN saved' : saved'[n] \in BOOLEAN /\ (n = name => saved'[n]) /\ (n # name => saved'[n] = saved[n])
    BY <2>0 DEF Marks
  <2>2. by' \in [Clients -> DOMAIN saved \cup {"-"}] /\ \A d \in Clients : by'[d] = IF d = c THEN name ELSE by[d]
    BY <1>3 DEF Marks
  <2>3. \A d \in Clients : by'[d] # "-" => saved'[by'[d]]
    BY <1>3, <2>1, <2>2 DEF Marks
  <2>4. RunsAreMarked'
    BY <1>1, <2>1 DEF Marks, RunsAreMarked
  <2>5. QED  BY <2>1, <2>2, <2>3, <2>4 DEF Marks
<1>4. QED  BY <1>1, <1>2, <1>3

LEMMA MarksRun ==
  ASSUME Marks, NEW c \in Clients, UNCHANGED <<saved, by>>,
         sent' \in {sent, sent \cup ({by[c]} \ {"-"})}
  PROVE  Marks'
<1>1. by[c] # "-" => by[c] \in DOMAIN saved /\ saved[by[c]]
  BY DEF Marks
<1>2. RunsAreMarked'
  BY <1>1 DEF Marks, RunsAreMarked
<1>3. QED  BY <1>2 DEF Marks

LEMMA MarksKept ==
  ASSUME Marks, NEW name, Forget(name) \/ Save(name) PROVE Marks'
<1>1. ASSUME Save(name) PROVE Marks'
  <2>1. saved' = Kept(name) /\ sent' = sent /\ by' = by
    BY <1>1 DEF Save
  <2>2. DOMAIN saved' = DOMAIN saved \cup {name}
    BY <2>1 DEF Kept
  <2>3. \A n \in DOMAIN saved' : saved'[n] = (n \in DOMAIN saved /\ saved[n])
    BY <2>1, <2>2 DEF Kept
  <2>4. saved' = [n \in DOMAIN saved' |-> saved'[n]]
    BY <2>1 DEF Kept
  <2>5. by' \in [Clients -> DOMAIN saved' \cup {"-"}] /\ \A c \in Clients : by'[c] # "-" => saved'[by'[c]]
    BY <2>1, <2>2, <2>3 DEF Marks
  <2>6. QED  BY <2>1, <2>2, <2>3, <2>4, <2>5 DEF Marks, RunsAreMarked
<1>2. ASSUME Forget(name) PROVE Marks'
  <2>1. /\ saved' = [n \in DOMAIN saved \ {name} |-> saved[n]] /\ sent' = sent \ {name}
        /\ by' = [c \in Clients |-> IF by[c] = name THEN "-" ELSE by[c]]
    BY <1>2 DEF Forget
  <2>2. DOMAIN saved' = DOMAIN saved \ {name} /\ \A n \in DOMAIN saved' : saved'[n] = saved[n]
    BY <2>1
  <2>3. by' \in [Clients -> DOMAIN saved' \cup {"-"}] /\ \A c \in Clients : by'[c] # "-" => saved'[by'[c]]
    BY <2>1, <2>2 DEF Marks
  <2>4. saved' = [n \in DOMAIN saved' |-> saved'[n]] /\ \A n \in DOMAIN saved' : saved'[n] \in BOOLEAN
    BY <2>1, <2>2 DEF Marks
  <2>5. RunsAreMarked'
    BY <2>1, <2>2 DEF Marks, RunsAreMarked
  <2>6. QED  BY <2>3, <2>4, <2>5 DEF Marks
<1>3. QED  BY <1>1, <1>2

LEMMA AppKeeps ==
  ASSUME World, (\E store \in Stores : AppWorks(store)) \/ Detect \/ Managed PROVE World'
<1>1. ASSUME NEW store \in Stores, AppWorks(store) PROVE World'
  <2>1. ASSUME NEW rows \in Seq(Cells) \cup {Missing}, base' = [base EXCEPT ![store] = rows],
               UNCHANGED current
        PROVE  World'
    BY <2>1 DEF World
  <2>2. base[store] \in Seq(Cells) \cup {Missing} /\ UNCHANGED current
    BY <1>1 DEF World, AppWorks
  <2>3. ASSUME NEW cell \in Cells, base[store] # Missing, base' = [base EXCEPT ![store] = Append(@, cell)]
        PROVE  World'
    <3>1. Append(base[store], cell) \in Seq(Cells)
      BY <2>2, <2>3
    <3>2. base' = [base EXCEPT ![store] = Append(base[store], cell)]
      BY <2>3
    <3>3. QED  BY <2>1, <2>2, <3>1, <3>2
  <2>4. ASSUME base[store] \notin {Missing, <<>>}, base' = [base EXCEPT ![store] = Tail(@)] PROVE World'
    <3>1. Tail(base[store]) \in Seq(Cells)
      BY <2>2, <2>4
    <3>2. base' = [base EXCEPT ![store] = Tail(base[store])]
      BY <2>4
    <3>3. QED  BY <2>1, <2>2, <3>1, <3>2
  <2>5. ASSUME base' = [base EXCEPT ![store] = IF @ = Missing THEN <<>> ELSE Missing] PROVE World'
    <3>1. <<>> \in Seq(Cells)
      BY EmptySeq
    <3>2. (IF base[store] = Missing THEN <<>> ELSE Missing) \in Seq(Cells) \cup {Missing}
      BY <3>1, Zenon
    <3>3. QED  BY <2>1, <2>2, <2>5, <3>2
  <2>6. QED  BY <1>1, <2>3, <2>4, <2>5 DEF AppWorks
<1>2. ASSUME Detect PROVE World'
  <2>1. current' \in Stores /\ UNCHANGED base
    BY <1>2 DEF Detect, Detected, Stores
  <2>2. QED  BY <2>1 DEF World
<1>3. ASSUME Managed PROVE World'
  <2>1. Postgres \in Stores /\ current' \in Stores \cup {"none"}
    BY <1>3 DEF Managed, Stores
  <2>2. ASSUME NEW rows \in {<<>>, Missing}, base' = [base EXCEPT ![Postgres] = rows]
        PROVE  base' \in [Stores -> Seq(Cells) \cup {Missing}]
    <3>1. <<>> \in Seq(Cells)
      BY EmptySeq
    <3>2. rows \in Seq(Cells) \cup {Missing}
      BY <3>1, Zenon
    <3>3. QED  BY <2>1, <2>2, <3>2 DEF World
  <2>3. base' = [base EXCEPT ![Postgres] = <<>>] \/ base' = [base EXCEPT ![Postgres] = Missing]
    BY <1>3 DEF Managed
  <2>4. QED  BY <2>1, <2>2, <2>3 DEF World
<1>4. QED  BY <1>1, <1>2, <1>3

-----------------------------------------------------------------------------
(* One step                                                                 *)

LEMMA StepsMove ==
  ASSUME ConsoleInv, Steps PROVE AsksMove /\ World' /\ Marks'
<1> USE DEF ConsoleInv
<1>1. ASSUME NEW c \in Clients, NEW kind \in Requested, NEW write \in BOOLEAN, NEW offset \in 0 .. 1,
             NEW cell \in {"word", "error"}, NEW name, Asked(c, kind, write, offset, cell, name)
      PROVE  AsksMove /\ World' /\ Marks'
  <2>1. AsksMove
    BY <1>1, AskedMoves
  <2>2. UNCHANGED <<base, current>>
    BY <1>1 DEF Asked
  <2>3. World'
    BY <2>2 DEF World
  <2>4. Marks'
    BY <1>1, MarksAsked
  <2>5. QED  BY <2>1, <2>3, <2>4
<1>2. ASSUME NEW c \in Clients,
             RunNames(c) \/ RunTables(c) \/ RunInfo(c) \/ RunPage(c) \/ RunCount(c) \/ HelperFails(c) \/ Answered(c)
      PROVE  AsksMove /\ World' /\ Marks'
  <2>1. AsksMove
    BY <1>2, RunNamesMoves, RunPageMoves, RunCountMoves, OthersMove
  <2>2. UNCHANGED <<base, current, queryVars>>
    BY <1>2 DEF RunNames, RunTables, RunInfo, RunPage, RunCount, HelperFails, Answered
  <2>3. World'
    BY <2>2 DEF World
  <2>4. Marks'
    BY <2>2, MarksStay
  <2>5. QED  BY <2>1, <2>3, <2>4
<1>3. ASSUME NEW c \in Clients, RunStatement(c) PROVE AsksMove /\ World' /\ Marks'
  <2>1. UNCHANGED <<saved, by>> /\ sent' \in {sent, sent \cup ({by[c]} \ {"-"})}
    BY <1>3 DEF RunStatement
  <2>2. Marks'
    BY <2>1, MarksRun
  <2>3. QED  BY <1>3, <2>2, RunStatementMoves
<1>4. ASSUME NEW name, Forget(name) \/ Save(name) PROVE AsksMove /\ World' /\ Marks'
  <2>1. UNCHANGED <<base, current, ask>>
    BY <1>4 DEF Forget, Save
  <2>2. World'
    BY <2>1 DEF World
  <2>3. QED  BY <1>4, <2>1, <2>2, NobodyAsks, MarksKept
<1>5. ASSUME (\E store \in Stores : AppWorks(store)) \/ Detect \/ Managed
      PROVE  AsksMove /\ World' /\ Marks'
  <2>1. UNCHANGED <<ask, queryVars>>
    BY <1>5 DEF AppWorks, Detect, Managed
  <2>2. QED  BY <1>5, <2>1, NobodyAsks, MarksStay, AppKeeps
<1>6. QED
  <2>1. \/ \E c \in Clients, kind \in Requested, write \in BOOLEAN, offset \in 0 .. 1,
              cell \in {"word", "error"}, name \in SavedNames \cup {"-"} : Asked(c, kind, write, offset, cell, name)
        \/ \E c \in Clients : RunNames(c) \/ RunTables(c) \/ RunInfo(c) \/ RunPage(c) \/ RunCount(c)
                              \/ HelperFails(c) \/ Answered(c)
        \/ \E c \in Clients : RunStatement(c)
        \/ \E name \in SavedNames : Forget(name) \/ Save(name)
        \/ (\E store \in Stores : AppWorks(store)) \/ Detect \/ Managed
    BY Zenon DEF Steps
  <2> HIDE DEF ConsoleInv
  <2>2. QED  BY <1>1, <1>2, <1>3, <1>4, <1>5, <2>1, Zenon

\* What was true of a page or a count stays so when more has been seen.
LEMMA Refits ==
  ASSUME NEW q \in Question, NEW s, NEW t, Fits(q, s), q.kind \in Browsing => s \subseteq t
  PROVE  Fits(q, t)
BY DEF Fits, PageIn, TotalIn

LEMMA NextKeeps ==
  ASSUME ConsoleInv, ConsoleNext PROVE ConsoleInv'
<1>1. AsksMove /\ World' /\ Marks'
  BY StepsMove DEF ConsoleNext
<1>2. ASSUME NEW c \in Clients
      PROVE  seen'[c] = IF ask'[c].kind \notin Browsing THEN {}
                        ELSE IF ask[c].pc = "answered" THEN seen[c] ELSE seen[c] \cup Mine(c)'
  BY DEF ConsoleNext
<1>3. AsksFit'
  <2>1. ASSUME NEW c \in Clients PROVE Fits(ask'[c], seen'[c])
    <3>1. ask'[c] \in Question /\ Fits(ask'[c], seen[c])
      BY <1>1 DEF AsksMove
    <3>2. ask'[c].kind \in Browsing => seen[c] \subseteq seen'[c]
      BY <1>2
    <3>3. QED  BY <3>1, <3>2, Refits
  <2>2. ask' \in [Clients -> Question]
    BY <1>1 DEF AsksMove
  <2>3. QED  BY <2>1, <2>2 DEF AsksFit, Fits, PageIn, TotalIn, Slice, Plain
<1>4. SeenIsCurrent'
  <2>1. ASSUME NEW c \in Clients, ask'[c].kind \in Browsing, ask'[c].pc \in {"names", "page", "count"}
        PROVE  base'[ask'[c].on] \in seen'[c]
    <3>1. ask[c].pc # "answered"
      <4>1. ask[c].pc = "answered" => ask'[c] = ask[c] \/ ask'[c] = Unused
        BY <1>1 DEF AsksMove
      <4>2. QED  BY <2>1, <4>1, UnusedFits
    <3>2. seen'[c] = seen[c] \cup Mine(c)'
      BY <1>2, <2>1, <3>1
    <3>3. ask'[c].on \in Stores
      BY <1>1, <2>1 DEF AsksMove, Fits
    <3>4. ask'[c].on # "none"
      BY <3>3, ConsoleAssumption DEF ConsoleAssumption, Stores
    <3>5. base'[ask'[c].on] \in Mine(c)'
      BY <3>4 DEF Mine
    <3>6. QED  BY <3>2, <3>5
  <2>2. QED  BY <2>1 DEF SeenIsCurrent
<1>5. QED  BY <1>1, <1>3, <1>4 DEF ConsoleInv

LEMMA InitIsConsole == ConsoleInit => ConsoleInv
<1> SUFFICES ASSUME ConsoleInit PROVE ConsoleInv
  OBVIOUS
<1>1. World
  <2>1. {Missing, <<"word">>} \subseteq Seq(Cells) \cup {Missing}
    BY DEF Cells
  <2>2. base \in [Stores -> Seq(Cells) \cup {Missing}]
    BY <2>1 DEF ConsoleInit
  <2>3. QED  BY <2>2 DEF ConsoleInit, World, Stores
<1>2. AsksFit /\ SeenIsCurrent
  BY UnusedFits DEF ConsoleInit, AsksFit, SeenIsCurrent
<1>3. Marks
  BY DEF ConsoleInit, Marks, RunsAreMarked
<1>4. QED  BY <1>1, <1>2, <1>3 DEF ConsoleInv

LEMMA ConsoleKept == ConsoleSpec => []ConsoleInv
<1>1. ConsoleInv /\ [ConsoleNext]_consoleVars => ConsoleInv'
  <2>1. ASSUME ConsoleInv, UNCHANGED consoleVars PROVE ConsoleInv'
    <3>1. World' /\ SeenIsCurrent' /\ Marks'
      BY <2>1 DEF consoleVars, queryVars, ConsoleInv, World, SeenIsCurrent, Marks, RunsAreMarked
    <3>2. AsksFit'
      <4>1. ask' = ask /\ seen' = seen
        BY <2>1 DEF consoleVars
      <4>2. QED  BY <2>1, <4>1 DEF ConsoleInv, AsksFit, Fits, PageIn, TotalIn, Slice, Plain
    <3>3. QED  BY <3>1, <3>2 DEF ConsoleInv
  <2>2. QED  BY <2>1, NextKeeps
<1>2. QED  BY <1>1, InitIsConsole, PTL DEF ConsoleSpec

LEMMA InvSaysTrue == ConsoleInv => ConsoleIsTrue
<1> SUFFICES ASSUME ConsoleInv PROVE ConsoleIsTrue
  OBVIOUS
<1>1. ASSUME NEW c \in Clients PROVE PageOfTheTable(c) /\ InsertsAreTold(c) /\ WritesAreAsked(c)
  <2>1. Fits(ask[c], seen[c])
    BY AsksOf DEF ConsoleInv
  <2>2. PageOfTheTable(c)
    BY <2>1 DEF Fits, PageIn, TotalIn, PageOfTheTable
  <2>3. QED  BY <2>1, <2>2 DEF Fits, InsertsAreTold, WritesAreAsked
<1>2. QED  BY <1>1 DEF ConsoleIsTrue, ConsoleInv, Marks

\* The console tells the truth, whatever the tables, the files, the requests and
\* the app: a page of plain rows is the table's at one moment, and is never longer
\* than was asked; so is a count that is not 0; an insertion is answered as done
\* exactly when it was; only a script for a Postgres writes without write mode; a
\* saved query that a database has run has its run marked.  Nothing is said of a page
\* of a table that was gone or of another file of that name.
THEOREM TheConsoleIsTrue == ConsoleSpec => []ConsoleIsTrue
BY ConsoleKept, InvSaysTrue, PTL
===============================================================================
