------------------------------ MODULE Sessions ------------------------------
(***************************************************************************)
(* Who the panel lets in (src/src/auth.rs): a session signed by a key of   *)
(* the Clerk instance, for a person of it.  Keys and people are cached,    *)
(* each for its time; no lock is held while Clerk is asked, so several     *)
(* requests ask at once and the answer stored last may be the oldest.      *)
(* A list of people is one page, so whoever joined before the newest       *)
(* hundred is refused like a stranger.                                     *)
(*                                                                         *)
(* Clerk is external: its keys rotate and its people come and go while     *)
(* answers are on their way.                                               *)
(***************************************************************************)
EXTENDS Integers, FiniteSets

CONSTANTS
  Kids,       \* key ids
  Users,      \* user ids
  AllowedUsers, \* the people on WEBO_ALLOWED_EMAILS
  Readable,   \* the keys that parse; others are dropped from an answer
  PeopleLimit, \* the most people Clerk is asked for, the newest
  KeyTtl,     \* JWKS_TTL
  PeopleTtl,  \* USERS_TTL
  Timeout,    \* of a question to Clerk
  Visits,     \* requests in flight
  MaxTicks,   \* bound: the clock
  MaxChanges, \* bound: changes at Clerk
  MaxStarts   \* bound: starts of webo

ASSUME SessionsAssumption ==
  /\ AllowedUsers \subseteq Users /\ Readable \subseteq Kids /\ Kids # {} /\ Users # {} /\ IsFiniteSet(Users)
  /\ {KeyTtl, PeopleTtl, PeopleLimit} \subseteq Nat \ {0}
  /\ {Timeout, MaxTicks, MaxChanges, MaxStarts} \subseteq Nat

VARIABLES
  time,     \* the clock
  clerk,    \* what Clerk has: keys and people
  gone,     \* history: when each was last there, of what is not there
  joined,   \* when each person did
  missed,   \* history: when each was last not on every list, of what now is
  cache,    \* Auth.jwks and Auth.users: what was read, and when it was stored
  req,      \* the requests
  changes,  \* history: how many changes at Clerk
  starts    \* history: how many

clerkVars == <<clerk, gone, joined, missed>>
sessionsVars == <<time, clerkVars, cache, req, changes, starts>>

-----------------------------------------------------------------------------
Kinds == {"key", "person"}
Names(kind) == IF kind = "key" THEN Kids ELSE Users
Ttl(kind) == IF kind = "key" THEN KeyTtl ELSE PeopleTtl

\* Before any time of this model.
Never == -1 - KeyTtl - PeopleTtl - 2 * Timeout

Cold == [kind \in Kinds |-> [at |-> Never, got |-> {}]]

\* No question is out, or none has been answered.
Unasked == [sent |-> Never, got |-> {}, back |-> FALSE]

NoRequest == [pc |-> "idle", kid |-> CHOOSE k \in Kids : TRUE, sub |-> CHOOSE p \in Users : TRUE,
              began |-> 0, decided |-> 0, why |-> "none", ask |-> Unasked]

Wanted(q) == IF q.pc = "key" THEN q.kid ELSE q.sub

\* What Clerk may answer: every key, less those that do not parse; a page of people,
\* the newest first.
Pages ==
  {page \in SUBSET clerk["person"] :
     /\ Cardinality(page) <= PeopleLimit
     /\ page # clerk["person"] => Cardinality(page) = PeopleLimit
     /\ \A p \in page, q \in clerk["person"] \ page : joined[p] >= joined[q]}
Answers(kind) == IF kind = "key" THEN {clerk["key"] \cap Readable} ELSE Pages

\* Who is on every such page, and every such list.
Newest ==
  {p \in clerk["person"] : Cardinality({q \in clerk["person"] \ {p} : joined[q] >= joined[p]}) < PeopleLimit}
Listed(kind) == IF kind = "key" THEN clerk["key"] \cap Readable ELSE Newest

\* When a name was last known to Clerk, and last not on every list of what is.
LastThere(kind, name) == IF name \in clerk[kind] THEN time ELSE gone[name]
LastMissing(kind, name) == IF name \in Listed(kind) THEN missed[kind][name] ELSE time

-----------------------------------------------------------------------------
(* One request *)

Decided(q, pc, why) == [q EXCEPT !.pc = pc, !.why = why, !.decided = time, !.ask = Unasked]

\* A session arrives, signed by whoever.
Arrive(r) ==
  /\ req[r].pc = "idle"
  /\ \E kid \in Kids, sub \in Users :
       req' = [req EXCEPT ![r] = [NoRequest EXCEPT !.pc = "key", !.kid = kid, !.sub = sub, !.began = time]]
  /\ UNCHANGED <<time, clerkVars, cache, changes, starts>>

\* The key of a session that has expired meanwhile, or is not signed with it,
\* helps nobody; a person has to be on the list.
Found(q, valid) ==
  IF q.pc = "key"
  THEN IF valid THEN [q EXCEPT !.pc = "person", !.ask = Unasked] ELSE Decided(q, "out", "invalid")
  ELSE IF q.sub \in AllowedUsers THEN Decided(q, "in", "none") ELSE Decided(q, "out", "allowlist")

\* What an answer, cached or fresh, does to a request.
Resolved(q, got, valid) == IF Wanted(q) \in got THEN Found(q, valid) ELSE Decided(q, "out", q.pc)

\* Mutant: a key once seen is good for ever, since unknown ones are asked for.
Usable_KeysStay(q) ==
  IF q.pc = "key" THEN q.kid \in cache["key"].got ELSE time - cache["person"].at < PeopleTtl

\* Mutant: a fresh cache answers for keys it has never seen, too.
Usable_Final(q) == time - cache[q.pc].at < Ttl(q.pc)

\* A cached answer is used while it is fresh; a key it does not have is asked for.
Usable(q) ==
  /\ time - cache[q.pc].at < Ttl(q.pc)
  /\ q.pc = "key" => q.kid \in cache[q.pc].got

\* The cached answer decides.
UseCache(r) ==
  /\ req[r].pc \in Kinds /\ req[r].ask = Unasked /\ Usable(req[r])
  /\ \E valid \in BOOLEAN : req' = [req EXCEPT ![r] = Resolved(@, cache[@.pc].got, valid)]
  /\ UNCHANGED <<time, clerkVars, cache, changes, starts>>

\* Otherwise Clerk is asked.
AskClerk(r) ==
  /\ req[r].pc \in Kinds /\ req[r].ask = Unasked /\ ~Usable(req[r])
  /\ req' = [req EXCEPT ![r].ask.sent = time]
  /\ UNCHANGED <<time, clerkVars, cache, changes, starts>>

\* Clerk reads what it has; the answer is on its way.
ClerkAnswers(r) ==
  /\ req[r].ask.sent # Never /\ ~req[r].ask.back
  /\ \E got \in Answers(req[r].pc) : req' = [req EXCEPT ![r].ask.got = got, ![r].ask.back = TRUE]
  /\ UNCHANGED <<time, clerkVars, cache, changes, starts>>

\* The answer is stored, over whatever was stored meanwhile, and decides.
StoreAnswer(r) ==
  /\ req[r].ask.back
  /\ cache' = [cache EXCEPT ![req[r].pc] = [at |-> time, got |-> req[r].ask.got]]
  /\ \E valid \in BOOLEAN : req' = [req EXCEPT ![r] = Resolved(@, @.ask.got, valid)]
  /\ UNCHANGED <<time, clerkVars, changes, starts>>

\* No answer, or none in time: refused, and the cache stays as it was.
Unreachable(r) ==
  /\ req[r].ask.sent # Never
  /\ req' = [req EXCEPT ![r] = Decided(@, "out", "unreachable")]
  /\ UNCHANGED <<time, clerkVars, cache, changes, starts>>

\* The response is sent.
Done(r) ==
  /\ req[r].pc \in {"in", "out"} /\ req' = [req EXCEPT ![r] = NoRequest]
  /\ UNCHANGED <<time, clerkVars, cache, changes, starts>>

-----------------------------------------------------------------------------
(* Clerk, the clock, a new webo *)

\* A key is published or withdrawn, a person joins or leaves.
Change(kind, name) ==
  /\ changes < MaxChanges /\ changes' = changes + 1
  /\ IF name \in clerk[kind]
     THEN clerk' = [clerk EXCEPT ![kind] = @ \ {name}] /\ gone' = [gone EXCEPT ![name] = time] /\ UNCHANGED joined
     ELSE clerk' = [clerk EXCEPT ![kind] = @ \cup {name}] /\ joined' = [joined EXCEPT ![name] = time] /\ UNCHANGED gone
  /\ missed' = [k \in Kinds |-> [n \in Names(k) |-> IF n \in Listed(k) THEN missed[k][n] ELSE time]]
  /\ UNCHANGED <<time, cache, req, starts>>

\* Only Clerk is waited for, and never for longer than the timeout.
Wait ==
  /\ time < MaxTicks
  /\ \A r \in Visits : req[r].pc # "idle" => time < req[r].ask.sent + Timeout
  /\ time' = time + 1
  /\ UNCHANGED <<clerkVars, cache, req, changes, starts>>

\* Both caches are in memory.
StartAgain ==
  /\ starts < MaxStarts /\ starts' = starts + 1
  /\ cache' = Cold /\ req' = [r \in Visits |-> NoRequest]
  /\ UNCHANGED <<time, clerkVars, changes>>

SessionsInit ==
  /\ time = 0 /\ clerk \in [Kinds -> SUBSET (Kids \cup Users)]
  /\ \A kind \in Kinds : clerk[kind] \subseteq Names(kind)
  /\ gone = [name \in Kids \cup Users |-> Never] /\ joined = gone
  /\ missed = [kind \in Kinds |-> [name \in Names(kind) |-> Never]]
  /\ cache = Cold /\ req = [r \in Visits |-> NoRequest]
  /\ changes = 0 /\ starts = 0

SessionsNext ==
  \/ \E r \in Visits : \/ Arrive(r) \/ UseCache(r) \/ AskClerk(r) \/ ClerkAnswers(r)
                         \/ StoreAnswer(r) \/ Unreachable(r) \/ Done(r)
  \/ \E kind \in Kinds : \E name \in Names(kind) : Change(kind, name)
  \/ Wait \/ StartAgain

SessionsSpec == SessionsInit /\ [][SessionsNext]_sessionsVars

-----------------------------------------------------------------------------
(* Properties *)

\* Whoever is let in was known to Clerk lately: the key within the last hour, the
\* person within the last minute, and the time the questions took, however many
\* requests asked at once and in whatever order their answers were stored.
AdmittedWereKnown ==
  \A r \in Visits : req[r].pc = "in" =>
    /\ LastThere("key", req[r].kid) > req[r].decided - KeyTtl - 2 * Timeout
    /\ LastThere("person", req[r].sub) > req[r].decided - PeopleTtl - Timeout

\* Whoever is refused as unknown was, or was left off a list: a key was missing, or
\* did not parse, at some time since the request came, so that a rotation locks
\* nobody out; a person was unknown, or as many had joined as Clerk is asked for,
\* within a minute and a timeout.
RefusedWereUnknown ==
  \A r \in Visits : req[r].pc = "out" =>
    /\ req[r].why = "key" => LastMissing("key", req[r].kid) >= req[r].began
    /\ req[r].why = "person" =>
         LastMissing("person", req[r].sub) > req[r].decided - PeopleTtl - Timeout

\* Clerk was lately of the mind that a request was decided by (verify, team).
DecisionsAreFounded == AdmittedWereKnown /\ RefusedWereUnknown
=============================================================================
