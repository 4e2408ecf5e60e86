---------------------------- MODULE IssueTracker ----------------------------
(***************************************************************************)
(* Error tracking: occurrences grouped into issues by fingerprint, and     *)
(* what people decide about them (src/src/store.rs, tables issues and      *)
(* error_events; src/src/server.rs, the issue handlers).                   *)
(*                                                                         *)
(* One project.  Each operation is one store call, atomic under the mutex  *)
(* of the connection.  People name an issue by the row id they saw listed; *)
(* SQLite hands the id of a deleted row out again when it was the highest. *)
(***************************************************************************)
EXTENDS Integers, FiniteSets, FiniteSetsExt, Functions

CONSTANTS
  Fingerprints,  \* errors::fingerprint of a title: what makes one issue
  MaxTime,       \* bound: occurrences carry timestamps 0..MaxTime
  Keep,          \* occurrences kept per issue (50)
  MaxDeletes     \* bound: how many issues people delete

ASSUME TrackerBounds == MaxTime \in Nat /\ Keep \in Nat \ {0} /\ MaxDeletes \in Nat

VARIABLES
  issue,     \* table issues: a row per fingerprint; id 0 is no row
  events,    \* table error_events: per issue id, how many occurrences of each time
  verdict,   \* history: the last state a person gave the issue
  again,     \* history: the issue has occurred since that verdict
  all,       \* history: every occurrence of the issue since it was created
  deletes    \* history: how many issues were deleted

trackerVars == <<issue, events, verdict, again, all, deletes>>

Times == 0..MaxTime
States == {"open", "resolved", "ignored"}
Rows == [id: Nat, state: States, resolved: BOOLEAN, count: Nat, last: Times]
NoIssue == [id |-> 0, state |-> "open", resolved |-> FALSE, count |-> 0, last |-> 0]
NoEvents == [t \in Times |-> 0]

Exists(f) == issue[f].id # 0

\* A row with this state and flag; an occurrence also has a time.
Marked(row, s, flag) ==
  [id |-> row.id, state |-> s, resolved |-> flag, count |-> row.count, last |-> row.last]
Bumped(row, ts, s, flag) ==
  [id |-> row.id, state |-> s, resolved |-> flag, count |-> row.count + 1,
   last |-> Max({row.last, ts})]

\* Mutant: ids are counted, not taken above the highest one.
NextId_Count == Cardinality({f \in Fingerprints : Exists(f)}) + 1

\* SQLite's rowid for an INTEGER PRIMARY KEY without AUTOINCREMENT.
NextId == 1 + Max({0} \cup {issue[f].id : f \in Fingerprints})

\* The occurrences stored for an issue id.
EventsOf(id) == IF id \in DOMAIN events THEN events[id] ELSE NoEvents

\* `ORDER BY ts DESC LIMIT 50`
Newest(bag) ==
  [t \in Times |-> Min({bag[t], Max({0, Keep - SumFunctionOnSet(bag, t+1..MaxTime)})})]

\* Mutant: a recurrence opens the issue and forgets the older flag.
Occurred_FlagKept(row, ts) ==
  Bumped(row, ts, IF row.state = "ignored" THEN "ignored" ELSE "open", row.resolved)

\* Mutant: every recurrence opens the issue.
Occurred_Unignores(row, ts) == Bumped(row, ts, "open", FALSE)

\* ON CONFLICT DO UPDATE: a resolved issue comes back open, an ignored one not.
Occurred(row, ts) ==
  IF row.state = "ignored" THEN Bumped(row, ts, "ignored", row.resolved)
  ELSE Bumped(row, ts, "open", FALSE)

\* record_error: create or bump the issue, store the occurrence, keep the
\* newest ones; one transaction.
RecordError(f, ts) ==
  LET row == IF Exists(f) THEN Occurred(issue[f], ts)
             ELSE [id |-> NextId, state |-> "open", resolved |-> FALSE, count |-> 1, last |-> ts]
      with == [EventsOf(row.id) EXCEPT ![ts] = @ + 1]
  IN  /\ issue' = [issue EXCEPT ![f] = row]
      /\ events' = [id \in DOMAIN events \cup {row.id} |->
                      IF id = row.id THEN Newest(with) ELSE events[id]]
      /\ verdict' = [verdict EXCEPT ![f] = IF Exists(f) THEN @ ELSE "open"]
      /\ again' = [again EXCEPT ![f] = TRUE]
      /\ all' = [all EXCEPT ![f][ts] = @ + 1]
      /\ UNCHANGED deletes

\* set_issue_state, from POST issues/bulk, POST issues/:id or the agent's
\* triage_errors: every listed row takes the state.
SetState(ids, s) ==
  LET hit == {f \in Fingerprints : Exists(f) /\ issue[f].id \in ids}
  IN  /\ hit # {}
      /\ issue' = [f \in Fingerprints |->
                     IF f \in hit THEN Marked(issue[f], s, s = "resolved") ELSE issue[f]]
      /\ verdict' = [f \in Fingerprints |-> IF f \in hit THEN s ELSE verdict[f]]
      /\ again' = [f \in Fingerprints |-> f \notin hit /\ again[f]]
      /\ UNCHANGED <<events, all, deletes>>

\* Mutant: foreign keys are not enforced, so the events stay behind.
DeleteIssues_NoCascade(ids) ==
  LET hit == {f \in Fingerprints : Exists(f) /\ issue[f].id \in ids}
  IN  /\ hit # {}
      /\ deletes + Cardinality(hit) <= MaxDeletes
      /\ deletes' = deletes + Cardinality(hit)
      /\ issue' = [f \in Fingerprints |-> IF f \in hit THEN NoIssue ELSE issue[f]]
      /\ all' = [f \in Fingerprints |-> IF f \in hit THEN NoEvents ELSE all[f]]
      /\ UNCHANGED <<events, verdict, again>>

\* delete_issues; ON DELETE CASCADE takes the events along.
DeleteIssues(ids) ==
  LET hit == {f \in Fingerprints : Exists(f) /\ issue[f].id \in ids}
  IN  /\ hit # {}
      /\ deletes + Cardinality(hit) <= MaxDeletes
      /\ deletes' = deletes + Cardinality(hit)
      /\ issue' = [f \in Fingerprints |-> IF f \in hit THEN NoIssue ELSE issue[f]]
      /\ events' = [id \in DOMAIN events \ {issue[f].id : f \in hit} |-> events[id]]
      /\ all' = [f \in Fingerprints |-> IF f \in hit THEN NoEvents ELSE all[f]]
      /\ UNCHANGED <<verdict, again>>

\* migrate, at every start: a row from before the state column had carries its
\* resolution in the flag.
Migrate ==
  /\ issue' = [f \in Fingerprints |->
                 IF Exists(f) /\ issue[f].resolved /\ issue[f].state = "open"
                 THEN Marked(issue[f], "resolved", TRUE) ELSE issue[f]]
  /\ UNCHANGED <<events, verdict, again, all, deletes>>

TrackerInit ==
  /\ issue = [f \in Fingerprints |-> NoIssue]
  /\ events = <<>>
  /\ verdict = [f \in Fingerprints |-> "open"]
  /\ again = [f \in Fingerprints |-> FALSE]
  /\ all = [f \in Fingerprints |-> NoEvents]
  /\ deletes = 0

\* The ids people have seen: those in the table, or deleted meanwhile.
ListedIds == {issue[f].id : f \in {g \in Fingerprints : Exists(g)}}

TrackerNext ==
  \/ \E f \in Fingerprints, ts \in Times : RecordError(f, ts)
  \/ \E ids \in SUBSET ListedIds : \/ \E s \in States : SetState(ids, s)
                                   \/ DeleteIssues(ids)
  \/ Migrate

TrackerSpec == TrackerInit /\ [][TrackerNext]_trackerVars

-----------------------------------------------------------------------------
(* Properties *)

TrackerTypeOK ==
  /\ issue \in [Fingerprints -> Rows]
  /\ DOMAIN events \in SUBSET Nat
  /\ \A id \in DOMAIN events : events[id] \in [Times -> Nat]
  /\ verdict \in [Fingerprints -> States]
  /\ again \in [Fingerprints -> BOOLEAN]
  /\ all \in [Fingerprints -> [Times -> Nat]]
  /\ deletes \in Nat

\* The verdict of a person stands: ignored stays ignored whatever happens,
\* resolved holds until the error occurs again and then the issue is open
\* (store.rs:759-760 and :776-777).
StateIsVerdict ==
  \A f \in Fingerprints : Exists(f) =>
    issue[f].state = IF verdict[f] = "resolved" /\ again[f] THEN "open" ELSE verdict[f]

\* The older resolved flag never disagrees with the state that replaced it.
FlagFollowsState ==
  \A f \in Fingerprints : issue[f].resolved <=> issue[f].state = "resolved"

\* Opening the tables changes no issue: the migration, which runs at every start
\* and not only the first, never resolves an issue by itself.
RestartForgetsNothing == [][Migrate => issue' = issue]_trackerVars

\* An issue id names one issue: events and verdicts reach the right row.
IdsAreDistinct ==
  \A f, g \in Fingerprints : Exists(f) /\ issue[f].id = issue[g].id => f = g

\* An issue summarises what was recorded of it and of no other: the count, the
\* latest time, and the Keep newest occurrences, whatever order they came in
\* and whoever had its id before (the count and last_seen of the upsert, the
\* DELETE that follows it, and the cascade).
IssueSummarises ==
  \A f \in Fingerprints : Exists(f) =>
    LET kept == EventsOf(issue[f].id)
    IN  /\ issue[f].count = SumFunction(all[f])
        /\ issue[f].last = Max({t \in Times : all[f][t] > 0})
        /\ SumFunction(kept) = Min({Keep, SumFunction(all[f])})
        /\ \A t \in Times : kept[t] <= all[f][t]
        /\ \A t \in Times : kept[t] < all[f][t] => \A u \in 0..t-1 : kept[u] = 0

\* An issue is told apart from every other, and tells what was recorded of it.
IssuesAreTheirOwn == IdsAreDistinct /\ IssueSummarises
=============================================================================
