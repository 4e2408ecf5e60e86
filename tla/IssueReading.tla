---------------------------- MODULE IssueReading ----------------------------
(***************************************************************************)
(* Issues as they are shown and then acted on: the list with its totals,   *)
(* one issue with its occurrences, and the decision of the person or agent *)
(* who read them (project_errors, issue_detail, issues_bulk and            *)
(* ingest_error of src/src/server.rs; list_errors, error_detail and        *)
(* triage_errors of src/src/mcp.rs).                                       *)
(*                                                                         *)
(* What becomes of an issue is IssueTracker's; here issues come, recur and *)
(* go between the statements of a reader and between reading and deciding. *)
(* Readers know an issue by its row id, which SQLite gives out again.      *)
(***************************************************************************)
EXTENDS Integers, Sequences, FiniteSets, SequencesExt, FiniteSetsExt, Lists

CONSTANTS
  ListLimit,   \* issues of a list (200)
  MaxArrivals \* bound: errors that arrive

ASSUME ReadingAssumption == ListLimit \in Nat \ {0} /\ MaxArrivals \in Nat

VARIABLES
  rows,    \* the project's issues, the last seen first
  list,    \* a list being read, and read
  opened,  \* an issue of the list being read, and read
  acted,   \* history: what the last decision was for, and what it fell to
  gone,    \* history: issues deleted
  births,  \* history: how many issues came to be
  heard,   \* history: those that came from a browser
  recurs   \* history: how many recurrences

readingVars == <<rows, list, opened, acted, gone, births, heard, recurs>>

-----------------------------------------------------------------------------
(* Reading *)

IssueStates == {"open", "resolved", "ignored"}

\* Store::issues: "all" is no filter.
Issues(filter) ==
  LET wanted == Only(rows, {r \in Range(rows) : filter \in {"all", r.state}})
  IN SubSeq(wanted, 1, Min({Len(wanted), ListLimit}))

\* Store::issue_counts
Totals == [s \in IssueStates |-> Cardinality({i \in DOMAIN rows : rows[i].state = s})]

\* Mutant: looked for among the issues that are listed.
BrowserSeen_Listed(filter) == \E r \in Range(Issues(filter)) : r.source = "browser"

\* Whether any issue came from a browser, by those of any state.
BrowserSeen(filter) == \E r \in Range(Issues("all")) : r.source = "browser"

NotAsked == [pc |-> "new", filter |-> "all", page |-> <<>>, totals |-> [s \in IssueStates |-> 0],
             blind |-> FALSE, owed |-> {}, calm |-> TRUE]
NotOpened == [pc |-> "new", id |-> 0, shown |-> 0, events |-> 0]

\* project_errors and list_errors begin with the page,
Lists(filter) ==
  /\ list.pc \in {"new", "answered"}
  /\ list' = [NotAsked EXCEPT !.pc = "listed", !.filter = filter, !.page = Issues(filter)]
  /\ opened' = NotOpened /\ acted' = {} /\ UNCHANGED <<rows, gone, births, heard, recurs>>

\* go on with the totals,
Total ==
  /\ list.pc = "listed" /\ list' = [list EXCEPT !.pc = "totalled", !.totals = Totals]
  /\ UNCHANGED <<rows, opened, acted, gone, births, heard, recurs>>

\* and say, to an agent, when no browser was ever heard of.  The page is what its
\* reader goes by from then on.
Answer_ ==
  /\ list.pc = "totalled"
  /\ list' = [NotAsked EXCEPT !.pc = "answered", !.page = list.page, !.blind = ~BrowserSeen(list.filter),
                              !.owed = IF Len(rows) > ListLimit THEN {} ELSE heard \ gone]
  /\ UNCHANGED <<rows, opened, acted, gone, births, heard, recurs>>

\* issue_detail and error_detail look for the id among the issues of any state,
Open(r) ==
  LET same == {s \in Range(Issues("all")) : s.id = r.id}
  IN /\ list.pc = "answered" /\ r \in Range(list.page) /\ opened.pc = "new"
     /\ opened' = [NotOpened EXCEPT !.pc = IF same = {} THEN "absent" ELSE "found", !.id = r.id, !.shown = r.born]
     /\ UNCHANGED <<rows, list, acted, gone, births, heard, recurs>>

\* and then show the occurrences that have the id.
Occurrences ==
  /\ opened.pc = "found"
  /\ LET same == {s \in Range(rows) : s.id = opened.id}
     IN opened' = [opened EXCEPT !.pc = "shown", !.events = IF same = {} THEN 0 ELSE (CHOOSE s \in same : TRUE).born]
  /\ UNCHANGED <<rows, list, acted, gone, births, heard, recurs>>

-----------------------------------------------------------------------------
(* Deciding *)

\* Any change of the issues while the list is read.
Stirs == list' = [list EXCEPT !.calm = @ /\ list.pc \notin {"listed", "totalled"}]

\* What is decided of an issue on the list falls to the one with its id.
Falls(r) == acted' = {<<r.born, s.born>> : s \in {t \in Range(rows) : t.id = r.id}}

Decide(r, state) ==
  /\ list.pc = "answered" /\ r \in Range(list.page)
  /\ rows' = [i \in DOMAIN rows |-> IF rows[i].id = r.id THEN [rows[i] EXCEPT !.state = state] ELSE rows[i]]
  /\ Falls(r) /\ Stirs /\ opened' = NotOpened /\ UNCHANGED <<gone, births, heard, recurs>>

Delete(r) ==
  /\ list.pc = "answered" /\ r \in Range(list.page)
  /\ rows' = Only(rows, {s \in Range(rows) : s.id # r.id})
  /\ gone' = gone \cup {s.born : s \in {t \in Range(rows) : t.id = r.id}}
  /\ Falls(r) /\ Stirs /\ opened' = NotOpened /\ UNCHANGED <<births, heard, recurs>>

\* Another person deletes an issue.
Elsewhere(r) ==
  /\ r \in Range(rows) /\ rows' = Only(rows, Range(rows) \ {r}) /\ gone' = gone \cup {r.born}
  /\ Stirs /\ UNCHANGED <<opened, acted, births, heard, recurs>>

-----------------------------------------------------------------------------
(* Errors arrive *)

\* Mutant: ids are counted.
FreshId_Count == Len(rows) + 1

FreshId == 1 + Max({0} \cup {r.id : r \in Range(rows)})

\* ingest_error for a browser, the collector for a server: an issue of its own,
Arrives(source) ==
  /\ births + recurs < MaxArrivals /\ births' = births + 1
  /\ heard' = IF source = "browser" THEN heard \cup {births + 1} ELSE heard
  /\ rows' = <<[id |-> FreshId, born |-> births + 1, state |-> "open", source |-> source]>> \o rows
  /\ Stirs /\ UNCHANGED <<opened, acted, gone, recurs>>

\* or one there was, which is open again unless ignored.
Recurs(r) ==
  /\ r \in Range(rows) /\ births + recurs < MaxArrivals /\ recurs' = recurs + 1
  /\ rows' = <<[r EXCEPT !.state = IF @ = "ignored" THEN @ ELSE "open"]>> \o Only(rows, Range(rows) \ {r})
  /\ Stirs /\ UNCHANGED <<opened, acted, gone, births, heard>>

ReadingInit ==
  /\ rows = <<>> /\ list = NotAsked /\ opened = NotOpened /\ acted = {} /\ gone = {}
  /\ births = 0 /\ heard = {} /\ recurs = 0

ReadingNext ==
  \/ \E filter \in IssueStates \cup {"all"} : Lists(filter)
  \/ Total \/ Answer_ \/ Occurrences
  \/ \E r \in Range(list.page) : Open(r) \/ Delete(r) \/ \E s \in IssueStates : Decide(r, s)
  \/ \E r \in Range(rows) : Elsewhere(r) \/ Recurs(r)
  \/ \E source \in {"server", "browser"} : Arrives(source)

ReadingSpec == ReadingInit /\ [][ReadingNext]_readingVars

-----------------------------------------------------------------------------
(* Properties *)

\* A decision falls to the issue that was shown, and what is shown as its
\* occurrences is of it: unless it had been deleted meanwhile, and its id was given
\* to another.
FallsOnTheShown ==
  /\ \A hit \in acted : hit[1] = hit[2] \/ hit[1] \in gone
  /\ opened.pc = "shown" /\ opened.shown \notin gone => opened.events = opened.shown

\* An issue on the list is found when opened, unless it was deleted or there are
\* more than a list holds.
ListedIsFound == opened.pc = "absent" => opened.shown \in gone \/ births > ListLimit

\* An agent is told that no browser was ever heard of only when none was, of any
\* state: but for issues deleted since, or past the limit.
BlindSpotIsSaid == list.pc = "answered" /\ list.blind => list.owed = {}

\* The totals are those of the list, up to its limit, when nothing came between.
TotalsAreOfTheList ==
  list.pc = "totalled" /\ list.calm =>
    LET states == IF list.filter = "all" THEN IssueStates ELSE {list.filter}
    IN Len(list.page) = Min({ListLimit, SumFunctionOnSet(list.totals, states)})

IssuesAreShown == FallsOnTheShown /\ ListedIsFound /\ BlindSpotIsSaid /\ TotalsAreOfTheList
=============================================================================
