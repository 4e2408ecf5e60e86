-------------------------------- MODULE MCHost --------------------------------
(***************************************************************************)
(* What is collected on the host and what is shown of it: the charts, the  *)
(* process list, the search over the log index, errors filed under issues, *)
(* the lists of issues; and the Postgres of an app.  They share no state,  *)
(* so a behaviour is one of the six and the variables of the others stay   *)
(* where they begin.                                                       *)
(***************************************************************************)
EXTENDS Metrics, Processes, LogSearch, Grouping, IssueReading, AppDatabase, TLC

CONSTANTS p1, p2, typed, unset, r1, r2

VARIABLE which \* whose behaviour it is

\* Three programs, two of them of one binary.
ProgramsHere ==
  {[bin |-> "ff", comm |-> "ff"], [bin |-> "ff", comm |-> "tab"], [bin |-> "sh", comm |-> "sh"]}

\* Errors by marker, by class, by stream, by level alone; with data and quoted causes;
\* a stack frame, noise, a warning, and nothing.
BugsHere ==
  {<<>>, <<"boom">>, <<"panic", "name">>, <<"failed", "path">>, <<"refused", "number", "name">>, <<"job", "id">>,
   <<"TypeError:", "boom">>, <<"lost", "RangeError:", "id">>, <<"lost", "timeout">>, <<"lost", "cancel">>, <<"at", "error">>, <<"no errors", "panic">>, <<"warning", "boom">>}

SlotsHere == UNION {Range(bug) : bug \in BugsHere}

\* Lines that tell each filter from the others.
SamplesHere ==
  {k \in LineKinds :
     \/ k.text = "failed" /\ k.stream = "stderr" /\ k.word
     \/ k.text = "warning" /\ k.stream = "stdout" /\ ~k.word
     \/ k.text = "retried" /\ k.stream = "stderr" /\ k.word}

\* Two passwords, two requests.
Symmetry == Permutations(Passwords) \cup Permutations(Requests)

ListRests == ListInit /\ DOMAIN proc = {First} /\ proc[First].program.bin = "sh"

DatabaseRests == Init /\ ~sqlite

HostInit ==
  /\ ChartsInit /\ SearchInit /\ GroupingInit /\ ReadingInit
  /\ \/ which \in {"charts", "search", "bugs", "issues"} /\ ListRests /\ DatabaseRests
     \/ which = "list" /\ ListInit /\ DatabaseRests
     \/ which = "database" /\ ListRests /\ Init

ChartsStep == which = "charts" /\ ChartsNext /\ UNCHANGED <<listVars, searchVars, groupingVars, readingVars, vars>>
ListStep == which = "list" /\ ListNext /\ UNCHANGED <<chartsVars, searchVars, groupingVars, readingVars, vars>>
SearchStep == which = "search" /\ SearchNext /\ UNCHANGED <<chartsVars, listVars, groupingVars, readingVars, vars>>
BugsStep == which = "bugs" /\ GroupingNext /\ UNCHANGED <<chartsVars, listVars, searchVars, readingVars, vars>>
IssuesStep == which = "issues" /\ ReadingNext /\ UNCHANGED <<chartsVars, listVars, searchVars, groupingVars, vars>>
DatabaseStep == which = "database" /\ Next /\ UNCHANGED <<chartsVars, listVars, searchVars, groupingVars, readingVars>>

HostNext == UNCHANGED which /\ (ChartsStep \/ ListStep \/ SearchStep \/ BugsStep \/ IssuesStep \/ DatabaseStep)

HostSpec == HostInit /\ [][HostNext]_<<which, chartsVars, listVars, searchVars, groupingVars, readingVars, vars>>
=============================================================================
