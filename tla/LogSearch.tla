------------------------------ MODULE LogSearch ------------------------------
(***************************************************************************)
(* The search over the log index, for the panel and for agents             *)
(* (search_logs of src/src/store.rs, project_logs of src/src/server.rs,    *)
(* search_logs of src/src/mcp.rs).                                         *)
(*                                                                         *)
(* A search is one statement with a limit of its own; what it returns is   *)
(* counted, filtered further and cut by its caller.                        *)
(***************************************************************************)
EXTENDS ErrorText, FiniteSets, Lists

CONSTANTS
  Own,       \* the project's containers
  ScanLimit, \* lines a search returns at most (5000)
  Limits,    \* lines a page may have, as asked
  Samples,   \* bound: what is stored
  Seconds,   \* bound: when, and what may be asked since
  MaxLines   \* bound: lines stored

ASSUME LogSearchAssumption ==
  /\ Limits \subseteq 1 .. ScanLimit /\ "any" \notin Own
  /\ {ScanLimit, MaxLines} \subseteq Nat /\ Seconds \subseteq Nat

VARIABLES
  index,   \* the project's lines, in the order stored
  search   \* the last search and its answer, until the index changes

searchVars == <<index, search>>

-----------------------------------------------------------------------------
(* Lines *)

\* What a line says, and its level (log_line_json).
Texts ==
  [plain   |-> Line("plain", "none", FALSE, <<>>, <<Word("ready")>>),
   warning |-> Line("plain", "none", FALSE, <<>>, <<Word("warning")>>),
   failed  |-> Line("plain", "none", FALSE, <<>>, <<Word("failed")>>),
   retried |-> Line("ruby", "INFO", FALSE, <<>>, <<Word("failed")>>)]

LevelShown(line) == LevelOf(Texts[line.text], line.stream)

\* The kinds the filters tell apart; the word is one a person types.
LineKinds ==
  {[container |-> c, stream |-> s, text |-> t, word |-> w] :
     c \in Own, s \in {"stdout", "stderr"}, t \in DOMAIN Texts, w \in BOOLEAN}

ASSUME SamplesAssumption == Samples \subseteq LineKinds

Stored == DOMAIN index

\* Newest first; lines of one second come in any order.
NewestFirst(S) ==
  {order \in SetToSeqs(S) : \A i, j \in DOMAIN order : i < j => index[order[i]].ts >= index[order[j]].ts}

-----------------------------------------------------------------------------
(* The search *)

\* A token of nothing but quotes asks for nothing (fts_query).
Asked == [container : Own \cup {"any"}, level : {"any", "error"}, stream : {"any", "stderr"},
          query : {{}, {"word", "quotes"}, {"quotes"}}, since : Seconds, limit : Limits]

FtsQuery(query) == query \ {"quotes"}

Matches(line, q) ==
  /\ FtsQuery(q.query) # {} => line.word
  /\ line.ts >= q.since
  /\ q.container \in {"any", line.container}

\* Mutant: the container is left to filter after the limit, as it once was.
Scans_Late(q) ==
  LET found(order) == Only(SubSeq(order, 1, Min({Len(order), ScanLimit})), {i \in Stored : Matches(index[i], q)})
  IN {found(order) : order \in NewestFirst({i \in Stored : Matches(index[i], [q EXCEPT !.container = "any"])})}

\* Store::search_logs: every filter it knows is before the limit.
Scans(q) ==
  {SubSeq(order, 1, Min({Len(order), ScanLimit})) :
     order \in NewestFirst({i \in Stored : Matches(index[i], q)})}

\* Of the scan, the lines counted (log_stats) by level and by hour.
Counted(lines) ==
  [level \in {"info", "warn", "error"} |-> Cardinality({i \in DOMAIN lines : LevelShown(index[lines[i]]) = level})]
Histogram(lines) ==
  [ts \in {index[lines[i]].ts : i \in DOMAIN lines} |->
     Cardinality({i \in DOMAIN lines : index[lines[i]].ts = ts})]

\* The page of lines of the level asked for.
Page(lines, q) ==
  LET wanted == Only(lines, {i \in Stored : q.level \in {"any", LevelShown(index[i])}})
  IN SubSeq(wanted, 1, Min({Len(wanted), q.limit}))

NoSearch == [answered |-> FALSE]

Shows(q, scan, lines) ==
  search' = [answered |-> TRUE, asked |-> q, full |-> Len(scan) = ScanLimit,
             counts |-> Counted(lines), hours |-> Histogram(lines), page |-> Page(lines, q)]

\* project_logs: the panel has no filter for the stream.
PanelSearches ==
  /\ search = NoSearch
  /\ \E q \in {a \in Asked : a.stream = "any"} : \E scan \in Scans(q) : Shows(q, scan, scan)
  /\ UNCHANGED index

\* search_logs of an agent, who always asks for a window and may ask for a stream,
\* which is left out after the scan.
AgentSearches ==
  /\ search = NoSearch
  /\ \E q \in {a \in Asked : a.stream # "any"} : \E scan \in Scans(q) :
       Shows(q, scan, Only(scan, {i \in Stored : index[i].stream = q.stream}))
  /\ UNCHANGED index

-----------------------------------------------------------------------------
(* The index meanwhile (LogCollector) *)

\* A line is stored; containers are read sweep by sweep, so an older second of one
\* may follow a newer of another.
Store ==
  /\ Len(index) < MaxLines
  /\ \E kind \in Samples, ts \in Seconds :
       index' = Append(index, [container |-> kind.container, stream |-> kind.stream, text |-> kind.text,
                               word |-> kind.word, ts |-> ts])
  /\ search' = NoSearch

SearchInit == index = <<>> /\ search = NoSearch

SearchNext == PanelSearches \/ AgentSearches \/ Store

SearchSpec == SearchInit /\ [][SearchNext]_searchVars

-----------------------------------------------------------------------------
(* Properties *)

\* What a request asks for, whichever of its filters the search or its caller
\* applies.
Wanted(q) ==
  {i \in Stored : /\ Matches(index[i], q) /\ q.stream \in {"any", index[i].stream}
                  /\ q.level \in {"any", LevelShown(index[i])}}

\* A page has only lines asked for, each once, newest first, and leaves out none
\* that is newer than one it has, nor any at all unless it is at its limit: except
\* beyond a scan that came back full, where level and stream are filtered late.
PageIsTheNewest ==
  search.answered =>
    LET shown == Range(search.page)
        wanted == Wanted(search.asked)
    IN /\ shown \subseteq wanted /\ IsInjective(search.page) /\ search.page \in NewestFirst(shown)
       /\ \A i \in wanted \ shown : /\ Cardinality(shown) < search.asked.limit => search.full
                                    /\ \A j \in shown : index[i].ts <= index[j].ts

\* The counts by level and by hour are of one set of lines; those of the level asked
\* for are no fewer than shown, as many where the page is not at its limit, and all
\* there are unless the scan came back full.
CountsAreOfThePage ==
  search.answered =>
    LET q == search.asked
        counted(levels) == SumFunctionOnSet(search.counts, levels)
        mine == counted(IF q.level = "any" THEN DOMAIN search.counts ELSE {q.level})
    IN /\ counted(DOMAIN search.counts) = SumFunction(search.hours)
       /\ mine >= Len(search.page) /\ (Len(search.page) < q.limit => mine = Len(search.page))
       /\ search.full \/ mine = Cardinality(Wanted(q))

SearchIsTrue == PageIsTheNewest /\ CountsAreOfThePage
=============================================================================
