------------------------------ MODULE Console ------------------------------
(***************************************************************************)
(* The SQL console over a project's database: browsing a table, inserting  *)
(* a row, statements and saved queries (src/src/server.rs, src/src/db.rs,  *)
(* db_info and db_rows of src/src/mcp.rs).                                 *)
(*                                                                         *)
(* Every statement runs in a container of its own, some time after it was  *)
(* decided on, against the database the project had when it was decided    *)
(* on; what it prints is all that is known of it.  The app works on its    *)
(* data meanwhile.  One table, of one column.                              *)
(***************************************************************************)
EXTENDS Integers, Sequences, FiniteSetsExt, Lists

CONSTANTS
  Mounted,    \* SQLite files in the volumes of the app's container
  Postgres,   \* the managed Postgres
  Layer,      \* a SQLite file the container has written outside of them
  Twins,      \* the files of Mounted that have the same name
  Clients,    \* requests
  Limit,      \* rows of a page
  MaxRows,    \* bound: rows of the table
  MaxApp,     \* bound: what the app does to its data
  MaxMoves    \* bound: databases created, dropped and detected

ASSUME ConsoleAssumption ==
  /\ Layer \notin Mounted /\ Twins \subseteq Mounted /\ Postgres \notin Mounted \cup {Layer}
  /\ (Mounted \cup {Layer, Postgres}) \cap {"none", "nothing"} = {}
  /\ Limit \in Nat \ {0} /\ {MaxRows, MaxApp, MaxMoves} \subseteq Nat

VARIABLES
  base,    \* the rows of the table in each database, or Missing
  current, \* the databases table: the project's database, or "none"
  ask,     \* the requests
  saved,   \* saved_queries: name to whether last_run_at is set
  seen,    \* history: what the table of the databases a request is for was since it came
  by,      \* history: the saved query a request is a run of, while there is one
  sent,    \* history: the saved queries a database has run since they were last deleted
  moves, apps  \* history: how many

queryVars == <<saved, by, sent>>
consoleVars == <<base, current, ask, queryVars, seen, moves, apps>>

-----------------------------------------------------------------------------
Stores == Mounted \cup {Layer, Postgres}

\* No file, no table in it, or a Postgres that does not answer.
Missing == <<"missing">>

\* What a cell can hold: one that is printed as a blank line or like psql's footer,
\* one that reads like a failure, one with a bar or a newline in it, or none of these.
Cells == {"word", "blank", "error", "bar", "torn"}
SavedNames == {"q"}

\* table_rows, and db_rows for an agent.
Browsing == {"rows", "db_rows"}

Requested == {"tables", "info", "rows", "db_rows", "insert", "read", "change", "cte", "script"}

Unused == [pc |-> "new", kind |-> "tables", write |-> FALSE, offset |-> 0, cell |-> "word",
         on |-> "none", wrote |-> FALSE, blind |-> FALSE, page |-> <<>>, total |-> 0]

-----------------------------------------------------------------------------
(* What a statement prints, and what is read from that *)

Slice(rows, offset, most) == SubSeq(rows, offset + 1, Min({Len(rows), offset + most}))

\* The lines that rows are printed on: a newline makes two of one, a bar is printed
\* as it is between two cells.
Twice(rows) ==
  [i \in 1 .. 2 * Len(rows) |->
     LET cell == rows[(i + 1) \div 2] IN IF cell = "bar" THEN "split" ELSE cell]
Shown(rows) ==
  Picked(Twice(rows), {i \in DOMAIN Twice(rows) : i % 2 = 1 \/ Twice(rows)[i] = "torn"})

\* psql prints the header in any case, sqlite3 before the first row.
Lines(store, rows) ==
  IF rows = <<>> /\ store # Postgres THEN <<>> ELSE <<"header">> \o Shown(rows)

\* What is on a line that is neither blank nor a footer.
Printed == {"header", "word", "error", "split", "torn"}

\* Mutant: the header is a row.
Parsed_Header(lines) == LET left == Only(lines, Printed) IN SubSeq(left, 1, Min({Len(left), Limit}))

\* parse_table_output: no more rows than were asked for.
Parsed(lines) ==
  LET left == Only(lines, Printed)
  IN IF left = <<>> THEN <<>> ELSE SubSeq(Tail(left), 1, Min({Len(Tail(left)), Limit}))

\* A failure prints two lines, the second of them more of the same.
Failure == <<"error", "error">>

\* is_write_statement: by the first word; a CTE counts as reading, and so does a
\* script that begins with a select.
IsWrite(kind) == kind \in {"insert", "change"}

\* pg_query, sqlite_query: the file is looked for by its name.
Opened(on) ==
  IF on = Postgres THEN {Postgres}
  ELSE LET found == {f \in IF on \in Twins THEN Twins ELSE {on} : base[f] # Missing}
       IN IF found = {} THEN {"nothing"} ELSE found

-----------------------------------------------------------------------------
(* Requests *)

\* A statement is for the database the row names by then (run_sql); there may be
\* none any more, and a file outside of the volumes is not reached.
Sends(c, q) == ask' = [ask EXCEPT ![c] = IF current \in {"none", Layer} THEN Unused ELSE [q EXCEPT !.on = current]]

Marked(name) == [saved EXCEPT ![name] = TRUE]

\* A request is checked and its first statement sent; the run of a saved query is
\* marked before, whatever becomes of it.
Asked(c, kind, write, offset, cell, name) ==
  LET looks == kind \in {"tables", "info", "insert"} \cup Browsing
      refused == IsWrite(kind) /\ ~write
      marks == name \in DOMAIN saved /\ ~refused
  IN /\ ask[c] = Unused
     /\ looks => name = "-" /\ write = (kind = "insert")
     /\ offset = 0 \/ kind \in Browsing
     /\ cell = "word" \/ kind = "insert"
     /\ IF refused THEN ask' = ask
        ELSE Sends(c, [Unused EXCEPT !.pc = IF looks THEN "names" ELSE "statement", !.kind = kind,
                                   !.write = write, !.offset = offset, !.cell = cell])
     /\ saved' = IF marks THEN Marked(name) ELSE saved
     /\ by' = [by EXCEPT ![c] = IF marks THEN name ELSE "-"]
     /\ UNCHANGED <<base, current, sent, moves, apps>>

\* The answer is given.
Answered(c) ==
  /\ ask[c].pc \in {"answered", "refused"} /\ ask' = [ask EXCEPT ![c] = Unused]
  /\ UNCHANGED <<base, current, queryVars, moves, apps>>

\* table_names: a table that is not there is not asked for; what a failing
\* statement prints has no table's name in it.
RunNames(c) ==
  /\ ask[c].pc = "names" /\ ask[c].kind # "tables"
  /\ \E store \in Opened(ask[c].on) :
       IF store = "nothing" \/ base[store] = Missing
       THEN ask' = [ask EXCEPT ![c] = Unused]
       ELSE Sends(c, [ask[c] EXCEPT !.pc = CASE ask[c].kind = "info" -> "info"
                                             [] ask[c].kind \in Browsing -> "page"
                                             [] OTHER -> "statement"])
  /\ UNCHANGED <<base, current, queryVars, moves, apps>>

\* database_tables: there is nothing more to it.
RunTables(c) ==
  /\ ask[c].pc = "names" /\ ask[c].kind = "tables" /\ ask' = [ask EXCEPT ![c].pc = "answered"]
  /\ UNCHANGED <<base, current, queryVars, moves, apps>>

\* db_info: the rows counted or estimated and the size, both left out where they
\* cannot be told.
RunInfo(c) ==
  /\ ask[c].pc = "info" /\ ask' = [ask EXCEPT ![c].pc = "answered"]
  /\ UNCHANGED <<base, current, queryVars, moves, apps>>

\* What is printed is the page, then the rows are counted; an agent is told at once
\* of a page with none.
RunPage(c) ==
  /\ ask[c].pc = "page"
  /\ \E store \in Opened(ask[c].on) :
       LET there == store # "nothing" /\ base[store] # Missing
           page == IF there THEN Parsed(Lines(store, Slice(base[store], ask[c].offset, Limit)))
                   ELSE Parsed(Failure)
           read == [ask[c] EXCEPT !.page = page, !.blind = ~there \/ store # ask[c].on, !.pc = "answered"]
           done == current \in {"none", Layer} \/ (page = <<>> /\ ask[c].kind = "db_rows")
       IN ask' = [ask EXCEPT ![c] = IF done THEN read
                                    ELSE [read EXCEPT !.pc = "count", !.on = current]]
  /\ UNCHANGED <<base, current, queryVars, moves, apps>>

\* The rows, or none where they cannot be counted.
RunCount(c) ==
  /\ ask[c].pc = "count"
  /\ \E store \in Opened(ask[c].on) :
       ask' = [ask EXCEPT ![c].pc = "answered",
                 ![c].blind = @ \/ store # ask[c].on,
                 ![c].total = IF store = "nothing" \/ base[store] = Missing THEN 0 ELSE Len(base[store])]
  /\ UNCHANGED <<base, current, queryVars, moves, apps>>

\* Mutant: the session is not read-only.
MayWrite_Always(q, store) == TRUE

\* A mount to read from, or default_transaction_read_only: a default, so that a script
\* may begin a transaction that writes.
MayWrite(q, store) == q.write \/ (store = Postgres /\ q.kind = "script")

\* A statement runs.  Whether an insertion worked is told by "error" in what it
\* prints; a file that is gone prints none.
RunStatement(c) ==
  /\ ask[c].pc = "statement"
  /\ \E store \in Opened(ask[c].on) :
       LET q == ask[c]
           there == store # "nothing" /\ base[store] # Missing
           works == q.kind # "read" /\ there /\ MayWrite(q, store)
           failed == store # "nothing" /\ ~works
       IN /\ works => Len(base[store]) < MaxRows
          /\ base' = IF works THEN [base EXCEPT ![store] = Append(@, q.cell)] ELSE base
          /\ ask' = [ask EXCEPT ![c].wrote = works, ![c].blind = store = "nothing",
                                ![c].pc = IF q.kind = "insert" /\ failed THEN "refused" ELSE "answered"]
          /\ sent' = IF store = "nothing" THEN sent ELSE sent \cup ({by[c]} \ {"-"})
  /\ UNCHANGED <<current, saved, by, moves, apps>>

\* The helper container cannot be run: the request fails, but for a count.
HelperFails(c) ==
  /\ ask[c].pc \in {"names", "info", "page", "statement", "count"}
  /\ ask' = [ask EXCEPT ![c] = IF @.pc \in {"count", "info"} THEN [@ EXCEPT !.pc = "answered"] ELSE Unused]
  /\ UNCHANGED <<base, current, queryVars, moves, apps>>

-----------------------------------------------------------------------------
(* Saved queries *)

\* Mutant: saving over a query makes it anew.
Kept_Anew(name) == [n \in DOMAIN saved \cup {name} |-> n # name /\ saved[n]]

\* Saving over a query keeps when it was run.
Kept(name) == [n \in DOMAIN saved \cup {name} |-> n \in DOMAIN saved /\ saved[n]]

Save(name) ==
  /\ saved' = Kept(name)
  /\ UNCHANGED <<base, current, ask, by, sent, moves, apps>>

Forget(name) ==
  /\ name \in DOMAIN saved
  /\ saved' = [n \in DOMAIN saved \ {name} |-> saved[n]] /\ sent' = sent \ {name}
  /\ by' = [c \in Clients |-> IF by[c] = name THEN "-" ELSE by[c]]
  /\ UNCHANGED <<base, current, ask, moves, apps>>

-----------------------------------------------------------------------------
(* The app, its data, its database *)

\* The app writes a row, removes its oldest, drops the table or makes it anew.
AppWorks(store) ==
  /\ apps < MaxApp /\ apps' = apps + 1
  /\ \/ base[store] # Missing /\ Len(base[store]) < MaxRows
        /\ \E cell \in Cells : base' = [base EXCEPT ![store] = Append(@, cell)]
     \/ base[store] \notin {Missing, <<>>} /\ base' = [base EXCEPT ![store] = Tail(@)]
     \/ base' = [base EXCEPT ![store] = IF @ = Missing THEN <<>> ELSE Missing]
  /\ UNCHANGED <<current, ask, queryVars, moves>>

\* detect_sqlite: a file of the volumes before one in the container's own layer.
Detected == LET mounted == {f \in Mounted : base[f] # Missing}
            IN IF mounted # {} THEN mounted ELSE {f \in {Layer} : base[f] # Missing}

Detect ==
  /\ current = "none" /\ moves < MaxMoves /\ moves' = moves + 1
  /\ current' \in Detected
  /\ UNCHANGED <<base, ask, queryVars, apps>>

\* A Postgres is created for the project, or dropped.
Managed ==
  /\ moves < MaxMoves /\ moves' = moves + 1
  /\ \/ current = "none" /\ current' = Postgres /\ base' = [base EXCEPT ![Postgres] = <<>>]
     \/ current = Postgres /\ current' = "none" /\ base' = [base EXCEPT ![Postgres] = Missing]
  /\ UNCHANGED <<ask, queryVars, apps>>

\* What the table of the project's database is, and of the one a statement is for.
Mine(c) == {base[store] : store \in {current, ask[c].on} \ {"none"}}

ConsoleInit ==
  /\ current \in {"none", Postgres} \cup Mounted \cup {Layer}
  /\ base \in [Stores -> {Missing, <<"word">>}]
  /\ current # "none" => base[current] # Missing
  /\ current # Postgres => base[Postgres] = Missing
  /\ ask = [c \in Clients |-> Unused] /\ saved = [n \in {} |-> FALSE] /\ seen = [c \in Clients |-> {}]
  /\ by = [c \in Clients |-> "-"] /\ sent = {} /\ moves = 0 /\ apps = 0

Steps ==
  \/ \E c \in Clients :
       \/ \E kind \in Requested, write \in BOOLEAN, offset \in 0 .. 1, cell \in {"word", "error"},
             name \in SavedNames \cup {"-"} : Asked(c, kind, write, offset, cell, name)
       \/ RunNames(c) \/ RunTables(c) \/ RunInfo(c) \/ RunPage(c) \/ RunCount(c) \/ RunStatement(c) \/ HelperFails(c) \/ Answered(c)
  \/ \E name \in SavedNames : Forget(name) \/ Save(name)
  \/ \E store \in Stores : AppWorks(store)
  \/ Detect \/ Managed

ConsoleNext ==
  /\ Steps
  /\ seen' = [c \in Clients |-> IF ask'[c].kind \notin Browsing THEN {}
                                ELSE IF ask[c].pc = "answered" THEN seen[c] ELSE seen[c] \cup Mine(c)']

ConsoleSpec == ConsoleInit /\ [][ConsoleNext]_consoleVars

-----------------------------------------------------------------------------
(* Properties *)

\* Rows of which each prints a line of its own, with the one cell.
Plain(rows) == \A i \in DOMAIN rows : rows[i] \notin {"blank", "bar", "torn"}

\* What a page shows the project's table held, row by row, at one moment since the
\* request came, and had as many rows as are told at one, whatever the app, others'
\* requests and a new database do in between; unless the table was gone when it was
\* read, a cell looks like a blank or a footer or has a bar or a newline in it, or two
\* files have one name. A total of 0 may also be one that could not be counted. A page
\* is never longer than was asked.
PageOfTheTable(c) ==
  ask[c].kind \in Browsing /\ ask[c].pc = "answered" =>
    /\ Len(ask[c].page) <= Limit
    /\ ~ask[c].blind =>
         /\ \E rows \in seen[c] : /\ rows # Missing
                                  /\ Plain(rows) => ask[c].page = Slice(rows, ask[c].offset, Limit)
         /\ ask[c].total # 0 => \E rows \in seen[c] : rows # Missing /\ ask[c].total = Len(rows)

\* An insertion is answered as done exactly when it was, unless the file had gone.
InsertsAreTold(c) ==
  ask[c].kind = "insert" /\ ~ask[c].blind =>
    /\ ask[c].pc = "answered" => ask[c].wrote
    /\ ask[c].pc = "refused" => ~ask[c].wrote

\* Without write mode no statement writes, whatever its first word; nor does a script,
\* except one for a Postgres that begins a transaction to write in itself.
WritesAreAsked(c) ==
  ask[c].wrote => ask[c].write \/ (ask[c].kind = "script" /\ ask[c].on = Postgres)

\* A saved query that a database has run has its run marked, whatever is saved over
\* it; not when it was deleted between the request and the run.
RunsAreMarked == \A n \in sent : n \in DOMAIN saved /\ saved[n]

\* What people and agents are told of a project's data (table_rows, table_insert,
\* database_query and db_rows).
ConsoleIsTrue ==
  /\ RunsAreMarked
  /\ \A c \in Clients : PageOfTheTable(c) /\ InsertsAreTold(c) /\ WritesAreAsked(c)
=============================================================================
