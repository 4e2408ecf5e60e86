------------------------------ MODULE Backups ------------------------------
(***************************************************************************)
(* The dumps of one project's Postgres (src/src/backups.rs; the helper     *)
(* containers of src/src/db.rs; the backup handlers of src/src/server.rs;  *)
(* db_query and db_backup in src/src/mcp.rs).                              *)
(*                                                                         *)
(* A dump is a file of the volume webo-backups, named after the second it  *)
(* was begun in.  It is made by a shell script in a container of its own,  *)
(* which goes on when the request that started it hangs up or webo         *)
(* restarts: helpers are processes beside the tasks that wait for them.    *)
(***************************************************************************)
EXTENDS Naturals, FiniteSets

CONSTANTS
  Requests,    \* slots for requests in flight
  Daily,       \* the daily pass
  NoOne,       \* owner of a helper nobody waits for any more
  Rows,        \* the rows that come and go in the project's database
  May,         \* bound: the operations each slot runs
  Keep,        \* KEEP_PER_PROJECT
  Day,         \* 24 hours
  MaxTime,     \* bound on the clock
  Faults,      \* "cut", "disk", "docker", "hangup", "restart"
  MaxFaults    \* bound: faults in a behaviour

ASSUME Naming == Daily \notin Requests /\ NoOne \notin Requests \cup {Daily}
ASSUME Numbers == Keep \in Nat \ {0} /\ Day \in Nat \ {0} /\ MaxTime \in Nat /\ MaxFaults \in Nat

VARIABLES
  clock,
  table,       \* the rows in the project's database
  files,       \* the dumps on the volume, by name
  parts,       \* the names whose .part is on the volume
  helpers,     \* pg_dump containers that run
  restores,    \* restore containers that have found their file
  task,        \* the requests in flight and the daily pass
  since,       \* history: what the database held since a statement came
  made,        \* history: the dumps finished
  spoilt,      \* history: the names of dumps cut short or begun twice
  faults       \* history: how many faults

vars == <<clock, table, files, parts, helpers, restores, task, since, made, spoilt, faults>>

\* What db_query is asked with write: something that says that it changes data,
\* a query, and a change behind a query's first word ("with ... update",
\* "select 1; delete ...").
Statements == {"change", "query", "change in a query"}

\* is_write_statement: not select, with, explain or show as the first word.
SaysItChanges(statement) == statement = "change"

Tasks == Requests \cup {Daily}
Names == 0 .. MaxTime
Dumps == [rows : SUBSET Rows, whole : BOOLEAN, at : Names]
Took == [name : Names, rows : SUBSET Rows, whole : BOOLEAN]
Nothing == [name |-> 0, rows |-> {}, whole |-> FALSE]
Helpers == [owner : Tasks \cup {NoOne}, name : Names, rows : SUBSET Rows, shared : BOOLEAN]
Doing(op, pc) == [op |-> op, pc |-> pc, old |-> {}, took |-> Nothing, asked |-> "nothing"]
Idle == Doing("idle", "idle")
Steps == {"idle", "wait", "list", "remove", "run", "restore"}
States == [op : {"idle", "daily", "create", "query", "restore"}, pc : Steps,
           old : SUBSET Names, took : Took, asked : Statements \cup {"nothing"}]

Put(f, n, v) == [m \in DOMAIN f \cup {n} |-> IF m = n THEN v ELSE f[m]]
Without(f, n) == [m \in DOMAIN f \ {n} |-> f[m]]

-----------------------------------------------------------------------------
(* Tasks *)

Fault(kind) == kind \in Faults /\ faults < MaxFaults /\ faults' = faults + 1

\* A task that ends forgets; so does the history kept for it.
Ends(t) == task' = [task EXCEPT ![t] = Idle] /\ since' = [since EXCEPT ![t] = {}]

\* What the statements that are on their way have seen the database hold.
Seen(rows, but) ==
  [t \in Tasks |-> IF task[t].op = "query" /\ t # but THEN since[t] \cup {rows} ELSE {}]

-----------------------------------------------------------------------------
(* dump: mkdir, pg_dump | gzip > name.part && mv, in a helper *)

Clash == {h \in helpers : h.name = clock}

\* Mutant: the helper writes under the final name from the start.
Opens_InPlace(t) ==
  /\ helpers' = helpers \cup {[owner |-> t, name |-> clock, rows |-> table, shared |-> FALSE]}
  /\ parts' = parts \cup {clock}
  /\ files' = Put(files, clock, [rows |-> table, whole |-> FALSE, at |-> clock])
  /\ UNCHANGED spoilt

\* pg_dump sees the database as it is when it begins.  A second dump within
\* the second opens, and truncates, the .part the first is writing.
Opens(t) ==
  /\ helpers' = (helpers \ Clash) \cup {[h EXCEPT !.shared = TRUE] : h \in Clash}
                  \cup {[owner |-> t, name |-> clock, rows |-> table, shared |-> Clash # {}]}
  /\ parts' = parts \cup {clock}
  /\ spoilt' = IF Clash = {} THEN spoilt ELSE spoilt \cup {clock}
  /\ UNCHANGED files

StartsDump(t, op, asked) ==
  /\ task[t] = Idle /\ op \in May[t]
  /\ task' = [task EXCEPT ![t] = [Doing(op, "wait") EXCEPT !.asked = asked]]
  /\ Opens(t)

\* Mutant: a statement runs whatever became of its dump.
NextStep_Regardless(op, ok) ==
  IF op = "query" THEN "run" ELSE IF op = "daily" \/ ok THEN "list" ELSE "idle"

\* Mutant: the daily pass returns on the first error.
NextStep_Stops(op, ok) ==
  IF op = "daily" /\ ~ok THEN "stopped"
  ELSE IF ~ok THEN "idle" ELSE IF op = "query" THEN "run" ELSE "list"

\* What follows the answer: the daily pass drops it, a request ends on an error.
NextStep(op, ok) ==
  IF op = "daily" THEN "list" ELSE IF ~ok THEN "idle" ELSE IF op = "query" THEN "run" ELSE "list"

Answered(t, ok, took) ==
  LET next == NextStep(task[t].op, ok)
  IN IF next = "idle" THEN Ends(t)
     ELSE /\ task' = [task EXCEPT ![t] = [Doing(task[t].op, next) EXCEPT
                          !.took = IF next = "run" THEN took ELSE Nothing, !.asked = task[t].asked]]
          /\ UNCHANGED since

Reports(h, ok, whole) ==
  IF h.owner = NoOne THEN UNCHANGED <<task, since>>
  ELSE Answered(h.owner, ok, [name |-> h.name, rows |-> h.rows, whole |-> whole])

\* The pipe ends with gzip's success, whatever pg_dump did; mv finds the .part
\* unless a dump of the same second has moved it.
DumpEnds(h, cut) ==
  LET whole == ~h.shared /\ ~cut
  IN /\ h \in helpers /\ helpers' = helpers \ {h}
     /\ IF cut THEN Fault("cut") ELSE UNCHANGED faults
     /\ IF h.name \in parts
          THEN /\ files' = Put(files, h.name, [rows |-> h.rows, whole |-> whole, at |-> clock])
               /\ parts' = parts \ {h.name} /\ made' = made \cup {h.name}
               /\ spoilt' = IF cut THEN spoilt \cup {h.name} ELSE spoilt
          ELSE UNCHANGED <<files, parts, made, spoilt>>
     /\ Reports(h, h.name \in parts, whole)
     /\ UNCHANGED <<clock, table, restores>>

\* gzip cannot write: no mv, and the .part stays for ever.
DiskFull(h) ==
  /\ h \in helpers /\ Fault("disk") /\ helpers' = helpers \ {h}
  /\ Reports(h, FALSE, FALSE)
  /\ UNCHANGED <<clock, table, files, parts, restores, made, spoilt>>

-----------------------------------------------------------------------------
(* Who asks for dumps *)

Newest == {n \in DOMAIN files : \A m \in DOMAIN files : n >= m}
Fresh == \E n \in Newest : clock - files[n].at < Day

\* run: a dump when the newest is a day old.
DailyPass ==
  /\ ~Fresh /\ StartsDump(Daily, "daily", "nothing")
  /\ UNCHANGED <<clock, table, restores, since, made, faults>>

\* backup_now, and db_backup with action: "create"
Create(t) ==
  /\ StartsDump(t, "create", "nothing")
  /\ UNCHANGED <<clock, table, restores, since, made, faults>>

\* Mutant: today's dump will do.
Query_Reuses(t, statement) ==
  IF Fresh
    THEN /\ task[t] = Idle /\ "query" \in May[t]
         /\ \E n \in Newest :
              task' = [task EXCEPT ![t] = [Doing("query", "run") EXCEPT !.asked = statement,
                           !.took = [name |-> n, rows |-> files[n].rows, whole |-> files[n].whole]]]
         /\ since' = [since EXCEPT ![t] = {table}]
         /\ UNCHANGED <<clock, table, files, parts, helpers, restores, made, spoilt, faults>>
    ELSE /\ StartsDump(t, "query", statement)
         /\ since' = [since EXCEPT ![t] = {table}]
         /\ UNCHANGED <<clock, table, restores, made, faults>>

\* db_query with write: a dump is taken of what says that it changes data.
Query(t, statement) ==
  /\ IF SaysItChanges(statement)
       THEN StartsDump(t, "query", statement)
       ELSE /\ task[t] = Idle /\ "query" \in May[t]
            /\ task' = [task EXCEPT ![t] = [Doing("query", "run") EXCEPT !.asked = statement]]
            /\ UNCHANGED <<files, parts, helpers, spoilt>>
  /\ since' = [since EXCEPT ![t] = {table}]
  /\ UNCHANGED <<clock, table, restores, made, faults>>

\* Docker refuses the helper: the pass goes on to prune.  A request just ends.
DailyRefused ==
  /\ ~Fresh /\ task[Daily] = Idle /\ Fault("docker")
  /\ task' = [task EXCEPT ![Daily] = Doing("daily", "list")]
  /\ UNCHANGED <<clock, table, files, parts, helpers, restores, since, made, spoilt>>

\* run_sql: the statement does what it does, or the database refuses it.
RunStatement(t, rows) ==
  /\ task[t].pc = "run" /\ table' = rows
  /\ task[t].asked = "query" => rows = table
  /\ task' = [task EXCEPT ![t] = Idle]
  /\ since' = Seen(rows, t)
  /\ UNCHANGED <<clock, files, parts, helpers, restores, made, spoilt, faults>>

\* The app and the panel's console, which take no dump.
Elsewhere(rows) ==
  /\ rows # table /\ table' = rows /\ since' = Seen(rows, NoOne)
  /\ UNCHANGED <<clock, files, parts, helpers, restores, task, made, spoilt, faults>>

-----------------------------------------------------------------------------
(* prune: list, then remove one by one *)

Newer(n, names) == {m \in names : m > n}

\* Mutant: keeps from the other end of the list.
Beyond_Oldest(names) == {n \in names : Cardinality({m \in names : m < n}) >= Keep}

\* list(..).skip(keep)
Beyond(names) == {n \in names : Cardinality(Newer(n, names)) >= Keep}

Prunes(t, old) ==
  IF old = {} THEN Ends(t)
  ELSE task' = [task EXCEPT ![t] = [Doing(task[t].op, "remove") EXCEPT !.old = old]] /\ UNCHANGED since

List(t) ==
  /\ task[t].pc = "list" /\ Prunes(t, Beyond(DOMAIN files))
  /\ UNCHANGED <<clock, table, files, parts, helpers, restores, made, spoilt, faults>>

Remove(t, n) ==
  /\ task[t].pc = "remove" /\ n \in task[t].old /\ Prunes(t, task[t].old \ {n})
  /\ files' = Without(files, n)
  /\ UNCHANGED <<clock, table, parts, helpers, restores, made, spoilt, faults>>

-----------------------------------------------------------------------------
(* restore: [ -f name ], then gunzip | psql, in a helper *)

Restore(t, n) ==
  /\ task[t] = Idle /\ "restore" \in May[t] /\ n \in DOMAIN files
  /\ task' = [task EXCEPT ![t] = Doing("restore", "restore")]
  /\ restores' = restores \cup {[owner |-> t, name |-> n]}
  /\ UNCHANGED <<clock, table, files, parts, helpers, since, made, spoilt, faults>>

\* A plain dump drops nothing: its COPY fails on the first row that is there
\* already, and ON_ERROR_STOP=0 goes on.
Loaded(rows) == IF rows \cap table = {} THEN table \cup rows ELSE table

\* A dump that is not whole loads some of its rows; one pruned meanwhile none.
RestoreEnds(r, rows) ==
  /\ r \in restores /\ restores' = restores \ {r}
  /\ rows \subseteq (IF r.name \in DOMAIN files THEN files[r.name].rows ELSE {})
  /\ r.name \in DOMAIN files /\ files[r.name].whole => rows = files[r.name].rows
  /\ table' = Loaded(rows)
  /\ task' = IF r.owner = NoOne THEN task ELSE [task EXCEPT ![r.owner] = Idle]
  /\ since' = Seen(Loaded(rows), NoOne)
  /\ UNCHANGED <<clock, files, parts, helpers, made, spoilt, faults>>

-----------------------------------------------------------------------------
(* Time, clients that hang up, restarts *)

Tick ==
  /\ clock < MaxTime /\ clock' = clock + 1
  /\ UNCHANGED <<table, files, parts, helpers, restores, task, since, made, spoilt, faults>>

Orphaned(set, gone) == {[h EXCEPT !.owner = IF @ \in gone THEN NoOne ELSE @] : h \in set}

Gone(gone) ==
  /\ task' = [t \in Tasks |-> IF t \in gone THEN Idle ELSE task[t]]
  /\ since' = [t \in Tasks |-> IF t \in gone THEN {} ELSE since[t]]
  /\ helpers' = Orphaned(helpers, gone) /\ restores' = Orphaned(restores, gone)
  /\ UNCHANGED <<clock, table, files, parts, made, spoilt>>

HangUp(t) == Fault("hangup") /\ task[t] # Idle /\ Gone({t})

Restart == Fault("restart") /\ Gone(Tasks)

-----------------------------------------------------------------------------
Init ==
  /\ clock = 0 /\ table \in SUBSET Rows
  /\ files = [n \in {} |-> {}] /\ parts = {} /\ helpers = {} /\ restores = {}
  /\ task = [t \in Tasks |-> Idle] /\ since = [t \in Tasks |-> {}]
  /\ made = {} /\ spoilt = {} /\ faults = 0

Next ==
  \/ DailyPass \/ DailyRefused
  \/ \E t \in Requests :
       \/ Create(t) \/ HangUp(t)
       \/ \E s \in Statements : Query(t, s)
       \/ \E rows \in SUBSET Rows : RunStatement(t, rows)
       \/ \E n \in Names : Restore(t, n)
  \/ \E t \in Tasks : List(t) \/ \E n \in Names : Remove(t, n)
  \/ \E h \in helpers : DiskFull(h) \/ \E cut \in BOOLEAN : DumpEnds(h, cut)
  \/ \E r \in restores, rows \in SUBSET Rows : RestoreEnds(r, rows)
  \/ \E rows \in SUBSET Rows : Elsewhere(rows)
  \/ Tick \/ Restart

Spec == Init /\ [][Next]_vars

\* The daily pass is a task that never returns, and a helper it waits for ends.
\* Each of its steps moves the task on.
DailyStep ==
  \/ DailyPass \/ \E h \in helpers : h.owner = Daily /\ DumpEnds(h, FALSE)
  \/ List(Daily) \/ \E n \in Names : Remove(Daily, n)

FairSpec == Spec /\ WF_task(DailyStep)

-----------------------------------------------------------------------------
(* Properties *)

\* Types: what each variable may hold.
TypeOK ==
  /\ clock \in Names /\ table \in SUBSET Rows
  /\ DOMAIN files \subseteq Names /\ \A n \in DOMAIN files : files[n] \in Dumps
  /\ parts \subseteq Names /\ helpers \subseteq Helpers
  /\ restores \subseteq [owner : Tasks \cup {NoOne}, name : Names]
  /\ task \in [Tasks -> States]
  /\ since \in [Tasks -> SUBSET SUBSET Rows]
  /\ made \subseteq Names /\ spoilt \subseteq Names /\ faults \in 0 .. MaxFaults

HasItsDump(t) ==
  /\ task[t].took.name \in made /\ task[t].took.rows \in since[t]
  /\ task[t].took.whole \/ task[t].took.name \in spoilt

\* A statement that is let through has a dump of its own, of what the database
\* held at a moment since the statement came, finished under the name its
\* answer gives; and the dump is whole unless pg_dump ended early or a second
\* dump began within the same second.  One that runs without begins with a
\* query's word, whatever else it does.
WriteHasItsDump ==
  \A t \in Requests : task[t].pc = "run" => HasItsDump(t) \/ ~SaysItChanges(task[t].asked)

\* As the documentation of db_query has it: a write is only reversible if a
\* dump exists from before it, and write: true takes one first.
AWriteTakesABackupFirst ==
  \A t \in Requests : task[t].pc = "run" /\ task[t].asked # "query" => HasItsDump(t)

\* No dump is listed, to be downloaded, restored or counted as today's, before
\* it is complete, whoever hung up or restarted while it was made.
ListedAreWhole == \A n \in DOMAIN files : files[n].whole \/ n \in spoilt

\* The Keep newest dumps ever finished are on the volume, although prunes work
\* by lists that are out of date and at the same time as each other.
NewestAreKept == \A n \in made : Cardinality(Newer(n, made)) < Keep => n \in DOMAIN files

\* Again and again the newest dump is less than a day old.
DailyDump == []<>Fresh

=============================================================================
