# webo in TLA+

webo is one Rust process that runs a homelab's deploys: it discovers the
projects running in docker, provisions repositories (scaffold, secrets, commit,
watch the first deploy), gives projects hostnames on a Cloudflare tunnel, runs
their Postgres and `.env`, indexes their logs, groups their errors into issues,
and hands out personal tokens through browser authorization. Its state is one
SQLite file behind one mutex (`Store`), some memory, and what it has changed in
docker, at GitHub and at Cloudflare.

These modules model the parts of it where something can go wrong that a unit
test would hardly reach. Paths and line numbers are those of the repository as
it sits under `src/`, so the Rust sources are `src/src/*.rs`.

## The system

Every store call locks the connection and is atomic. Nothing larger is: no
handler holds a lock over two store calls, none over a call to docker, GitHub
or Cloudflare, and most results are dropped with `let _ =`. So nearly every
hazard has the same form: a handler or a timer task reads something, waits, and
writes by what it read, while others do the same, the client hangs up (axum
drops the handler at its next await) or the process restarts.

| component | state | operations | interacts with |
|---|---|---|---|
| device authorization and tokens (`server.rs` device_*, `store.rs`, `auth.rs`) | `device_codes`, `api_tokens`, the environment's login and allowlist | start, approve, poll (three store calls), revoke, prune | the gate of every other handler |
| project lifecycle (`server.rs` do_create_project, do_provision, do_delete_project; `projects.rs`; `github.rs`) | `projects`, `builds`, `versions`, `logs` | register, discover, sync, provision, watch the first deploy, delete | every task reads `projects` and writes by slug or id |
| domains and the tunnel (`server.rs` 576-720, `cloudflare.rs`) | `auto_domain`, `custom_domain`; Cloudflare's records and ingress rules | reserve, connect, disconnect, release, sync the routes | called by provisioning and deletion |
| managed databases and variables (`server.rs` 730-830 and 1470-1540, `db.rs`) | `databases`, `env_vars`; docker's container and volume; the app's `.env` | create, provision, drop, detect, set, delete, write the file | provisioning calls it before the commit |
| log collection and index (`logs.rs`, `store.rs`) | `logs`; docker's log of each container | a pass every ten seconds: list, read from the cursor, index, record errors, prune | feeds error tracking |
| error tracking (`store.rs`, `server.rs` issues_*, ingest) | `issues`, `error_events` | record, resolve, ignore, reopen, delete, migrate at start | the collector and the apps' pages write, people judge |
| backups (`backups.rs`, `mcp.rs` db_query) | dumps on a volume | daily pass, dump before a write, restore, prune | reads `databases` |
| GitHub commit, secrets and scaffold (`github.rs`, `scaffold.rs`, `server.rs`) | GitHub's branch, secrets and runs; `projects.status` | scan, scaffold, set secrets, one commit through five API calls, watch its run | provisioning |
| sessions (`auth.rs`) | caches of Clerk's keys and of people | verify, list the team | the gate |
| host metrics (`collector.rs`, `metrics.rs`, `projects.rs`, `persist.rs`) | rings of samples, the process list, `samples` | sample, list containers, average every five minutes, prune, scan `/proc` | the panel and the agent's readers |
| SQL console (`server.rs`, `db.rs`, `store.rs`) | `saved_queries`; the project's database | browse, insert, run, save a query, find a SQLite file | reads `databases` |
| MCP tools (`mcp.rs`) | webo's own log | route a call, check its confirmation, work, audit | all of the above |
| searches and lists (`server.rs`, `mcp.rs`, `store.rs`) | none of their own | search the log index, list and open issues, decide on them | `logs`, `issues` |
| error text (`errors.rs`) | none | level, title and fingerprint of a line or report | the collector, ingest, searches |
| start-up, onboarding, formatting, the web page | none | | |

What makes each correct, in the order of the modules below: a code is exchanged
once, for its approver, in time; the tracker respects people's verdicts and the
index neither loses nor repeats lines; row, container, variable and file tell
one story; a hostname stays its project's and leads to it; what a task writes
late reaches the project it was meant for; a write has its dump; a deploy loses
no push and finds its secrets; whoever is let in or refused was known or unknown
to Clerk lately; and what is shown of samples, processes, lines, issues and
tables is what there was, up to limits that are said.

## Modules

Each component module keeps one action per handler step, a step being what
happens between two awaits or store calls. Requests in flight sit in *slots*
with a program counter and what the handler read; a restart empties them and
keeps the tables. History variables (marked as such) are read by properties and
by bounds, never by the model's own decisions about tables. A definition
`Op_Variant` before `Op` is the definition with a plausible mistake in it,
which breaks a named property.

**DeviceFlow**, with **Handover** as its abstract specification. `row` and
`holder` are the two tables, `poll` the polls in flight, each split at its three
store calls (status, insert, mark). Approval, freshness, the prune that opens
every `device_start`, the allowlist and the gate are translated; sessions are
people. Handover is what the docs promise: opened, granted once, exchanged once
in one step. `Promise` maps a code to spent from the insertion of its token.

**IssueTracker**, composed by **LogCollector** (EXTENDS: the collector, the
apps' pages and people act on the tracker's variables through its operators).
The tracker's row ids behave as SQLite's: the highest plus one, so the id of the
newest issue comes back after its deletion. The collector's pass is a program
counter over the containers listed; `kept` is the index as a bag of lines per
container; a line is its second and its text. `NewerThan`, `Continues` and
`Heads` translate the reading of the cursor's second and the folding of a burst.

**AppDatabase**. The truth about one project's database in five places: row,
variable, container, volume, `.env`. Create, provision, drop, set, delete and
detect run call by call in request slots, any number of each at once. `causes`
records where two of them crossed (`raced`: a container removed by name, or a row
stored or forgotten, that was no longer the one meant) or one was left half done.

**Domains**. Rows' two hosts, the zone's records and the tunnel's rules as a
sequence; requests reserve, connect, disconnect and delete call by call, and
`sync_routes` is read table, read rules, write all rules. Users connect any
host, automatic ones included (`asked` remembers which). Outsiders move records
and add rules.

**Projects**. The row of a project from registration or discovery to deletion,
with everybody who holds one: the GitHub sync, the log collector, the watcher of
a first deploy, provisioning and deletion. Rows are numbered in the order of
their insertion, which the program does not do, to tell a row from a later one
with its slug or id: SQLite gives the id of the newest project out again when it
is deleted, and then a task that read the old row writes to the new (`strays`, `late`).

**Backups**. One project's dumps: the volume (`files`, and the `parts` not yet
renamed), the database's rows, and the helper containers as processes of their
own, which end whether or not anyone still waits for them; `owner` is who does.
A dump sees the rows as they are when it begins, and a `.part` that two dumps of
one second write is `shared`. The daily pass and requests in slots dump, run
statements, prune one file at a time by the list they read, and restore. A
statement may hide its change behind a query's first word. A
restore loads a plain dump: where a row is in the way, nothing (`Loaded`).

**FirstDeploy**. One repository from the scan of a first deploy to the end of
its watcher: `commits` is the graph of commits with their trees, `head` the
branch, `secrets`, `queued` and `runs` what GitHub Actions has. Two requests, each
with the watcher it leaves, do the scan, the secrets, the five calls of
`commit_files` and the polls one by one while users push and workflows start;
calls fail, answers are lost, clients hang up, webo restarts. `Detect` and
`Planned` are the scaffold: which template, which files on top of which tree.

**Metrics**. Three timers (sampler, container listing, averages), each served up
to `MaxLate` late; a sample is its second and an average the set of samples it
averages, so what is on a chart can be compared with what was sampled. **Processes**
is the scan of `/proc`, one process at a time, beside a kernel that forks, runs,
ends and reuses pids: CPU by difference, and groups by chains of parents.

**LogSearch**. Every search of panel and agent over an index of a few lines, as
one statement with a limit and what the caller filters, counts and cuts
afterwards. **ErrorText** has the operators of `errors.rs`, over lines of words,
among them words that end in a tag (`TypeError:`), at which titles are cut;
LogSearch takes levels from it, and **Grouping** files lines and browsers' reports
under issues by it. **IssueReading** is the reader's side of the tracker: a list
and its totals, an issue and its occurrences, and decisions on what was read,
with issues that come, recur and go between any two statements.

**Sessions**. Requests verify a token's key and its person against two caches
whose locks are not held while Clerk is asked; Clerk's keys rotate and its people
come and go while answers are on their way. A list of people is a page of the newest
(`PeopleLimit`, a hundred in the code), and keys that do not parse are dropped. **Agent** is one call of a tool from its
routing to its line in webo's log and its answer: what each tool asks to be
confirmed, what it changes step by step, what it takes away, the dumps that a prune
deletes included, and which of a call's secrets the line shows; with failing steps,
hang-ups, a panic, restarts and people at the panel. **Console** is the project's
database under browsing, insertions, statements and saved queries, each statement
in a helper of its own some time after it was decided on, while the app changes
its rows and the project changes its database.

**Lists** has the filter that `retain` and `filter` are (`Only`) and the elements
at some positions of a list in their order (`Picked`): the folded errors of a
batch, the tunnel's rules of others, a table's rows.

The `*_proofs` modules hold the theorems (Access_proofs those of DeviceFlow,
Sessions, Agent and Console, LogCollector_proofs those of IssueTracker and
IssueReading too, Host_proofs those of AppDatabase, Processes, LogSearch, Metrics and Grouping,
Lists_proofs the lemmas about lists, sums and counts that several of them need);
the `MC*` modules and `.cfg` files the instances. Three instances are sums: **MCHost** (Metrics, Processes,
LogSearch, Grouping, IssueReading, AppDatabase), **MCAccess** (Sessions, Agent, Console)
and **MCFirstDeploy** (FirstDeploy, and DeviceFlow with one poll and no fault)
choose in their initial state whose behaviour it is, and leave the variables of
the others where they begin. Their components share no state, so checking them
beside each other would only multiply states, not add behaviours.

A run's property may be the conjunction of several named ones that hold of one
thing: `GrantsAreSound`, `IssuesAreTheirOwn`, `IndexMirrorsTheLog`,
`AutoHostIsItsOwn`, `RoutesAreWhole`, `ShowsItsOwn`, `DatabaseIsReached`,
`ChartsAreWhole`, `DecisionsAreFounded`, `IssuesAreShown`, `IssuesAreBugs`,
`ConsoleIsTrue`.

## Runs

| run | configuration | shows |
|---|---|---|
| `device_flow` | 2 codes, 2 tokens, 2 people, 2 polls; restarts, failing writes | every token leads back to one timely approval by a session; a spent code stays spent |
| `device_flow_twice` | 2 polls, no faults | **violated**: two polls in flight are both answered with a token |
| `logs` | 2 containers, 3 lines, each fault once | nothing before the cursor is skipped, no line is indexed twice, index and issue counts agree |
| `logs_triage` | 1 container, 2 lines, one page report, verdicts, deletions, restart, fair | verdicts stand, ids stay apart, issues summarise their own occurrences, everything is indexed in the end |
| `domains` | 2 projects, 2 drawn hosts, those and one more asked for, 2 requests at a time of 3, one fault | automatic hosts are unique, permanent and, unless asked for as custom, backed by a record; routes serve all hosts; foreign rules stay |
| `domains_custom` | the same, no fault | **violated**: an automatic host connected as a custom domain loses its record when that is disconnected |
| `projects` | 2 slugs, 2 repositories, 2 requests, 1 watcher, 3 rows ever, restarts and hang-ups | links of users stand; builds and lines reach their project, or one that got the id of theirs; a deploy has its watcher |
| `backups` | 1 row, 1 dump kept, one request at a time besides the daily pass and what was left running, two faults; fair | a statement that says it changes data has a dump of its own, of the time since it came; only finished dumps are listed; the newest are kept; the daily dump comes again and again |
| `backups_with` | the same, no fault | **violated**: a change behind a query's first word runs without a dump |
| `first_deploy` | 2 deploys of one repository of three kinds, 3 commits, 2 polls, one fault; or 2 codes, 1 poll at a time, no fault; fair | no push is lost; the scaffold fits the tree it is put on; a run finds the secrets the deploy tells of; answers are true; a deploying status ends; the device flow refines Handover, and an approved code that is polled is delivered |
| `host` | charts over 10 seconds with a late timer and a restart; 3 pids, 3 events, 2 scans; 3 lines, a scan of 2; 13 bugs in every form of line, two at a time; 3 errors, lists of 2; a database, 2 requests at a time of 5, 2 passwords, one fault | charts are whole and points stand; CPU and groups are right; searches find what there is up to their limit; a bug has one issue and an issue one bug, but where a class is cut off; a decision falls to what was shown; row, container, variable and file agree but for named causes |
| `access` | 2 requests, 1 key, 2 people on pages of 1, caches of 1 tick; 2 calls, one fault, one change at the panel; 2 files and a Postgres, pages of 1 row | who is let in was known, who is refused was not or was off the page; a change has its line and a loss its confirmation; pages, insertions and saved queries are told as they were |

Three runs are violated by what the code does; each states what `PROJECT.json`
quotes from the repository:

* `device_flow_twice`: a token is handed over exactly once.
* `domains_custom`: connecting and disconnecting never touch the automatic domain.
  `do_connect_domain` takes any host, so an automatic one can become a custom one,
  and `do_disconnect_domain` deletes its record.
* `backups_with`: `write: true` takes a backup first. Whether it does is decided by
  the first word (`is_write_statement`), so "with gone as (delete ...)" and
  "select 1; delete ..." change data with no dump.

Some statements fail with other constants, or of themselves, and have no run of
their own. `MCLogCollectorPrune.cfg`: a prune sets a quiet container's cursor back
(`store.rs:622`), and old lines are read again. `DockerfileIsKept` in FirstDeploy
fails when a file that could not be fetched is taken for absent (`github.rs:305`).
`EveryWriteIsRecorded` in Agent fails when a hang-up, panic or restart ends a call
between its change and its line (`mcp.rs:84`). `NoSecretInALine`, which states the
comment "it must never carry a secret" (`mcp.rs:99-104`), fails because `redact` sees
to the `database_url`, the `value` and the values of an `env` that is an object, and
to nothing else: SQL is written down as it came, and so are an `env` of another
shape and arguments that are no object.

What a property forgives it names, and all of it is what the code does: two drops
and a creation that cross remove and forget what is newer than the row they read
(`raced`); a project's id is given to the next; a person beyond the hundred newest
is refused (`auth.rs:189`); "TypeError: x", "RangeError: x" and "x" are one issue,
since `title_of` cuts at the substring "Error:" (`errors.rs:314-317`); `db_backup`
deletes the oldest dump beyond the seventh without a question (`mcp.rs:1500`); the
line about a statement that writes has the first line of its answer, which is
about the dump (`mcp.rs:500`); read-only is a session's default, which a script for
a Postgres overrides by beginning a transaction of its own (`db.rs:308-313`); and
cells with a bar or a newline fall apart on a page (`db.rs:101-123`).

### Bounds, and why they are enough

A race needs two actors and a third step between theirs, so two slots, or one
slot and a timer task, reach each of them; where a third kind of actor matters
(an outsider, a person, discovery) it is an action of its own without a slot.

* DeviceFlow: codes do not interact except through the prune, so two show it.
  `TTL = 1, MaxClock = 1` has the clock on both sides of a code's life; with one
  poll, in `first_deploy`, it goes to 4, past the prune.
* LogCollector: the cursor's resolution is a second, so seconds 0 and 1 with
  several lines in one are the case. `Cap = 2, PruneMin = 1` make a prune happen
  with three lines. `Keep = 1` stands for fifty occurrences, and deletions are
  bounded by one, after which an id comes back. One fault at a time: each is
  named, and the properties say which they forgive. `MaxRecorded` keeps a prune
  and the reading again that follows it from going round for ever.
* AppDatabase: five requests, two at a time, are two creations and two drops that
  cross and one that follows; two passwords are the row's and the newer container's.
* Domains: two drawn hosts and two projects make a draw collide; three requests
  are two that race and one that follows; one fault at a time.
* FirstDeploy: three commits are the first, a user's push and webo's, or webo's two
  when two deploys race; two polls are one that goes on and the last; two secrets
  of which one is configured.
* Metrics: a day of 6 seconds sampled every 2, averages every 3 kept for 7: a ring
  fills, a point ages out, and timers fall out of step within 10 seconds. The
  `ASSUME` keeps the proportions of the real numbers, among them that a day is of whole
  periods: with a `WEBO_SAMPLE_SECS` that does not divide a day the ring, a number of samples
  rounded down (`main.rs:13`), is shorter than a day by less than one period. Processes: three pids are
  init, a parent and a child; three events and a child that has run before the
  first scan let a pid be taken over between two scans. `Cut = 1` cuts.
* LogSearch: three lines and a scan of two exceed the limit; two containers, two
  streams, three levels. Grouping: two arrivals, since its property is of pairs;
  the bugs have every kind of word, classes among them. IssueReading: lists of two, three errors, so
  that a list is cut and an id comes back after a deletion.
* Sessions: two requests ask at once, the second's answer stored first; caches of
  one tick expire; two people on pages of one are one who is left off when the
  other joins. The key of the run parses; that one which does not is refused is in the
  theorems. Agent: two calls, so that one runs beside the other; one dump is kept.
  Console: two files, of one name, a Postgres and a file outside the volumes; cells
  that print like a blank line, a failure, two cells or two lines.
* Projects: `MaxBorn = 3` is a slug's second life next to another project; two
  polls are one that goes on and the last; one pass of each reader, because a
  pass carries nothing to the next and readers write different tables.

* Backups: `Keep = 1` stands for seven; names are seconds 0 and 1, so that dumps
  share a second and one is newer than another; `Day = 1` tick, so the daily pass
  runs on the second day. One row is there or not. A request that may dump, run
  a statement or restore, the daily pass, and the helpers that two hang-ups or
  restarts orphan are up to four dumps and restores and two prunes at once; two
  faults allow a cut or failed dump after a restart. Its theorems hold for all of
  these numbers.

### Assumptions

* Constants: the sets of containers and of texts are finite (`CollectorBounds`), as
  docker's and SQLite's are; an automatic host is in webo's zone and `ByName` names
  every project once or more (`DomainNaming`); two bugs differ in more than their data, and
  the words of a bug are no tags, kinds of report or what loose ids and paths look like
  (`GroupingAssumption`): `errors.rs:249` drops data, so two bugs that differ in nothing
  else are one issue; a first deploy begins with a tree of
  those modelled (`AtFirst`); no database is called by the marks "none" and
  "nothing" (`ConsoleAssumption`).
* Fresh values are fresh: codes, tokens, passwords are each drawn once.
* `first_deploy`, the device flow: weak fairness of the poll's steps: the agent polls every
  few seconds, as the answer to `device_start` tells it to, and the runtime
  serves a started request to its end. People owe nothing.
* `logs_triage`: weak fairness of the collector's step as a whole: it is a task
  on an interval that never returns. Nothing is assumed of any single call, and
  a failure may happen as often as the bound says.
* `first_deploy`, the deploy: weak fairness of the watcher's step, a task that polls at its
  interval for a bounded number of times and that nothing waits on.
* `backups`: weak fairness of the daily pass, a task on an interval that never
  returns, as one step that is each of its steps in turn, the end of a helper it
  waits for among them. The code has no timeout there,
  so this is an assumption about docker and `pg_dump`: were a helper to hang,
  no project would be dumped again until a restart.
* `backups`: clocks do not go back.

### Deadlock

Checked in `device_flow`, `logs`, `logs_triage` and `backups`. The
other models stop at their bounds on requests, rows, tokens or time.

## Proofs

TLAPS proves the following for every value of the constants, any number of
slots, rows, hosts, containers and lines included. No theorem assumes anything but
the modules' `ASSUME`s and what is said here. Every invariant and action property
that a passing run checks is proved.

* **Lists_proofs.** The library's induction theorems take a predicate, which the
  provers cannot instantiate; the lemmas here say the same of a *set* that is closed
  under one step: `Climb` for numbers, `Grow` for lists, `Collect` for finite sets.
  On them rest how `Only` and `Picked` take a list apart, what a sum over a set
  becomes when one element changes (`SumSplit`, `SumMore`), how often a line is in
  a list that grows or is filtered (`CountIn`, `Where`), and that finite sets of
  numbers have a largest and a smallest (`MaxIs`).
* **LogCollector_proofs**, the tracker. `VerdictStands` needs `FlagFollowsState`
  beside it, because the migration at each start reads the older flag;
  `MigrationIsQuiet` follows. `IssuesTellTheirOwn`: `TrackerInv` says that ids are
  distinct, that occurrences are kept only of issues there are (else an id given
  out again finds those of another), and that the kept ones are the newest
  (`KeepsNewest`: `Keep` of them or all, and none of a second before one of which
  some are missing). Every step of the composition is a step of the tracker or leaves it alone
  (`CollectorUsesTheTracker`), so both hold of the collector too.
* **LogCollector_proofs**, the index. `TheIndexMirrorsTheLog` rests on `IndexInv`:
  docker's log is in the order of its stamps; what is kept has, of every second
  before its cursor, as many copies as the log has and the prune has not removed;
  and a batch on its way to the index (`Reading`) has been read from the cursor as
  it still is, and has, of every second before its last, all there is. The
  batch's fact has to survive lines written, containers recreated and prunes until
  it is stored, copy by copy (`NewerCounts`). `ErrorsAreCountedOnce` is inductive
  beside it: a list filtered by `newer_than` and folded has no more errors than lines
  that say them, and as many where nothing folds them (`ErrorsSaying`).
* **LogCollector_proofs**, issues as they are read. `IssuesAreShownTruly` follows
  what a list and an opened issue showed, an id and which issue it was of, from
  reading to deciding (`There`): the row is as it was, or the issue was deleted.
  That ids and origins of rows are distinct (`RowsAreApart`) makes the row the only one;
  `FreshIdIs` keeps it so. The totals add up because each state's count is of rows
  no other state has (`TotalsAddUp`), as many as the filter lets pass (`LenOfOnly`).
* **Host_proofs**, the apps' databases. `AppsGetKnownCredentials`: a password reaches variable
  or file only after it was in the row. Strengthened by what each request
  carries between its steps. `RowsDatabaseIsReached`, for any number of requests that
  create, drop and look at once (`ReachInv`): whoever made the container that is there
  stores it (`Storing`) and then its variable (`Ahead`, `Opened`), its volume goes with it
  unless a drop left it (`Housed`), and a drop past the container means another than
  the one there (`Removed`); a step at which that is not so is one where two
  requests crossed, which is what `raced` records. `TheFileFollows`: as long as nothing that the property names has
  happened, the file is what the table says or a request that will write it is
  under way, and one that is about to write carries the value of the table (`Filed`).
* **Host_proofs**, processes. `CpuIsEachOnesOwn`: the ticks of a process are those
  read of its pid last, in this scan or the one before, and what it has used since; all
  are new if it was not there then (`Accounted`). `GroupsAreTogether`: a chain of
  parents is a recursive function, of which the proof uses its steps (`ChainIs`); where
  the last step leads nowhere, a process and its parent of the same program have one
  root (`RootStays`), and a group is no less busy than any member (`GroupHasMember`).
* **Host_proofs**, searches. `SearchesAreTrue`: an answer is made of one order of
  the lines found, cut at its limit. Cutting (`FirstAreNewest`) and filtering
  (`OnlyFalls`) such a list leaves one that falls in time; what a cut leaves out is
  no newer than what it keeps (`Tops`). Counts by a key are, together, the lines that have
  one of the keys (`CountsAddUp`).
* **Host_proofs**, charts. `ChartsStayWhole` and `StoredPointsStand` rest on `ChartsInv`,
  an invariant of seconds and periods: a sample of the ring is at least as many periods old
  as there are newer ones, so one that fell out is a day old (`Ring`, `RingHasTheDay`);
  a point has all samples of its window up to the second it is of, so averaging again gives
  no other (`Points`, `AgainIsLess`); points from a moment on are no more than the passes
  since, which keeps a week of them below the limit (`Few`, `PersistAddsOne`); and a pass
  that comes on time looks back to the one before (`PersistCovers`). It holds for any
  periods in the proportions of the `ASSUME`, whatever the bound on lateness.
* **Host_proofs**, bugs and issues. `BugsHaveTheirIssues`, for any bugs that differ in
  more than their data (`GroupingAssumption`): a title is the words of the bug, after
  words that tell nothing of it and only where nothing sets these off (`TitleSays`,
  `TagCuts`); a fingerprint keeps, in their order, the words and phrases that are no data
  (`FingerprintTells`), and these are what the bug says beside its data (`BugsTell`).
  A bug that names its class is cut there when no tag was found first (`Forms`), so an
  issue tells its bug or what follows the class of one (`Attributed`); and of data that
  looks like data the fingerprint keeps only the kind (`PlaceholderIs`, `Stem`), so a bug
  has one issue, or two if it names a class.
* **Domains_proofs.** `DistinctHosts` from `DrawInv` (a stored or reserved host
  was drawn apart from those taken), and `HostStays` as an action property.
  `HostIsTheProjects`, whatever hosts users name, from `Works`: a host is stored only
  by a request that has seen its record made and still under its host, and a record
  goes to an outsider, with a project, or with a custom domain of that name (`AskedFor`). `RoutesStayWhole` rests on
  `RoutesInv`: with no sync under way or owing and the last one undisturbed, every
  host of the table has its rule (`Settled`), because a merge of the table into the
  rules read routes each of its hosts (`MergeKeeps` for the rules of others). It assumes that nobody else routes a host of
  webo's; `OthersRulesStay`, the action property about everybody else's rules, does not.
* **Projects_proofs.** `TypeInv` adds to the types what a request in each state
  has asked for. `LinkStands` and `DeployHasItsWatcher` follow from it alone.
  `LinesReachTheirProject` and `BuildsReachTheirProject` rest on `Counted`: ids
  are given again, but the number of a row in the history never is, and a task that
  carries the number of a row that is there has its id. `Kept` says of lines under
  an id whose they are, or that they came late; `Fed` that what tasks bring a row is
  of a repository it has had, and what they bring by the id of an earlier row is in
  `strays`. `ProjectsShowTheirOwn` joins both.
* **Backups_proofs.** `NewestStay` rests on `VolumeInv`: a finished dump that is
  not on the volume has at least `Keep` newer finished ones, and so has each name
  on a prune's list; the finished dumps only become more, so a list that is out of
  date stays right. `ListedDumpsAreWhole`: a helper that shares its `.part` has
  its name in `spoilt`. `StatementHasItsDump` carries the rows the
  helper read and the moments the statement has seen through the wait, with one
  helper per waiting task, and what was asked, so that one that runs with no dump is
  one that says it changes nothing (`SaysItChanges`).
* **FirstDeploy_proofs.** `MineInv` says of each request which commit is its own,
  on what it was built, and that it is on the branch from the moment GitHub has moved
  it and not before; the branch is reasoned about by what becomes of it when a commit is
  made and when it moves. From it `NoPushIsLost` and `AnswersStayTrue`.
  `SecretsBeforeTheRun` adds that what a request tells of is set before its commit is
  made (`ToldInv`), `ScaffoldsFit` what a scan knows of the tree while nobody pushes
  (`ScanInv`).
* **Access_proofs**, the device flow. `IInv` is the conjunction of types,
  `GrantTrail` (every row, poll and token that says "approved" leads to a recorded
  approval), `OneApproval`, and what the guard of `device_approve` leaves in an
  approval. The trail is what makes it inductive: a poll inserts an email it read
  two calls earlier, so the fact must be carried by the poll. From it follow
  `TypeCorrect`, `ApprovedOnce`, `TokenCarriesItsApprover`, `TimelyApproval`,
  `SessionsMintTokens` and their conjunction `SoundGrants`; `SpentForGood` is the
  action property. `SolePollKeepsThePromise` is the refinement of Handover, for
  one poll at a time and no faults: what it needs beside `IInv` is that a code with a
  token is marked, or about to be by the poll that got it (`TokenIsMarked`), so that
  a poll yet to insert finds none (`NoTokenYet`). The run `device_flow_twice` shows
  why one poll; a write that fails, or a restart, between the insert and the mark
  leaves the row approved for the next poll, hence no faults.
  `SolePollHandsOverOnce` needs less for less: with one poll at a time and no failing
  write, restarts or not, no code puts two tokens into agents' hands. `HandInv` says
  that what was handed over is gone (`GoneStays`) and no poll is under way for it.
  A poll a restart cuts off before the mark minted a token that nobody was given.
* **Access_proofs**, sessions. The last moments at which a name was at Clerk, and
  was not, never go back, so an answer stays true of a moment no earlier than a
  timeout before it is stored, whoever stores last: `CachesAreFounded`. Who is not on
  a page has as many people beside them who joined no earlier as a page holds
  (`PagesShow`), and counts as missing from the lists as long as that is so (`Listed`). A request
  carries the answer it was given and its age from the key to the person (`Sound`),
  from which `DecisionsStand`. The lives of the caches are assumed positive.
* **Access_proofs**, agents and the console. `AuditIsTrue` and `NothingLostUnasked`:
  a call changes only what its tool does, and takes away only what was confirmed
  when it was routed (`Permitted`), which follows it from step to step, or what a new
  dump pushes out. The line is one with the outcome that is then answered (`Recorded`, `Told`);
  what it shows is what `redact` leaves, by the shape of the arguments. `TheConsoleIsTrue`:
  what is being read for a page is what the table was at a moment since the request
  came (`SeenIsCurrent`), through rows of the app, helpers that run late and another
  database taking the place of the first; rows of plain cells come through printing and
  parsing as they are (`ShownAsTheyAre`, `ReadAsTheyAre`), and a run that is marked stays so
  until the query is deleted (`Marks`).

Model-checked only: liveness (`ApprovedIsDelivered`, `EverythingIsIndexed`,
`DailyDump`, `DeployingEnds`), which the prover does not do.

## What the models leave out

* One project in LogCollector, IssueTracker and AppDatabase: their tables are
  keyed by project and no operation crosses them, except through reused ids,
  which Projects has.
* Streams (stdout and stderr) of a log line; one collection of lines per
  project in Projects, where LogCollector has the detail.
* A compose project whose name differs from the slug; the `tech` and `domain`
  labels; `projects_live`, the memory of live figures; docker's containers in
  Projects, so that any slug may be listed at any time.
* One variable, `DATABASE_URL`; others do not interact with the database.
* Ingress rules without a host other than the catch-all; hostname syntax, which
  is a set of hosts; the port of a project.
* A container recreated within the second of its last line.
* In Backups, what a torn dump still holds (some of its rows); which of two
  orphaned helpers with equal contents is which; `projects` and `databases` rows
  going away under a dump, and SQLite databases, which are never dumped.
  The forgiven cases are the code's: `pg_dump | gzip` succeeds with `gzip`, so a
  dump cut short is a backup like others, lets the write go ahead and counts
  among the seven kept; and a restore answers "restored" whatever rows were in
  the way, where `docs/mcp.md` says it overwrites. No property speaks for them.
* Wording and formatting. Titles, culprits and fingerprints of errors are the
  identity of an issue in IssueTracker; ErrorText has what makes it.
* In ErrorText, characters: a word is of one kind, and the cuts at 160 and 200
  characters are not reached. A path that does not begin at the root and an id that
  begins with a letter escape the placeholders (`errors.rs:278-292`), so their bug may
  have several issues; `OneIssueForABug` leaves such data out by name (`Steady`).
* In Metrics, the figures of a sample; in Processes, memory, disk and threads.
* In Agent, what a tool's step does inside, which is for the part's own module.

Not modelled, by component: reading and parsing `/proc`, sysfs and docker's
figures; `culprit_of`, `fmt.rs` and the text of scaffolded files (pure text); the
wizard's guess at variables and its list of repositories (`github.rs`, answers
only); the project cards and status texts, which join rows already modelled;
`logs::tail`, which passes docker's answer on; JWT and sealed-box cryptography
(libraries); `main`, `net.rs`, onboarding and the web page, which keep no state.

## Remarks

What the models showed or their writing met, and no property speaks for:

* `starts_record` (`errors.rs:148`) says that a line that stamps its own time is a
  new entry, but knows only RFC 3339 and slashed dates: of two different errors that
  Postgres writes in one second, the second is folded into the first.
* `error_detail` and `issue_detail` look for an issue among the first 200
  (`mcp.rs:1214`). That no browser was ever heard of is also said after the
  browsers' issues were deleted (`mcp.rs:1165`).
* The MCP search filters by stream and level after the limit of 5000 lines, though
  `store.rs:549` has every filter in the SQL; counts stop there without a sign.
* `project_status` marks a build in progress as FAIL, and shows the current
  version only among the newest 8, where the list of projects looks at 20;
  `list_projects` calls the newest run of any workflow a deploy.
* The card's sparkline of "at most 40 points" may have 79 (`server.rs:154`). A
  project that is missing from one docker listing loses its live history. A stored
  point of a project may be overwritten by the average of fewer samples.
  `WEBO_SAMPLE_SECS` above 86400 makes the ring's capacity zero.
* `table_insert` answers "inserted" when the SQLite file is gone, whose message has
  no "error" in it (`server.rs:1030`); a statement whose output has the word is called
  refused (`mcp.rs:1464`). A SQLite file is opened by its base name, which two may have.
* A saved query is marked as run before it is, also when there is no database to run it
  (`server.rs:892`); a total of 0 rows is also what is told when they could not be counted.
* `audit` cuts the parameters at byte 400 and panics inside a character (`mcp.rs:93`).
* `destructiveHint` is false for tools that delete a variable or write to a SQLite file,
  which has no dump.

## Plan

Built, in this order, because that is the order of what hurts most: tokens,
logs and issues, databases, domains, projects, backups, first deploys, then what
is shown and asked: metrics and processes, sessions, agents, console, searches,
issues as they are read, and error text. What would come next:

1. A second run of Agent for `NoSecretInALine`, with the comment it contradicts.
2. The screens of a project (`projects_list`, `project_detail`, `list_projects`,
   `project_status`) as readers of several tables between whose statements projects
   come and go, and that two screens never disagree.
