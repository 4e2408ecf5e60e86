------------------------------ MODULE Projects ------------------------------
(***************************************************************************)
(* The life of a project's row: registered by the wizard or discovered     *)
(* among the running containers, deployed, watched, deleted                *)
(* (src/src/server.rs, do_create_project, do_provision and                 *)
(* do_delete_project; src/src/projects.rs, run and teardown;               *)
(* src/src/github.rs, sync_once and watch_first_deploy; src/src/logs.rs,   *)
(* run).                                                                   *)
(*                                                                         *)
(* Every task reads rows, waits for docker or GitHub, and writes by the    *)
(* slug or the id it read.  A row's number, counted up by the model, tells *)
(* a row from a later one with the same slug or id.                        *)
(***************************************************************************)
EXTENDS Naturals, FiniteSets

CONSTANTS
  Slugs, NoSlug,
  Repos, NoRepo,
  Requests,    \* slots for requests in flight
  Watchers,    \* slots for watch_first_deploy
  MaxBorn,     \* bound: rows ever inserted
  MaxRequests, \* bound: requests begun
  MaxPasses,   \* bound: passes of the regular readers
  MaxPolls     \* watch_first_deploy polls 90 times

ASSUME ProjectNaming ==
  /\ NoRepo \notin Repos /\ NoSlug \notin Slugs
  /\ MaxBorn \in Nat /\ MaxRequests \in Nat /\ MaxPasses \in Nat
  /\ MaxPolls \in Nat \ {0}

VARIABLES
  row,       \* table projects
  builds,    \* tables builds and versions: whose runs an id has
  lines,     \* table logs: whose lines an id has
  held,      \* rows sync_once and the log collector have in hand
  watch,     \* the watchers of first deploys
  req,       \* the requests in flight
  begun,     \* requests begun so far
  passes,    \* passes begun so far
  born,      \* history: rows inserted so far
  linked,    \* history: the repository the user linked last
  past,      \* history: every repository a row has had
  crossed,   \* history: slugs deleted while being provisioned
  abandoned, \* history: slugs whose deploy lost its watcher
  strays,    \* history: rows, by number, given builds meant for an earlier row of their id
  late       \* history: <<id, number>> of rows with lines no deletion was to take along

tasks == <<held, watch, req, begun, passes>>
vars == <<row, builds, lines, tasks, born, linked, past, crossed, abandoned, strays, late>>

Ids == 1..MaxBorn
Readers == {"sync", "logs"}
NoRow == [id |-> 0, number |-> 0, source |-> "none", repo |-> NoRepo, status |-> "none"]
There(s) == row[s].id # 0

\* What a task keeps of the row it read.
Ref(s) == [slug |-> s, id |-> row[s].id, number |-> row[s].number, repo |-> row[s].repo]
Nobody == [slug |-> NoSlug, id |-> 0, number |-> 0, repo |-> NoRepo]
Free == [pc |-> "idle", of |-> Nobody, polls |-> 0]
Idle == [op |-> "idle", pc |-> "idle", of |-> Nobody]

-----------------------------------------------------------------------------
(* The table *)

\* Mutant: the number of rows and one.
NewId_Count(i) == i = 1 + Cardinality({s \in Slugs : There(s)})

\* INTEGER PRIMARY KEY without AUTOINCREMENT: one more than the largest.
NewId(i) ==
  /\ \A s \in Slugs : row[s].id < i
  /\ i = 1 \/ \E s \in Slugs : row[s].id + 1 = i

Insert(s, source, repo, status) ==
  /\ born < MaxBorn
  /\ \E i \in Ids : NewId(i) /\ row' = [row EXCEPT ![s] =
       [id |-> i, number |-> born + 1, source |-> source, repo |-> repo, status |-> status]]
  /\ born' = born + 1
  /\ past' = [past EXCEPT ![s] = {repo} \ {NoRepo}]

Update(s, source, repo, status) ==
  /\ row' = [row EXCEPT ![s] = [id |-> row[s].id, number |-> row[s].number,
                                source |-> source, repo |-> repo, status |-> status]]
  /\ past' = [past EXCEPT ![s] = past[s] \cup ({repo} \ {NoRepo})]
  /\ UNCHANGED born

\* set_status by slug: nothing when the slug has no row.
StatusOf(s, status) ==
  [row EXCEPT ![s] = IF There(s)
     THEN [id |-> row[s].id, number |-> row[s].number, source |-> row[s].source,
           repo |-> row[s].repo, status |-> status]
     ELSE row[s]]

\* replace_builds by id: the foreign key refuses an id without a row.
WithRuns(id, repo) ==
  [i \in Ids |-> IF i = id /\ \E s \in Slugs : row[s].id = id
                 THEN builds[i] \cup {repo} ELSE builds[i]]

\* Runs written by an id whose row is not the one that was read.
Straying(p) == {<<row[s].number, p.repo>> : s \in {t \in Slugs : row[t].id = p.id /\ row[t].number # p.number}}

\* do_create_project: register, whose link is authoritative.
Register(s, repo) ==
  /\ IF There(s)
     THEN Update(s, "registered", repo, IF row[s].status = "none" THEN "provisioning" ELSE row[s].status)
     ELSE Insert(s, "registered", repo, "provisioning")
  /\ linked' = [linked EXCEPT ![s] = repo]
  /\ UNCHANGED <<builds, lines, tasks, crossed, abandoned, strays, late>>

-----------------------------------------------------------------------------
(* Discovery: projects::run *)

\* Mutant: what the image says beats what the user said.
RepoAfter_Inferred(old, inferred) == IF inferred = NoRepo THEN old ELSE inferred

\* COALESCE(projects.repo_owner, excluded.repo_owner)
RepoAfter(old, inferred) == IF old = NoRepo THEN inferred ELSE old

\* upsert_discovered of a slug with what its images gave away.  A pass lists
\* the containers and takes long to ask about each, and which slugs have
\* containers is docker's business: a pass stores any slug at any time, one
\* deleted since it was listed included.
Upsert(s, inferred) ==
  /\ IF There(s)
     THEN Update(s, row[s].source, RepoAfter(row[s].repo, inferred), row[s].status)
     ELSE Insert(s, "discovered", inferred, "none")
  /\ UNCHANGED <<builds, lines, tasks, linked, crossed, abandoned, strays, late>>

-----------------------------------------------------------------------------
(* The regular readers: sync_once and logs::run *)

\* store.projects(): sync goes on with rows that have a repository, the
\* collector with those whose containers docker lists next.
ReadProjects(t) ==
  /\ held[t] = {} /\ passes < MaxPasses
  /\ \E listed \in SUBSET Slugs :
       held' = [held EXCEPT ![t] = {Ref(s) : s \in {u \in Slugs :
         There(u) /\ IF t = "sync" THEN row[u].repo # NoRepo ELSE u \in listed}}]
  /\ passes' = passes + 1
  /\ UNCHANGED <<row, builds, lines, watch, req, begun, born, linked, past, crossed, abandoned, strays, late>>

\* GitHub answers with runs, or with nothing; then it is asked for versions.
SyncBuilds(p, listed) ==
  /\ p \in held["sync"]
  /\ held' \in {held, [held EXCEPT !["sync"] = held["sync"] \ {p}]}
  /\ builds' = IF listed THEN WithRuns(p.id, p.repo) ELSE builds
  /\ strays' = IF listed THEN strays \cup Straying(p) ELSE strays
  /\ UNCHANGED <<row, lines, watch, req, begun, passes, born, linked, past, crossed, abandoned, late>>

\* Mutant: whichever row has the slug by now.
LinesGoTo_BySlug(p) == row[p.slug].id

LinesGoTo(p) == p.id

\* The row that was read is gone, or a deletion has been past its lines.
Departed(p) ==
  \/ \A s \in Slugs : row[s].number # p.number
  \/ \E r \in Requests : req[r].pc = "row" /\ req[r].of.number = p.number

\* insert_logs by id: the full-text table has no foreign key.
CollectLines(p) ==
  /\ p \in held["logs"]
  /\ held' = [held EXCEPT !["logs"] = held["logs"] \ {p}]
  /\ lines' = [i \in Ids |-> IF i = LinesGoTo(p) THEN lines[i] \cup {p.number} ELSE lines[i]]
  /\ late' = IF Departed(p) THEN late \cup {<<p.id, p.number>>} ELSE late
  /\ UNCHANGED <<row, builds, watch, req, begun, passes, born, linked, past, crossed, abandoned, strays>>

-----------------------------------------------------------------------------
(* Provisioning: do_provision and watch_first_deploy *)

Begin(r, op, pc, s) ==
  /\ req[r].pc = "idle" /\ begun < MaxRequests
  /\ There(s)
  /\ req' = [req EXCEPT ![r] = [op |-> op, pc |-> pc, of |-> Ref(s)]]
  /\ begun' = begun + 1

Moves(r, pc) == req' = [req EXCEPT ![r] = [op |-> req[r].op, pc |-> pc, of |-> req[r].of]]
Ends(r) == req' = [req EXCEPT ![r] = Idle]

Provision(r, s) ==
  /\ Begin(r, "provision", "commit", s)
  /\ row[s].repo # NoRepo
  /\ UNCHANGED <<row, builds, lines, held, watch, passes, born, linked, past, crossed, abandoned, strays, late>>

\* The scan, or the commit, failed.
CommitFails(r) ==
  /\ req[r].pc = "commit"
  /\ Ends(r)
  /\ UNCHANGED <<row, builds, lines, held, watch, begun, passes, born, linked, past, crossed, abandoned, strays, late>>

Commit(r) ==
  /\ req[r].pc = "commit"
  /\ row' = StatusOf(req[r].of.slug, "deploying")
  /\ abandoned' = abandoned \ {req[r].of.slug}
  /\ Moves(r, "spawn")
  /\ UNCHANGED <<builds, lines, held, watch, begun, passes, born, linked, past, crossed, strays, late>>

\* After reserve_domain: the watcher is given the slug and the repository.
Spawn(r, w) ==
  /\ req[r].pc = "spawn" /\ watch[w].pc = "idle"
  /\ watch' = [watch EXCEPT ![w] = [pc |-> "start", of |-> req[r].of, polls |-> 0]]
  /\ Ends(r)
  /\ UNCHANGED <<row, builds, lines, held, begun, passes, born, linked, past, crossed, abandoned, strays, late>>

\* The watcher reads the row the slug has now.
FindRow(w) ==
  /\ watch[w].pc = "start"
  /\ LET s == watch[w].of.slug IN
     watch' = [watch EXCEPT ![w] = IF There(s)
       THEN [pc |-> "poll", polls |-> 0,
             of |-> [slug |-> s, id |-> row[s].id, number |-> row[s].number, repo |-> watch[w].of.repo]]
       ELSE Free]
  /\ UNCHANGED <<row, builds, lines, held, req, begun, passes, born, linked, past, crossed, abandoned, strays, late>>

\* Mutant: the builds go to whichever row has the slug by now.
RunsGoTo_BySlug(p) == row[p.slug].id

RunsGoTo(p) == p.id

\* Mutant: after the last poll nothing is left to do.
Polled_GivesUp(w, done) ==
  IF done THEN [pc |-> "clear", of |-> watch[w].of, polls |-> watch[w].polls]
  ELSE IF watch[w].polls + 1 < MaxPolls
  THEN [pc |-> "poll", of |-> watch[w].of, polls |-> watch[w].polls + 1]
  ELSE Free

Polled(w, done) ==
  [pc |-> IF done \/ watch[w].polls + 1 = MaxPolls THEN "clear" ELSE "poll",
   of |-> watch[w].of,
   polls |-> IF done THEN watch[w].polls ELSE watch[w].polls + 1]

\* GitHub lists runs or nothing; the newest run is completed or not.
Poll(w, listed, done) ==
  /\ watch[w].pc = "poll" /\ (done => listed)
  /\ builds' = IF listed THEN WithRuns(RunsGoTo(watch[w].of), watch[w].of.repo) ELSE builds
  /\ strays' = IF listed THEN strays \cup Straying(watch[w].of) ELSE strays
  /\ watch' = [watch EXCEPT ![w] = Polled(w, done)]
  /\ UNCHANGED <<row, lines, held, req, begun, passes, born, linked, past, crossed, abandoned, late>>

ClearStatus(w) ==
  /\ watch[w].pc = "clear"
  /\ row' = StatusOf(watch[w].of.slug, "none")
  /\ watch' = [watch EXCEPT ![w] = Free]
  /\ UNCHANGED <<builds, lines, held, req, begun, passes, born, linked, past, crossed, abandoned, strays, late>>

-----------------------------------------------------------------------------
(* Deleting: do_delete_project *)

Delete(r, s) ==
  /\ Begin(r, "delete", "teardown", s)
  /\ UNCHANGED <<row, builds, lines, held, watch, passes, born, linked, past, crossed, abandoned, strays, late>>

\* Containers and DNS records are seen to, which takes a while.
Teardown(r) ==
  /\ req[r].pc = "teardown"
  /\ Moves(r, "logs")
  /\ UNCHANGED <<row, builds, lines, held, watch, begun, passes, born, linked, past, crossed, abandoned, strays, late>>

DeleteLogs(r) ==
  /\ req[r].pc = "logs"
  /\ lines' = [i \in Ids |-> IF i = req[r].of.id THEN {} ELSE lines[i]]
  /\ Moves(r, "row")
  /\ UNCHANGED <<row, builds, held, watch, begun, passes, born, linked, past, crossed, abandoned, strays, late>>

BeingProvisioned(s) ==
  \/ \E r \in Requests : req[r].op = "provision" /\ req[r].of.slug = s
  \/ \E w \in Watchers : watch[w].pc = "start" /\ watch[w].of.slug = s

\* delete_project by slug, whichever row has it by now, and what the cascade
\* takes along; the lines deleted before were those of the id read first.
DeleteRow(r) ==
  LET s == req[r].of.slug IN
  /\ req[r].pc = "row"
  /\ row' = [row EXCEPT ![s] = NoRow]
  /\ builds' = [i \in Ids |-> IF i = row[s].id THEN {} ELSE builds[i]]
  /\ crossed' = IF BeingProvisioned(s) THEN crossed \cup {s} ELSE crossed
  /\ linked' = [linked EXCEPT ![s] = NoRepo]
  /\ past' = [past EXCEPT ![s] = {}]
  /\ abandoned' = abandoned \ {s}
  /\ late' = IF There(s) /\ row[s].number # req[r].of.number
             THEN late \cup {<<row[s].id, row[s].number>>} ELSE late
  /\ Ends(r)
  /\ UNCHANGED <<lines, held, watch, begun, passes, born, strays>>

-----------------------------------------------------------------------------
(* Failures *)

\* The client hangs up: the handler is dropped where it waits.
HangUp(r) ==
  /\ req[r].pc \in {"commit", "spawn", "teardown"}
  /\ abandoned' = IF req[r].pc = "spawn" THEN abandoned \cup {req[r].of.slug} ELSE abandoned
  /\ Ends(r)
  /\ UNCHANGED <<row, builds, lines, held, watch, begun, passes, born, linked, past, crossed, strays, late>>

\* The server restarts: every task and request is gone.
Restart ==
  /\ abandoned' = abandoned \cup {req[r].of.slug : r \in {q \in Requests : req[q].pc = "spawn"}}
                            \cup {watch[w].of.slug : w \in {v \in Watchers : watch[v].pc # "idle"}}
  /\ req' = [r \in Requests |-> Idle]
  /\ watch' = [w \in Watchers |-> Free]
  /\ held' = [t \in Readers |-> {}]
  /\ UNCHANGED <<row, builds, lines, begun, passes, born, linked, past, crossed, strays, late>>

-----------------------------------------------------------------------------
Init ==
  /\ row = [s \in Slugs |-> NoRow]
  /\ builds = [i \in Ids |-> {}] /\ lines = [i \in Ids |-> {}]
  /\ held = [t \in Readers |-> {}]
  /\ watch = [w \in Watchers |-> Free]
  /\ req = [r \in Requests |-> Idle]
  /\ begun = 0 /\ passes = 0 /\ born = 0
  /\ linked = [s \in Slugs |-> NoRepo] /\ past = [s \in Slugs |-> {}]
  /\ crossed = {} /\ abandoned = {} /\ strays = {} /\ late = {}

Next ==
  \/ \E s \in Slugs, repo \in Repos : Register(s, repo)
  \/ \E s \in Slugs, repo \in Repos \cup {NoRepo} : Upsert(s, repo)
  \/ \E t \in Readers : ReadProjects(t)
  \/ \E p \in held["sync"], listed \in BOOLEAN : SyncBuilds(p, listed)
  \/ \E p \in held["logs"] : CollectLines(p)
  \/ \E r \in Requests, s \in Slugs : Provision(r, s)
  \/ \E r \in Requests : CommitFails(r)
  \/ \E r \in Requests : Commit(r)
  \/ \E r \in Requests, w \in Watchers : Spawn(r, w)
  \/ \E w \in Watchers : FindRow(w)
  \/ \E w \in Watchers, listed, done \in BOOLEAN : Poll(w, listed, done)
  \/ \E w \in Watchers : ClearStatus(w)
  \/ \E r \in Requests, s \in Slugs : Delete(r, s)
  \/ \E r \in Requests : Teardown(r)
  \/ \E r \in Requests : DeleteLogs(r)
  \/ \E r \in Requests : DeleteRow(r)
  \/ \E r \in Requests : HangUp(r)
  \/ Restart

Spec == Init /\ [][Next]_vars

-----------------------------------------------------------------------------
(* Properties *)

RefType == [slug : Slugs \cup {NoSlug}, id : Ids \cup {0}, number : 0..MaxBorn, repo : Repos \cup {NoRepo}]
RowType == [id : Ids \cup {0}, number : 0..MaxBorn, source : {"none", "registered", "discovered"},
            repo : Repos \cup {NoRepo}, status : {"none", "provisioning", "deploying"}]

\* The table keeps its shape, and ids are a key of it.
RowsOK ==
  /\ row \in [Slugs -> RowType]
  /\ \A s, t \in Slugs : There(s) /\ row[s].id = row[t].id => s = t
  /\ \A s \in Slugs : There(s) \/ row[s] = NoRow
  /\ born \in 0..MaxBorn
  /\ past \in [Slugs -> SUBSET Repos]

TasksOK ==
  /\ held \in [Readers -> SUBSET RefType]
  /\ watch \in [Watchers -> [pc : {"idle", "start", "poll", "clear"}, of : RefType, polls : 0..MaxPolls]]
  /\ \A w \in Watchers : watch[w].pc = "poll" => watch[w].polls < MaxPolls
  /\ req \in [Requests -> [op : {"idle", "provision", "delete"},
                           pc : {"idle", "commit", "spawn", "teardown", "logs", "row"}, of : RefType]]
  /\ begun \in 0..MaxRequests /\ passes \in 0..MaxPasses

\* Every variable keeps its shape, and ids are a key of the table, whoever
\* registers, discovers and deletes in whatever order (SCHEMA projects).
TypeOK ==
  /\ RowsOK
  /\ TasksOK
  /\ builds \in [Ids -> SUBSET Repos] /\ lines \in [Ids -> SUBSET (0..MaxBorn)]
  /\ linked \in [Slugs -> Repos \cup {NoRepo}]
  /\ crossed \in SUBSET Slugs /\ abandoned \in SUBSET Slugs
  /\ strays \subseteq (0..MaxBorn) \X Repos /\ late \subseteq (Ids \cup {0}) \X (0..MaxBorn)

\* However discovery passes fall between registrations, deletions and
\* restarts, a registered project has the repository its user linked last
\* (upsert_discovered's COALESCE against register's excluded.*).
UserLinkWins == \A s \in Slugs : row[s].source = "registered" => row[s].repo = linked[s]

\* The builds and versions a project shows are runs of repositories it has
\* had, although sync_once and the watchers write by an id read long before;
\* or of an earlier row whose id it was given, if a pass or a watcher that
\* had read that row wrote to it.  Excepted is a project deleted and made
\* again in the middle of a provisioning.
OwnBuildsOnly ==
  \A s \in Slugs \ crossed : There(s) =>
    \A repo \in builds[row[s].id] : repo \in past[s] \/ <<row[s].number, repo>> \in strays

\* The lines a project shows were read for that project, although the log
\* table has no foreign key; or for an earlier row with the same id, and then
\* they came after its lines were deleted, or with its row a deletion begun
\* for a still earlier one.
OwnLinesOnly ==
  \A s \in Slugs : There(s) =>
    \A n \in lines[row[s].id] : n = row[s].number \/ <<row[s].id, n>> \in late

\* What a project shows is its own, or what a task wrote late by an id that
\* was given again, and never another's of the same slug.
ShowsItsOwn == OwnBuildsOnly /\ OwnLinesOnly

Watched(s) ==
  \/ \E r \in Requests : req[r].pc = "spawn" /\ req[r].of.slug = s
  \/ \E w \in Watchers : watch[w].pc # "idle" /\ watch[w].of.slug = s

\* A project said to be deploying has somebody who will say otherwise, unless
\* a restart or a client that hung up took the watcher away.
DeployingIsWatched ==
  \A s \in Slugs : row[s].status = "deploying" => s \in abandoned \/ Watched(s)
=============================================================================
