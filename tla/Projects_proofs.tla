-------------------------- MODULE Projects_proofs --------------------------
(***************************************************************************)
(* Whatever discovery, the readers, the watchers and the requests do in    *)
(* between: the user's link stands, a deploying project is watched, and    *)
(* what is written late reaches its project, nobody, or a later row that   *)
(* was given the same id.                                                  *)
(***************************************************************************)
EXTENDS Projects, TLAPS

USE ProjectNaming DEF Ids, Readers

-----------------------------------------------------------------------------
(* The operations on the table *)

LEMMA InsertFacts ==
  ASSUME RowsOK, NEW s \in Slugs, ~There(s),
         NEW source \in {"registered", "discovered"}, NEW repo \in Repos \cup {NoRepo},
         NEW status \in {"none", "provisioning"},
         Insert(s, source, repo, status)
  PROVE  /\ RowsOK'
         /\ row'[s].id \in Ids /\ NewId(row'[s].id)
         /\ row'[s].number = born + 1 /\ born' = born + 1
         /\ row'[s].source = source /\ row'[s].repo = repo /\ row'[s].status = status
         /\ \A t \in Slugs \ {s} : row'[t] = row[t] /\ past'[t] = past[t]
         /\ past'[s] = {repo} \ {NoRepo}
<1>1. PICK i \in Ids :
        /\ NewId(i)
        /\ row' = [row EXCEPT ![s] =
             [id |-> i, number |-> born + 1, source |-> source, repo |-> repo, status |-> status]]
  BY DEF Insert
<1>2. row \in [Slugs -> RowType] /\ past \in [Slugs -> SUBSET Repos] /\ born \in 0..MaxBorn
  BY DEF RowsOK
<1>3. /\ row'[s] = [id |-> i, number |-> born + 1, source |-> source, repo |-> repo, status |-> status]
      /\ \A t \in Slugs \ {s} : row'[t] = row[t]
  BY <1>1, <1>2
<1>4. /\ past'[s] = {repo} \ {NoRepo}
      /\ \A t \in Slugs \ {s} : past'[t] = past[t]
      /\ past' \in [Slugs -> SUBSET Repos]
  BY <1>2 DEF Insert
<1>5. born' = born + 1 /\ born' \in 0..MaxBorn
  BY <1>2 DEF Insert
<1>6. row' \in [Slugs -> RowType]
  <2>1. [id |-> i, number |-> born + 1, source |-> source, repo |-> repo, status |-> status] \in RowType
    BY <1>2, <1>5 DEF RowType
  <2>2. QED  BY <1>1, <1>2, <2>1
<1>7. \A t, u \in Slugs : There(t)' /\ row'[t].id = row'[u].id => t = u
  BY <1>1, <1>2, <1>3 DEF RowsOK, There, NewId, RowType
<1>8. QED
  BY <1>1, <1>3, <1>4, <1>5, <1>6, <1>7 DEF RowsOK, There

LEMMA UpdateFacts ==
  ASSUME RowsOK, NEW s \in Slugs, There(s),
         NEW source \in {"none", "registered", "discovered"}, NEW repo \in Repos \cup {NoRepo},
         NEW status \in {"none", "provisioning", "deploying"},
         Update(s, source, repo, status)
  PROVE  /\ RowsOK'
         /\ row'[s].id = row[s].id /\ row'[s].number = row[s].number
         /\ row'[s].source = source /\ row'[s].repo = repo /\ row'[s].status = status
         /\ \A t \in Slugs \ {s} : row'[t] = row[t] /\ past'[t] = past[t]
         /\ past'[s] = past[s] \cup ({repo} \ {NoRepo})
         /\ born' = born
<1>1. row \in [Slugs -> RowType] /\ past \in [Slugs -> SUBSET Repos]
  BY DEF RowsOK
<1>2. /\ row'[s] = [id |-> row[s].id, number |-> row[s].number,
                    source |-> source, repo |-> repo, status |-> status]
      /\ \A t \in Slugs \ {s} : row'[t] = row[t]
  BY <1>1 DEF Update
<1>3. /\ past'[s] = past[s] \cup ({repo} \ {NoRepo})
      /\ \A t \in Slugs \ {s} : past'[t] = past[t]
      /\ past' \in [Slugs -> SUBSET Repos]
  BY <1>1 DEF Update
<1>4. row' \in [Slugs -> RowType]
  <2>1. [id |-> row[s].id, number |-> row[s].number,
         source |-> source, repo |-> repo, status |-> status] \in RowType
    BY <1>1 DEF RowType
  <2>2. QED  BY <1>1, <2>1 DEF Update
<1>5. \A t, u \in Slugs : There(t)' /\ row'[t].id = row'[u].id => t = u
  BY <1>2 DEF RowsOK, There
<1>6. born' = born
  BY DEF Update
<1>7. QED
  BY <1>2, <1>3, <1>4, <1>5, <1>6 DEF RowsOK, There

\* set_status touches the status of one row.
LEMMA StatusFacts ==
  ASSUME RowsOK, NEW s \in Slugs, NEW status \in {"none", "deploying"},
         row' = StatusOf(s, status), UNCHANGED <<born, past>>
  PROVE  /\ RowsOK'
         /\ \A t \in Slugs : /\ row'[t].id = row[t].id /\ row'[t].number = row[t].number
                             /\ row'[t].source = row[t].source /\ row'[t].repo = row[t].repo
         /\ \A t \in Slugs \ {s} : row'[t].status = row[t].status
         /\ There(s) => row'[s].status = status
         /\ ~There(s) => row'[s] = row[s]
<1>1. row \in [Slugs -> RowType]
  BY DEF RowsOK
<1>2. \A t \in Slugs \ {s} : row'[t] = row[t]
  BY <1>1 DEF StatusOf
<1>3. CASE There(s)
  <2>1. row' = [row EXCEPT ![s] = [id |-> row[s].id, number |-> row[s].number, source |-> row[s].source,
                                  repo |-> row[s].repo, status |-> status]]
    BY <1>3 DEF StatusOf
  <2>2. [id |-> row[s].id, number |-> row[s].number, source |-> row[s].source,
         repo |-> row[s].repo, status |-> status] \in RowType
    BY <1>1 DEF RowType
  <2>3. row' \in [Slugs -> RowType]
    BY <1>1, <2>1, <2>2
  <2>4. row'[s] = [id |-> row[s].id, number |-> row[s].number, source |-> row[s].source,
                   repo |-> row[s].repo, status |-> status]
    BY <1>1, <2>1
  <2>5. QED  BY <1>2, <1>3, <2>3, <2>4 DEF RowsOK, There
<1>4. CASE ~There(s)
  <2>1. row' = row
    BY <1>1, <1>4 DEF StatusOf
  <2>2. QED  BY <1>4, <2>1 DEF RowsOK, There
<1>5. QED  BY <1>3, <1>4

LEMMA DropFacts ==
  ASSUME RowsOK, NEW s \in Slugs, row' = [row EXCEPT ![s] = NoRow],
         past' = [past EXCEPT ![s] = {}], born' = born
  PROVE  /\ RowsOK'
         /\ row'[s] = NoRow /\ past'[s] = {}
         /\ \A t \in Slugs \ {s} : row'[t] = row[t] /\ past'[t] = past[t]
<1>1. row \in [Slugs -> RowType] /\ past \in [Slugs -> SUBSET Repos]
  BY DEF RowsOK
<1>2. NoRow \in RowType /\ NoRow.id = 0
  BY DEF NoRow, RowType
<1>3. /\ row'[s] = NoRow /\ past'[s] = {}
      /\ \A t \in Slugs \ {s} : row'[t] = row[t] /\ past'[t] = past[t]
  BY <1>1
<1>4. row' \in [Slugs -> RowType] /\ past' \in [Slugs -> SUBSET Repos]
  BY <1>1, <1>2
<1>5. QED  BY <1>2, <1>3, <1>4 DEF RowsOK, There

-----------------------------------------------------------------------------
(* Types, and what a task in flight carries *)

Asked ==
  /\ \A p \in held["sync"] : p.repo \in Repos
  /\ \A r \in Requests :
       /\ req[r].pc # "idle" => req[r].of.slug \in Slugs
       /\ req[r].op = "provision" <=> req[r].pc \in {"commit", "spawn"}
       /\ req[r].op = "provision" => req[r].of.repo \in Repos
  /\ \A w \in Watchers : watch[w].pc # "idle" => watch[w].of.slug \in Slugs /\ watch[w].of.repo \in Repos

TypeInv == TypeOK /\ Asked

LEMMA Blank == Nobody \in RefType /\ NoRow \in RowType
BY DEF Nobody, RefType, NoRow, RowType

LEMMA RefTyped == ASSUME RowsOK, NEW s \in Slugs PROVE Ref(s) \in RefType /\ Ref(s).slug = s
BY DEF RowsOK, Ref, RefType, RowType

LEMMA TypeInit == Init => TypeInv
<1> SUFFICES ASSUME Init PROVE TypeInv
  OBVIOUS
<1>1. RowsOK
  BY Blank DEF Init, RowsOK, There, NoRow
<1>2. TasksOK
  BY Blank DEF Init, TasksOK, Free, Idle
<1>3. Asked
  BY DEF Init, Asked, Free, Idle
<1>4. QED  BY <1>1, <1>2, <1>3 DEF Init, TypeInv, TypeOK

\* Steps of the table leave the tasks alone, and the tasks' leave the table.
LEMMA TypeFrame ==
  ASSUME TypeInv
  PROVE  /\ UNCHANGED tasks => TasksOK' /\ Asked'
         /\ UNCHANGED <<row, born, past>> => RowsOK'
<1>1. ASSUME UNCHANGED tasks PROVE TasksOK' /\ Asked'
  BY <1>1 DEF TypeInv, TypeOK, TasksOK, Asked, tasks
<1>2. ASSUME UNCHANGED <<row, born, past>> PROVE RowsOK'
  BY <1>2 DEF TypeInv, TypeOK, RowsOK, There
<1>3. QED  BY <1>1, <1>2

LEMMA RunsTyped ==
  ASSUME TypeOK, NEW id, NEW repo \in Repos PROVE WithRuns(id, repo) \in [Ids -> SUBSET Repos]
BY DEF TypeOK, WithRuns

LEMMA StraysTyped ==
  ASSUME RowsOK, NEW p, p.repo \in Repos PROVE Straying(p) \subseteq (0..MaxBorn) \X Repos
BY DEF RowsOK, RowType, Straying

LEMMA MovesTyped ==
  ASSUME TypeInv, NEW r \in Requests, NEW pc \in {"spawn", "logs", "row"}, Moves(r, pc),
         UNCHANGED <<held, watch, begun, passes>>,
         req[r].pc # "idle", pc = "spawn" <=> req[r].op = "provision"
  PROVE  TasksOK' /\ Asked'
<1>1. /\ req' \in [Requests -> [op : {"idle", "provision", "delete"},
                pc : {"idle", "commit", "spawn", "teardown", "logs", "row"}, of : RefType]]
      /\ req'[r] = [op |-> req[r].op, pc |-> pc, of |-> req[r].of]
      /\ \A q \in Requests \ {r} : req'[q] = req[q]
  BY DEF Moves, TypeInv, TypeOK, TasksOK
<1>2. TasksOK /\ Asked
  BY DEF TypeInv, TypeOK
<1>3. QED  BY <1>1, <1>2 DEF TasksOK, Asked

LEMMA EndsTyped ==
  ASSUME TypeInv, NEW r \in Requests, Ends(r), UNCHANGED <<held, begun, passes>>
  PROVE  UNCHANGED watch => TasksOK' /\ Asked'
<1>1. /\ req' \in [Requests -> [op : {"idle", "provision", "delete"},
                pc : {"idle", "commit", "spawn", "teardown", "logs", "row"}, of : RefType]]
      /\ req'[r] = Idle
      /\ \A q \in Requests \ {r} : req'[q] = req[q]
  BY Blank DEF Ends, Idle, TypeInv, TypeOK, TasksOK
<1>2. QED  BY <1>1 DEF TypeInv, TypeOK, TasksOK, Asked, Idle

LEMMA BeginTyped ==
  ASSUME TypeInv, NEW r \in Requests, NEW s \in Slugs,
         NEW op \in {"provision", "delete"}, NEW pc \in {"commit", "teardown"}, Begin(r, op, pc, s),
         op = "provision" <=> pc = "commit",
         op = "provision" => row[s].repo \in Repos,
         UNCHANGED <<held, watch, passes>>
  PROVE  TasksOK' /\ Asked'
<1>1. Ref(s) \in RefType /\ Ref(s).slug = s /\ Ref(s).repo = row[s].repo
  BY RefTyped DEF TypeInv, TypeOK, Ref
<1>2. /\ req' \in [Requests -> [op : {"idle", "provision", "delete"},
                pc : {"idle", "commit", "spawn", "teardown", "logs", "row"}, of : RefType]]
      /\ req'[r] = [op |-> op, pc |-> pc, of |-> Ref(s)]
      /\ \A q \in Requests \ {r} : req'[q] = req[q]
  BY <1>1 DEF Begin, TypeInv, TypeOK, TasksOK
<1>3. begun' \in 0..MaxRequests
  BY DEF Begin, TypeInv, TypeOK, TasksOK
<1>4. TasksOK'
  BY <1>2, <1>3 DEF TypeInv, TypeOK, TasksOK
<1>5. /\ req'[r].op = op /\ req'[r].pc = pc
      /\ req'[r].of.slug = s /\ req'[r].of.repo = row[s].repo
  BY <1>1, <1>2
<1>6. Asked'
  BY <1>2, <1>5 DEF TypeInv, Asked
<1>7. QED  BY <1>4, <1>6

\* The watcher's slot takes a new value of the right shape.
LEMMA WatchTyped ==
  ASSUME TypeInv, NEW w \in Watchers,
         NEW new \in [pc : {"idle", "start", "poll", "clear"}, of : RefType, polls : 0..MaxPolls],
         new.pc = "poll" => new.polls < MaxPolls,
         new.pc # "idle" => new.of.slug \in Slugs /\ new.of.repo \in Repos,
         watch' = [watch EXCEPT ![w] = new],
         UNCHANGED <<held, begun, passes>>
  PROVE  UNCHANGED req => TasksOK' /\ Asked'
<1>1. /\ watch' \in [Watchers -> [pc : {"idle", "start", "poll", "clear"}, of : RefType, polls : 0..MaxPolls]]
      /\ watch'[w] = new
      /\ \A v \in Watchers \ {w} : watch'[v] = watch[v]
  BY DEF TypeInv, TypeOK, TasksOK
<1>2. QED  BY <1>1 DEF TypeInv, TypeOK, TasksOK, Asked

LEMMA TypeStep == TypeInv /\ [Next]_vars => TypeInv'
<1> SUFFICES ASSUME TypeInv, [Next]_vars PROVE TypeInv'
  OBVIOUS
<1> DEFINE
  Rest == /\ builds \in [Ids -> SUBSET Repos] /\ lines \in [Ids -> SUBSET (0..MaxBorn)]
          /\ linked \in [Slugs -> Repos \cup {NoRepo}]
          /\ crossed \in SUBSET Slugs /\ abandoned \in SUBSET Slugs
          /\ strays \subseteq (0..MaxBorn) \X Repos /\ late \subseteq (Ids \cup {0}) \X (0..MaxBorn)
<1>0. Rest /\ RowsOK /\ TasksOK /\ Asked
  BY DEF TypeInv, TypeOK
<1>a. SUFFICES RowsOK' /\ TasksOK' /\ Asked' /\ Rest'
  BY DEF TypeInv, TypeOK
<1>1. CASE \E s \in Slugs, repo \in Repos : Register(s, repo)
  <2>1. PICK s \in Slugs, repo \in Repos : Register(s, repo)
    BY <1>1
  <2>2. RowsOK'
    <3>1. CASE There(s)
      <4>1. row[s].status \in {"none", "provisioning", "deploying"}
        BY <1>0 DEF RowsOK, RowType
      <4>2. QED  BY <1>0, <2>1, <3>1, <4>1, UpdateFacts DEF Register
    <3>2. CASE ~There(s)
      BY <1>0, <2>1, <3>2, InsertFacts DEF Register
    <3>3. QED  BY <3>1, <3>2
  <2>3. TasksOK' /\ Asked' /\ Rest'
    BY <1>0, <2>1, TypeFrame DEF Register
  <2>4. QED  BY <2>2, <2>3
<1>2. CASE \E s \in Slugs, inferred \in Repos \cup {NoRepo} : Upsert(s, inferred)
  <2>1. PICK s \in Slugs, inferred \in Repos \cup {NoRepo} : Upsert(s, inferred)
    BY <1>2
  <2>2. RowsOK'
    <3>1. CASE There(s)
      <4>1. /\ row[s].status \in {"none", "provisioning", "deploying"}
            /\ row[s].source \in {"none", "registered", "discovered"}
            /\ RepoAfter(row[s].repo, inferred) \in Repos \cup {NoRepo}
        BY <1>0 DEF RowsOK, RowType, RepoAfter
      <4>2. QED  BY <1>0, <2>1, <3>1, <4>1, UpdateFacts DEF Upsert
    <3>2. CASE ~There(s)
      <4>1. Insert(s, "discovered", inferred, "none")
        BY <2>1, <3>2 DEF Upsert
      <4>2. QED  BY <1>0, <3>2, <4>1, InsertFacts
    <3>3. QED  BY <3>1, <3>2
  <2>3. TasksOK' /\ Asked' /\ Rest'
    BY <1>0, <2>1, TypeFrame DEF Upsert
  <2>4. QED  BY <2>2, <2>3
<1>3. CASE \E t \in Readers : ReadProjects(t)
  <2>1. PICK t \in Readers : ReadProjects(t)
    BY <1>3
  <2>2. PICK listed \in SUBSET Slugs :
          held' = [held EXCEPT ![t] = {Ref(s) : s \in {u \in Slugs :
            There(u) /\ IF t = "sync" THEN row[u].repo # NoRepo ELSE u \in listed}}]
    BY <2>1 DEF ReadProjects
  <2>3. \A s \in Slugs : Ref(s) \in RefType /\ Ref(s).repo = row[s].repo /\ row[s].repo \in Repos \cup {NoRepo}
    BY <1>0, RefTyped DEF Ref, RowsOK, RowType
  <2>4. passes' \in 0..MaxPasses
    BY <1>0, <2>1 DEF ReadProjects, TasksOK
  <2>5. held' \in [Readers -> SUBSET RefType]
    BY <1>0, <2>2, <2>3 DEF TasksOK
  <2>6. \A p \in held'["sync"] : p.repo \in Repos
    <3>1. CASE t = "sync"
      <4>1. held'["sync"] = {Ref(s) : s \in {u \in Slugs : There(u) /\ row[u].repo # NoRepo}}
        BY <1>0, <2>2, <3>1 DEF TasksOK
      <4>2. QED  BY <2>3, <4>1
    <3>2. CASE t # "sync"
      BY <1>0, <2>2, <3>2 DEF TasksOK, Asked
    <3>3. QED  BY <3>1, <3>2
  <2>7. TasksOK' /\ Asked'
    BY <1>0, <2>1, <2>4, <2>5, <2>6 DEF ReadProjects, TasksOK, Asked
  <2>8. RowsOK' /\ Rest'
    BY <1>0, <2>1, TypeFrame DEF ReadProjects
  <2>9. QED  BY <2>7, <2>8
<1>4. CASE \E p \in held["sync"], listed \in BOOLEAN : SyncBuilds(p, listed)
  <2>1. PICK p \in held["sync"], listed \in BOOLEAN : SyncBuilds(p, listed)
    BY <1>4
  <2>2. builds' \in [Ids -> SUBSET Repos]
    <3>1. WithRuns(p.id, p.repo) \in [Ids -> SUBSET Repos]
      BY <1>0, RunsTyped DEF Asked, TypeInv
    <3>2. QED  BY <1>0, <2>1, <3>1 DEF SyncBuilds
  <2>3. TasksOK' /\ Asked'
    BY <1>0, <2>1 DEF SyncBuilds, TasksOK, Asked
  <2>4. strays' \subseteq (0..MaxBorn) \X Repos
    <3>1. Straying(p) \subseteq (0..MaxBorn) \X Repos
      BY <1>0, StraysTyped DEF Asked
    <3>2. QED  BY <1>0, <2>1, <3>1 DEF SyncBuilds
  <2>5. QED  BY <1>0, <2>1, <2>2, <2>3, <2>4, TypeFrame DEF SyncBuilds
<1>5. CASE \E p \in held["logs"] : CollectLines(p)
  <2>1. PICK p \in held["logs"] : CollectLines(p)
    BY <1>5
  <2>2. p.number \in 0..MaxBorn
    BY <1>0 DEF TasksOK, RefType
  <2>3. lines' \in [Ids -> SUBSET (0..MaxBorn)]
    BY <1>0, <2>1, <2>2 DEF CollectLines
  <2>4. TasksOK' /\ Asked'
    BY <1>0, <2>1 DEF CollectLines, TasksOK, Asked
  <2>5. late' \subseteq (Ids \cup {0}) \X (0..MaxBorn)
    <3>1. <<p.id, p.number>> \in (Ids \cup {0}) \X (0..MaxBorn)
      BY <1>0 DEF TasksOK, RefType
    <3>2. QED  BY <1>0, <2>1, <3>1 DEF CollectLines
  <2>6. QED  BY <1>0, <2>1, <2>3, <2>4, <2>5, TypeFrame DEF CollectLines
<1>6. CASE \E r \in Requests, s \in Slugs : Provision(r, s)
  <2>1. PICK r \in Requests, s \in Slugs : Provision(r, s)
    BY <1>6
  <2>2. row[s].repo \in Repos
    BY <1>0, <2>1 DEF Provision, RowsOK, RowType
  <2>3. TasksOK' /\ Asked'
    BY <2>1, <2>2, BeginTyped DEF Provision
  <2>4. QED  BY <1>0, <2>1, <2>3, TypeFrame DEF Provision
<1>7. CASE \E r \in Requests : CommitFails(r)
  <2>1. PICK r \in Requests : CommitFails(r)
    BY <1>7
  <2>2. TasksOK' /\ Asked'
    BY <2>1, EndsTyped DEF CommitFails
  <2>3. QED  BY <1>0, <2>1, <2>2, TypeFrame DEF CommitFails
<1>8. CASE \E r \in Requests : Commit(r)
  <2>1. PICK r \in Requests : Commit(r)
    BY <1>8
  <2>2. req[r].op = "provision" /\ req[r].of.slug \in Slugs
    BY <1>0, <2>1 DEF Commit, Asked
  <2>3. TasksOK' /\ Asked'
    BY <2>1, <2>2, MovesTyped DEF Commit
  <2>4. RowsOK'
    BY <1>0, <2>1, <2>2, StatusFacts DEF Commit
  <2>5. QED  BY <1>0, <2>1, <2>3, <2>4 DEF Commit
<1>9. CASE \E r \in Requests, w \in Watchers : Spawn(r, w)
  <2>1. PICK r \in Requests, w \in Watchers : Spawn(r, w)
    BY <1>9
  <2>2. /\ req[r].of.slug \in Slugs /\ req[r].of.repo \in Repos /\ req[r].of \in RefType
    BY <1>0, <2>1 DEF Spawn, Asked, TasksOK
  <2>3. /\ watch' \in [Watchers -> [pc : {"idle", "start", "poll", "clear"}, of : RefType, polls : 0..MaxPolls]]
        /\ watch'[w] = [pc |-> "start", of |-> req[r].of, polls |-> 0]
        /\ \A v \in Watchers \ {w} : watch'[v] = watch[v]
    BY <1>0, <2>1, <2>2 DEF Spawn, TasksOK
  <2>4. /\ req' \in [Requests -> [op : {"idle", "provision", "delete"},
                pc : {"idle", "commit", "spawn", "teardown", "logs", "row"}, of : RefType]]
        /\ req'[r] = Idle
        /\ \A q \in Requests \ {r} : req'[q] = req[q]
    BY <1>0, <2>1, Blank DEF Spawn, Ends, Idle, TasksOK
  <2> DEFINE of == req[r].of
  <2>a. watch'[w].pc = "start" /\ watch'[w].of = of
    BY <2>3
  <2>b. of.slug \in Slugs /\ of.repo \in Repos
    BY <2>2
  <2> HIDE DEF of
  <2>5. TasksOK'
    <3>1. \A v \in Watchers : watch'[v].pc = "poll" => watch'[v].polls < MaxPolls
      BY <1>0, <2>3, <2>a DEF TasksOK
    <3>2. QED  BY <1>0, <2>1, <2>3, <2>4, <3>1 DEF Spawn, TasksOK
  <2>6. Asked'
    <3>1. \A q \in Requests :
            /\ req'[q].pc # "idle" => req'[q].of.slug \in Slugs
            /\ req'[q].op = "provision" <=> req'[q].pc \in {"commit", "spawn"}
            /\ req'[q].op = "provision" => req'[q].of.repo \in Repos
      BY <1>0, <2>4 DEF Asked, Idle
    <3>2. \A v \in Watchers : watch'[v].pc # "idle" => watch'[v].of.slug \in Slugs /\ watch'[v].of.repo \in Repos
      BY <1>0, <2>3, <2>a, <2>b DEF Asked
    <3>3. QED  BY <1>0, <2>1, <3>1, <3>2 DEF Spawn, Asked
  <2>7. QED  BY <1>0, <2>1, <2>5, <2>6, TypeFrame DEF Spawn
<1>10. CASE \E w \in Watchers : FindRow(w)
  <2>1. PICK w \in Watchers : FindRow(w)
    BY <1>10
  <2> DEFINE s == watch[w].of.slug
             new == IF There(s)
               THEN [pc |-> "poll", polls |-> 0,
                     of |-> [slug |-> s, id |-> row[s].id, number |-> row[s].number, repo |-> watch[w].of.repo]]
               ELSE Free
  <2>2. s \in Slugs /\ watch[w].of.repo \in Repos
    BY <1>0, <2>1 DEF FindRow, Asked
  <2>3. row[s] \in RowType
    BY <1>0, <2>2 DEF RowsOK
  <2>4. /\ new \in [pc : {"idle", "start", "poll", "clear"}, of : RefType, polls : 0..MaxPolls]
        /\ new.pc = "poll" => new.polls < MaxPolls
        /\ new.pc # "idle" => new.of.slug \in Slugs /\ new.of.repo \in Repos
    BY <2>2, <2>3, Blank DEF Free, RefType, RowType
  <2>5. watch' = [watch EXCEPT ![w] = new]
    BY <2>1 DEF FindRow
  <2> HIDE DEF new
  <2>6. TasksOK' /\ Asked'
    BY <2>1, <2>4, <2>5, WatchTyped DEF FindRow
  <2>7. QED  BY <1>0, <2>1, <2>6, TypeFrame DEF FindRow
<1>11. CASE \E w \in Watchers, listed, done \in BOOLEAN : Poll(w, listed, done)
  <2>1. PICK w \in Watchers, listed \in BOOLEAN, done \in BOOLEAN : Poll(w, listed, done)
    BY <1>11
  <2> DEFINE new == Polled(w, done)
  <2>2. /\ watch[w].of \in RefType /\ watch[w].of.slug \in Slugs /\ watch[w].of.repo \in Repos
        /\ watch[w].polls \in 0..MaxPolls /\ watch[w].polls < MaxPolls
    BY <1>0, <2>1 DEF Poll, Asked, TasksOK
  <2>3. /\ new \in [pc : {"idle", "start", "poll", "clear"}, of : RefType, polls : 0..MaxPolls]
        /\ new.pc = "poll" => new.polls < MaxPolls
        /\ new.pc # "idle" => new.of.slug \in Slugs /\ new.of.repo \in Repos
    BY <2>2 DEF Polled
  <2>4. builds' \in [Ids -> SUBSET Repos]
    <3>1. WithRuns(RunsGoTo(watch[w].of), watch[w].of.repo) \in [Ids -> SUBSET Repos]
      BY <1>0, <2>2, RunsTyped DEF TypeInv
    <3>2. QED  BY <1>0, <2>1, <3>1 DEF Poll
  <2>5. watch' = [watch EXCEPT ![w] = new]
    BY <2>1 DEF Poll
  <2> HIDE DEF new
  <2>6. TasksOK' /\ Asked'
    BY <2>1, <2>3, <2>5, WatchTyped DEF Poll
  <2>7. strays' \subseteq (0..MaxBorn) \X Repos
    <3>1. Straying(watch[w].of) \subseteq (0..MaxBorn) \X Repos
      BY <1>0, <2>2, StraysTyped
    <3>2. QED  BY <1>0, <2>1, <3>1 DEF Poll
  <2>8. QED  BY <1>0, <2>1, <2>4, <2>6, <2>7, TypeFrame DEF Poll
<1>12. CASE \E w \in Watchers : ClearStatus(w)
  <2>1. PICK w \in Watchers : ClearStatus(w)
    BY <1>12
  <2>2. watch[w].of.slug \in Slugs
    BY <1>0, <2>1 DEF ClearStatus, Asked
  <2>3. RowsOK'
    BY <1>0, <2>1, <2>2, StatusFacts DEF ClearStatus
  <2>4. /\ Free \in [pc : {"idle", "start", "poll", "clear"}, of : RefType, polls : 0..MaxPolls]
        /\ Free.pc = "idle"
    BY Blank DEF Free
  <2>5. TasksOK' /\ Asked'
    BY <2>1, <2>4, WatchTyped DEF ClearStatus
  <2>6. QED  BY <1>0, <2>1, <2>3, <2>5 DEF ClearStatus
<1>13. CASE \E r \in Requests, s \in Slugs : Delete(r, s)
  <2>1. PICK r \in Requests, s \in Slugs : Delete(r, s)
    BY <1>13
  <2>2. TasksOK' /\ Asked'
    BY <2>1, BeginTyped DEF Delete
  <2>3. QED  BY <1>0, <2>1, <2>2, TypeFrame DEF Delete
<1>14. CASE \E r \in Requests : Teardown(r)
  <2>1. PICK r \in Requests : Teardown(r)
    BY <1>14
  <2>2. req[r].op # "provision"
    BY <1>0, <2>1 DEF Teardown, Asked
  <2>3. TasksOK' /\ Asked'
    BY <2>1, <2>2, MovesTyped DEF Teardown
  <2>4. QED  BY <1>0, <2>1, <2>3, TypeFrame DEF Teardown
<1>15. CASE \E r \in Requests : DeleteLogs(r)
  <2>1. PICK r \in Requests : DeleteLogs(r)
    BY <1>15
  <2>2. req[r].op # "provision"
    BY <1>0, <2>1 DEF DeleteLogs, Asked
  <2>3. TasksOK' /\ Asked'
    BY <2>1, <2>2, MovesTyped DEF DeleteLogs
  <2>4. lines' \in [Ids -> SUBSET (0..MaxBorn)]
    BY <1>0, <2>1 DEF DeleteLogs
  <2>5. QED  BY <1>0, <2>1, <2>3, <2>4, TypeFrame DEF DeleteLogs
<1>16. CASE \E r \in Requests : DeleteRow(r)
  <2>1. PICK r \in Requests : DeleteRow(r)
    BY <1>16
  <2>2. req[r].of.slug \in Slugs
    BY <1>0, <2>1 DEF DeleteRow, Asked
  <2>3. RowsOK'
    BY <1>0, <2>1, <2>2, DropFacts DEF DeleteRow
  <2>4. TasksOK' /\ Asked'
    BY <2>1, EndsTyped DEF DeleteRow
  <2>5. late' \subseteq (Ids \cup {0}) \X (0..MaxBorn)
    <3> DEFINE s == req[r].of.slug
    <3>1. <<row[s].id, row[s].number>> \in (Ids \cup {0}) \X (0..MaxBorn)
      BY <1>0, <2>2 DEF RowsOK, RowType
    <3>2. QED  BY <1>0, <2>1, <3>1 DEF DeleteRow
  <2>6. Rest'
    BY <1>0, <2>1, <2>2, <2>5 DEF DeleteRow
  <2>7. QED  BY <2>3, <2>4, <2>6
<1>17. CASE \E r \in Requests : HangUp(r)
  <2>1. PICK r \in Requests : HangUp(r)
    BY <1>17
  <2>2. req[r].of.slug \in Slugs
    BY <1>0, <2>1 DEF HangUp, Asked
  <2>3. TasksOK' /\ Asked'
    BY <2>1, EndsTyped DEF HangUp
  <2>4. QED  BY <1>0, <2>1, <2>2, <2>3, TypeFrame DEF HangUp
<1>18. CASE Restart
  <2>1. abandoned' \in SUBSET Slugs
    BY <1>0, <1>18 DEF Restart, Asked
  <2>2. TasksOK' /\ Asked'
    BY <1>0, <1>18, Blank DEF Restart, TasksOK, Asked, Free, Idle
  <2>3. QED  BY <1>0, <1>18, <2>1, <2>2, TypeFrame DEF Restart
<1>19. CASE UNCHANGED vars
  BY <1>0, <1>19, TypeFrame DEF vars, tasks
<1>20. QED
  BY <1>1, <1>2, <1>3, <1>4, <1>5, <1>6, <1>7, <1>8, <1>9, <1>10, <1>11, <1>12, <1>13,
     <1>14, <1>15, <1>16, <1>17, <1>18, <1>19 DEF Next

\* The tables, the tasks and what they carry keep their types: what rows
\* discovery, the wizard and deletions write, and in what order.
THEOREM TypeCorrect == Spec => []TypeOK
<1>1. TypeInv /\ [Next]_vars => TypeInv'
  BY TypeStep
<1>2. Spec => []TypeInv
  BY TypeInit, <1>1, PTL DEF Spec
<1>3. TypeInv => TypeOK
  BY DEF TypeInv
<1>4. QED  BY <1>2, <1>3, PTL

-----------------------------------------------------------------------------
(* The user's link *)

LinkInv == \A s \in Slugs : row[s].source = "registered" => row[s].repo = linked[s] /\ linked[s] # NoRepo

LEMMA LinkStep == TypeInv /\ LinkInv /\ [Next]_vars => LinkInv'
<1> SUFFICES ASSUME TypeInv, LinkInv, [Next]_vars PROVE LinkInv'
  OBVIOUS
<1>0. RowsOK /\ linked \in [Slugs -> Repos \cup {NoRepo}]
  BY DEF TypeInv, TypeOK
<1>1. CASE \E s \in Slugs, repo \in Repos : Register(s, repo)
  <2>1. PICK s \in Slugs, repo \in Repos : Register(s, repo)
    BY <1>1
  <2>2. linked'[s] = repo /\ \A t \in Slugs \ {s} : linked'[t] = linked[t]
    BY <1>0, <2>1 DEF Register
  <2>3. row'[s].repo = repo /\ \A t \in Slugs \ {s} : row'[t] = row[t]
    <3>1. CASE There(s)
      <4>1. row[s].status \in {"none", "provisioning", "deploying"}
        BY <1>0 DEF RowsOK, RowType
      <4>2. QED  BY <1>0, <2>1, <3>1, <4>1, UpdateFacts DEF Register
    <3>2. CASE ~There(s)
      BY <1>0, <2>1, <3>2, InsertFacts DEF Register
    <3>3. QED  BY <3>1, <3>2
  <2>4. QED  BY <2>2, <2>3 DEF LinkInv
<1>2. CASE \E s \in Slugs, inferred \in Repos \cup {NoRepo} : Upsert(s, inferred)
  <2>1. PICK s \in Slugs, inferred \in Repos \cup {NoRepo} : Upsert(s, inferred)
    BY <1>2
  <2>2. linked' = linked
    BY <2>1 DEF Upsert
  <2>3. CASE There(s)
    <3>1. /\ row[s].status \in {"none", "provisioning", "deploying"}
          /\ row[s].source \in {"none", "registered", "discovered"}
          /\ RepoAfter(row[s].repo, inferred) \in Repos \cup {NoRepo}
      BY <1>0 DEF RowsOK, RowType, RepoAfter
    <3>2. /\ row'[s].source = row[s].source /\ row'[s].repo = RepoAfter(row[s].repo, inferred)
          /\ \A t \in Slugs \ {s} : row'[t] = row[t]
      BY <1>0, <2>1, <2>3, <3>1, UpdateFacts DEF Upsert
    <3>3. QED  BY <2>2, <3>2 DEF LinkInv, RepoAfter
  <2>4. CASE ~There(s)
    <3>1. Insert(s, "discovered", inferred, "none")
      BY <2>1, <2>4 DEF Upsert
    <3>2. row'[s].source = "discovered" /\ \A t \in Slugs \ {s} : row'[t] = row[t]
      BY <1>0, <2>4, <3>1, InsertFacts
    <3>3. QED  BY <2>2, <3>2 DEF LinkInv
  <2>5. QED  BY <2>3, <2>4
<1>3. CASE \E r \in Requests : Commit(r)
  <2>1. PICK r \in Requests : Commit(r)
    BY <1>3
  <2>2. req[r].of.slug \in Slugs
    BY <2>1 DEF Commit, TypeInv, Asked
  <2>3. \A t \in Slugs : row'[t].source = row[t].source /\ row'[t].repo = row[t].repo
    BY <1>0, <2>1, <2>2, StatusFacts DEF Commit
  <2>4. QED  BY <2>1, <2>3 DEF LinkInv, Commit
<1>4. CASE \E w \in Watchers : ClearStatus(w)
  <2>1. PICK w \in Watchers : ClearStatus(w)
    BY <1>4
  <2>2. watch[w].of.slug \in Slugs
    BY <2>1 DEF ClearStatus, TypeInv, Asked
  <2>3. \A t \in Slugs : row'[t].source = row[t].source /\ row'[t].repo = row[t].repo
    BY <1>0, <2>1, <2>2, StatusFacts DEF ClearStatus
  <2>4. QED  BY <2>1, <2>3 DEF LinkInv, ClearStatus
<1>5. CASE \E r \in Requests : DeleteRow(r)
  <2>1. PICK r \in Requests : DeleteRow(r)
    BY <1>5
  <2> DEFINE s == req[r].of.slug
  <2>2. s \in Slugs
    BY <2>1 DEF DeleteRow, TypeInv, Asked
  <2>3. row'[s] = NoRow /\ \A t \in Slugs \ {s} : row'[t] = row[t]
    BY <1>0, <2>1, <2>2, DropFacts DEF DeleteRow
  <2>4. \A t \in Slugs \ {s} : linked'[t] = linked[t]
    BY <1>0, <2>1 DEF DeleteRow
  <2>5. NoRow.source # "registered"
    BY DEF NoRow
  <2>6. QED  BY <2>3, <2>4, <2>5 DEF LinkInv
<1>6. CASE UNCHANGED <<row, linked>>
  BY <1>6 DEF LinkInv
<1>7. QED
  BY <1>1, <1>2, <1>3, <1>4, <1>5, <1>6
     DEF Next, vars, tasks, ReadProjects, SyncBuilds, CollectLines, Provision, CommitFails, Spawn, FindRow,
         Poll, Delete, Teardown, DeleteLogs, HangUp, Restart

\* However discovery passes, registrations, deletions and restarts fall, a
\* registered project keeps the repository its user linked last.
THEOREM LinkStands == Spec => []UserLinkWins
<1>1. Init => LinkInv
  BY DEF Init, LinkInv, NoRow
<1>2. (TypeInv /\ LinkInv) /\ [Next]_vars => (TypeInv /\ LinkInv)'
  BY TypeStep, LinkStep
<1>3. TypeInv /\ LinkInv => UserLinkWins
  BY DEF LinkInv, UserLinkWins
<1>4. QED  BY TypeInit, <1>1, <1>2, <1>3, PTL DEF Spec

-----------------------------------------------------------------------------
(* The deploy and its watcher *)

LEMMA WatchedStep == TypeInv /\ DeployingIsWatched /\ [Next]_vars => DeployingIsWatched'
<1> SUFFICES ASSUME TypeInv, DeployingIsWatched, [Next]_vars,
                    NEW s \in Slugs, row'[s].status = "deploying"
             PROVE  s \in abandoned' \/ Watched(s)'
  BY DEF DeployingIsWatched
<1>0. RowsOK /\ TasksOK /\ Asked
  BY DEF TypeInv, TypeOK
<1>a. row[s].status = "deploying" => s \in abandoned \/ Watched(s)
  BY DEF DeployingIsWatched
<1>1. CASE \E t \in Slugs, repo \in Repos : Register(t, repo)
  <2>1. PICK t \in Slugs, repo \in Repos : Register(t, repo)
    BY <1>1
  <2>2. row[s].status = "deploying"
    <3>1. CASE There(t)
      <4>1. row[t].status \in {"none", "provisioning", "deploying"}
        BY <1>0 DEF RowsOK, RowType
      <4>2. QED  BY <1>0, <2>1, <3>1, <4>1, UpdateFacts DEF Register
    <3>2. CASE ~There(t)
      BY <1>0, <2>1, <3>2, InsertFacts DEF Register
    <3>3. QED  BY <3>1, <3>2
  <2>3. QED  BY <1>a, <2>1, <2>2 DEF Register, tasks, Watched
<1>2. CASE \E t \in Slugs, inferred \in Repos \cup {NoRepo} : Upsert(t, inferred)
  <2>1. PICK t \in Slugs, inferred \in Repos \cup {NoRepo} : Upsert(t, inferred)
    BY <1>2
  <2>2. row[s].status = "deploying"
    <3>1. CASE There(t)
      <4>1. /\ row[t].status \in {"none", "provisioning", "deploying"}
            /\ row[t].source \in {"none", "registered", "discovered"}
            /\ RepoAfter(row[t].repo, inferred) \in Repos \cup {NoRepo}
        BY <1>0 DEF RowsOK, RowType, RepoAfter
      <4>2. QED  BY <1>0, <2>1, <3>1, <4>1, UpdateFacts DEF Upsert
    <3>2. CASE ~There(t)
      <4>1. Insert(t, "discovered", inferred, "none")
        BY <2>1, <3>2 DEF Upsert
      <4>2. QED  BY <1>0, <3>2, <4>1, InsertFacts
    <3>3. QED  BY <3>1, <3>2
  <2>3. QED  BY <1>a, <2>1, <2>2 DEF Upsert, tasks, Watched
<1>3. CASE \E r \in Requests, t \in Slugs : Provision(r, t) \/ Delete(r, t)
  <2>1. PICK r \in Requests, t \in Slugs : Provision(r, t) \/ Delete(r, t)
    BY <1>3
  <2>2. req[r].pc = "idle" /\ \A q \in Requests \ {r} : req'[q] = req[q]
    BY <1>0, <2>1 DEF Provision, Delete, Begin, TasksOK
  <2>3. UNCHANGED <<row, watch, abandoned>>
    BY <2>1 DEF Provision, Delete
  <2>4. QED  BY <1>a, <2>2, <2>3 DEF Watched
<1>4. CASE \E r \in Requests : CommitFails(r) \/ Teardown(r) \/ DeleteLogs(r)
  <2>1. PICK r \in Requests : CommitFails(r) \/ Teardown(r) \/ DeleteLogs(r)
    BY <1>4
  <2>2. req[r].pc # "spawn" /\ \A q \in Requests \ {r} : req'[q] = req[q]
    BY <1>0, <2>1 DEF CommitFails, Teardown, DeleteLogs, Ends, Moves, TasksOK
  <2>3. UNCHANGED <<row, watch, abandoned>>
    BY <2>1 DEF CommitFails, Teardown, DeleteLogs
  <2>4. QED  BY <1>a, <2>2, <2>3 DEF Watched
<1>5. CASE \E r \in Requests : Commit(r)
  <2>1. PICK r \in Requests : Commit(r)
    BY <1>5
  <2>2. req[r].of.slug \in Slugs
    BY <1>0, <2>1 DEF Commit, Asked
  <2>3. /\ req'[r].pc = "spawn" /\ req'[r].of = req[r].of
        /\ \A q \in Requests \ {r} : req'[q] = req[q]
    BY <1>0, <2>1 DEF Commit, Moves, TasksOK
  <2>4. CASE s = req[r].of.slug
    BY <2>3, <2>4 DEF Watched
  <2>5. CASE s # req[r].of.slug
    <3>1. row'[s].status = row[s].status
      BY <1>0, <2>1, <2>2, <2>5, StatusFacts DEF Commit
    <3>2. abandoned' = abandoned \ {req[r].of.slug} /\ UNCHANGED watch
      BY <2>1 DEF Commit
    <3>3. QED  BY <1>a, <2>3, <2>5, <3>1, <3>2 DEF Watched
  <2>6. QED  BY <2>4, <2>5
<1>6. CASE \E r \in Requests, w \in Watchers : Spawn(r, w)
  <2>1. PICK r \in Requests, w \in Watchers : Spawn(r, w)
    BY <1>6
  <2>2. /\ watch'[w].pc = "start" /\ watch'[w].of = req[r].of /\ watch[w].pc = "idle"
        /\ \A v \in Watchers \ {w} : watch'[v] = watch[v]
        /\ \A q \in Requests \ {r} : req'[q] = req[q]
    BY <1>0, <2>1 DEF Spawn, Ends, TasksOK
  <2>3. UNCHANGED <<row, abandoned>>
    BY <2>1 DEF Spawn
  <2>4. QED  BY <1>a, <2>2, <2>3 DEF Watched
<1>7. CASE \E w \in Watchers : FindRow(w)
  <2>1. PICK w \in Watchers : FindRow(w)
    BY <1>7
  <2>2. UNCHANGED <<row, req, abandoned>> /\ \A v \in Watchers \ {w} : watch'[v] = watch[v]
    BY <1>0, <2>1 DEF FindRow, TasksOK
  <2>3. watch[w].of.slug = s => watch'[w].pc = "poll" /\ watch'[w].of.slug = s
    <3>1. There(s)
      BY <1>0, <2>2 DEF RowsOK, NoRow
    <3>2. QED  BY <1>0, <2>1, <3>1 DEF FindRow, TasksOK
  <2>4. QED  BY <1>a, <2>2, <2>3 DEF Watched
<1>8. CASE \E w \in Watchers, listed, done \in BOOLEAN : Poll(w, listed, done)
  <2>1. PICK w \in Watchers, listed \in BOOLEAN, done \in BOOLEAN : Poll(w, listed, done)
    BY <1>8
  <2>2. /\ UNCHANGED <<row, req, abandoned>>
        /\ watch'[w] = Polled(w, done)
        /\ \A v \in Watchers \ {w} : watch'[v] = watch[v]
    BY <1>0, <2>1 DEF Poll, TasksOK
  <2>3. watch'[w].pc # "idle" /\ watch'[w].of = watch[w].of
    BY <2>2 DEF Polled
  <2>4. QED  BY <1>a, <2>2, <2>3 DEF Watched
<1>9. CASE \E w \in Watchers : ClearStatus(w)
  <2>1. PICK w \in Watchers : ClearStatus(w)
    BY <1>9
  <2>2. watch[w].of.slug \in Slugs
    BY <1>0, <2>1 DEF ClearStatus, Asked
  <2>3. /\ UNCHANGED <<req, abandoned>>
        /\ \A v \in Watchers \ {w} : watch'[v] = watch[v]
    BY <1>0, <2>1 DEF ClearStatus, TasksOK
  <2>4. s # watch[w].of.slug /\ row[s].status = "deploying"
    BY <1>0, <2>1, <2>2, StatusFacts DEF ClearStatus, RowsOK, NoRow
  <2>5. QED  BY <1>a, <2>3, <2>4 DEF Watched
<1>10. CASE \E r \in Requests : DeleteRow(r)
  <2>1. PICK r \in Requests : DeleteRow(r)
    BY <1>10
  <2>2. req[r].of.slug \in Slugs /\ req[r].pc = "row"
    BY <1>0, <2>1 DEF DeleteRow, Asked
  <2>3. s # req[r].of.slug /\ row'[s] = row[s]
    <3>1. NoRow.status # "deploying"
      BY DEF NoRow
    <3>2. QED  BY <1>0, <2>1, <2>2, <3>1, DropFacts DEF DeleteRow
  <2>4. /\ abandoned' = abandoned \ {req[r].of.slug} /\ UNCHANGED watch
        /\ \A q \in Requests \ {r} : req'[q] = req[q]
    BY <1>0, <2>1 DEF DeleteRow, Ends, TasksOK
  <2>5. QED  BY <1>a, <2>2, <2>3, <2>4 DEF Watched
<1>11. CASE \E r \in Requests : HangUp(r)
  <2>1. PICK r \in Requests : HangUp(r)
    BY <1>11
  <2>2. UNCHANGED <<row, watch>> /\ \A q \in Requests \ {r} : req'[q] = req[q]
    BY <1>0, <2>1 DEF HangUp, Ends, TasksOK
  <2>3. /\ abandoned \subseteq abandoned'
        /\ req[r].pc = "spawn" => req[r].of.slug \in abandoned'
    BY <2>1 DEF HangUp
  <2>4. QED  BY <1>a, <2>2, <2>3 DEF Watched
<1>12. CASE Restart
  BY <1>12, <1>a DEF Restart, Watched
<1>13. CASE UNCHANGED <<row, watch, req, abandoned>>
  BY <1>13, <1>a DEF Watched
<1>14. QED
  BY <1>1, <1>2, <1>3, <1>4, <1>5, <1>6, <1>7, <1>8, <1>9, <1>10, <1>11, <1>12, <1>13
     DEF Next, vars, tasks, ReadProjects, SyncBuilds, CollectLines

\* A project said to be deploying has a watcher, or a request about to start
\* one, unless a restart or a hang-up took it away.
THEOREM DeployHasItsWatcher == Spec => []DeployingIsWatched
<1>1. Init => DeployingIsWatched
  BY DEF Init, DeployingIsWatched, NoRow
<1>2. (TypeInv /\ DeployingIsWatched) /\ [Next]_vars => (TypeInv /\ DeployingIsWatched)'
  BY TypeStep, WatchedStep
<1>3. QED  BY TypeInit, <1>1, <1>2, PTL DEF Spec

-----------------------------------------------------------------------------
(* Ids may be given again, the numbers of the history never are: a task    *)
(* that carries the number of a row that is there has its id.              *)

Known(p) ==
  /\ p.number <= born
  /\ \A s \in Slugs : There(s) /\ row[s].number = p.number => row[s].id = p.id

Counted ==
  /\ \A s \in Slugs : There(s) => row[s].number \in 1..born
  /\ \A s, t \in Slugs : There(s) /\ There(t) /\ row[s].number = row[t].number => s = t
  /\ \A t \in Readers : \A p \in held[t] : Known(p) /\ p.number # 0
  /\ \A w \in Watchers : Known(watch[w].of)
  /\ \A r \in Requests : Known(req[r].of)

LEMMA NobodyIsKnown == Counted /\ born \in Nat => Known(Nobody)
BY DEF Counted, Known, Nobody

\* What the table is known to hold of a row that is there.
LEMMA RefIsKnown ==
  ASSUME RowsOK, Counted, NEW s \in Slugs, There(s)
  PROVE  Known(Ref(s)) /\ Ref(s).number # 0 /\ Ref(s).number = row[s].number
BY DEF RowsOK, Counted, Known, Ref

\* Rows that keep ids and numbers, or go, leave what is known known.
LEMMA CountedRows ==
  ASSUME Counted, born' = born,
         \A s \in Slugs : (There(s)' => There(s)) /\
           (There(s)' => row'[s].id = row[s].id /\ row'[s].number = row[s].number)
  PROVE  /\ \A s \in Slugs : There(s)' => row'[s].number \in 1..born'
         /\ \A s, t \in Slugs : There(s)' /\ There(t)' /\ row'[s].number = row'[t].number => s = t
         /\ \A p : Known(p) => Known(p)'
BY DEF Counted, Known

LEMMA CountedTasks ==
  ASSUME Counted, UNCHANGED <<row, born>>,
         \A t \in Readers : \A p \in held'[t] :
           p \in held[t] \/ (Known(p) /\ p.number # 0),
         \A w \in Watchers : Known(watch'[w].of),
         \A r \in Requests : Known(req'[r].of)
  PROVE  Counted'
<1>1. \A p : Known(p)' <=> Known(p)
  BY DEF Known, There
<1>2. QED  BY <1>1 DEF Counted, There

LEMMA CountedUpdate ==
  ASSUME Counted, UNCHANGED <<held, watch, req>>, born' = born,
         \A s \in Slugs : row'[s].id = row[s].id /\ row'[s].number = row[s].number
  PROVE  Counted'
<1>1. \A s \in Slugs : There(s)' <=> There(s)
  BY DEF There
<1>2. QED  BY <1>1, CountedRows DEF Counted

LEMMA CountedInsert ==
  ASSUME TypeInv, Counted, NEW s \in Slugs, ~There(s),
         row'[s].number = born + 1 /\ born' = born + 1,
         \A t \in Slugs \ {s} : row'[t] = row[t],
         UNCHANGED tasks
  PROVE  Counted'
<1>1. born \in Nat
  BY DEF TypeInv, TypeOK, RowsOK
<1>2. \A t \in Slugs \ {s} : There(t)' <=> There(t)
  BY DEF There
<1>3. \A t \in Slugs : There(t)' => row'[t].number \in 1..born'
  BY <1>1, <1>2 DEF Counted
<1>4. \A t, u \in Slugs : There(t)' /\ There(u)' /\ row'[t].number = row'[u].number => t = u
  BY <1>1, <1>2 DEF Counted
<1>5. ASSUME NEW p, Known(p), p.number \in Nat PROVE Known(p)'
  BY <1>1, <1>2, <1>5 DEF Known
<1>6. /\ \A t \in Readers : \A p \in held[t] : p.number \in Nat
      /\ \A w \in Watchers : watch[w].of.number \in Nat
      /\ \A r \in Requests : req[r].of.number \in Nat
  BY DEF TypeInv, TypeOK, TasksOK, RefType
<1>7. /\ \A t \in Readers : \A p \in held[t] : Known(p)' /\ p.number # 0
      /\ \A w \in Watchers : Known(watch[w].of)'
      /\ \A r \in Requests : Known(req[r].of)'
  BY <1>5, <1>6 DEF Counted, Known, tasks
<1>8. QED  BY <1>3, <1>4, <1>7 DEF Counted, tasks

LEMMA CountedStep == TypeInv /\ Counted /\ [Next]_vars => Counted'
<1> SUFFICES ASSUME TypeInv, Counted, [Next]_vars PROVE Counted'
  OBVIOUS
<1>0. RowsOK /\ TasksOK /\ Asked /\ born \in Nat
  BY DEF TypeInv, TypeOK, RowsOK
<1>a. /\ Known(Nobody)
      /\ \A r \in Requests : Known(req[r].of)
      /\ \A w \in Watchers : Known(watch[w].of)
      /\ Idle.of = Nobody /\ Free.of = Nobody
  BY <1>0, NobodyIsKnown DEF Counted, Idle, Free
<1>1. CASE \E s \in Slugs, repo \in Repos : Register(s, repo)
  <2>1. PICK s \in Slugs, repo \in Repos : Register(s, repo)
    BY <1>1
  <2>2. CASE There(s)
    <3>1. row[s].status \in {"none", "provisioning", "deploying"}
      BY <1>0 DEF RowsOK, RowType
    <3>2. /\ row'[s].id = row[s].id /\ row'[s].number = row[s].number /\ born' = born
          /\ \A t \in Slugs \ {s} : row'[t] = row[t]
      BY <1>0, <2>1, <2>2, <3>1, UpdateFacts DEF Register
    <3>3. QED  BY <2>1, <3>2, CountedUpdate DEF Register, tasks
  <2>3. CASE ~There(s)
    BY <1>0, <2>1, <2>3, InsertFacts, CountedInsert DEF Register
  <2>4. QED  BY <2>2, <2>3
<1>2. CASE \E s \in Slugs, inferred \in Repos \cup {NoRepo} : Upsert(s, inferred)
  <2>1. PICK s \in Slugs, inferred \in Repos \cup {NoRepo} : Upsert(s, inferred)
    BY <1>2
  <2>2. CASE There(s)
    <3>1. /\ row[s].status \in {"none", "provisioning", "deploying"}
          /\ row[s].source \in {"none", "registered", "discovered"}
          /\ RepoAfter(row[s].repo, inferred) \in Repos \cup {NoRepo}
      BY <1>0 DEF RowsOK, RowType, RepoAfter
    <3>2. /\ row'[s].id = row[s].id /\ row'[s].number = row[s].number /\ born' = born
          /\ \A t \in Slugs \ {s} : row'[t] = row[t]
      BY <1>0, <2>1, <2>2, <3>1, UpdateFacts DEF Upsert
    <3>3. QED  BY <2>1, <3>2, CountedUpdate DEF Upsert, tasks
  <2>3. CASE ~There(s)
    <3>1. Insert(s, "discovered", inferred, "none")
      BY <2>1, <2>3 DEF Upsert
    <3>2. QED  BY <1>0, <2>1, <2>3, <3>1, InsertFacts, CountedInsert DEF Upsert
  <2>4. QED  BY <2>2, <2>3
<1>3. CASE \E t \in Readers : ReadProjects(t)
  <2>1. PICK t \in Readers : ReadProjects(t)
    BY <1>3
  <2>2. \A u \in Readers : \A p \in held'[u] : p \in held[u] \/ \E s \in Slugs : There(s) /\ p = Ref(s)
    BY <1>0, <2>1 DEF ReadProjects, TasksOK
  <2>3. \A s \in Slugs : There(s) => Known(Ref(s)) /\ Ref(s).number # 0
    BY <1>0, RefIsKnown
  <2>4. UNCHANGED <<row, born, watch, req>>
    BY <2>1 DEF ReadProjects
  <2>5. QED  BY <1>a, <2>2, <2>3, <2>4, CountedTasks
<1>4. CASE \E p \in held["sync"], listed \in BOOLEAN : SyncBuilds(p, listed)
  <2>1. PICK p \in held["sync"], listed \in BOOLEAN : SyncBuilds(p, listed)
    BY <1>4
  <2>2. \A u \in Readers : held'[u] \subseteq held[u]
    BY <1>0, <2>1 DEF SyncBuilds, TasksOK
  <2>3. QED  BY <1>a, <2>1, <2>2, CountedTasks DEF SyncBuilds
<1>5. CASE \E p \in held["logs"] : CollectLines(p)
  <2>1. PICK p \in held["logs"] : CollectLines(p)
    BY <1>5
  <2>2. \A u \in Readers : held'[u] \subseteq held[u]
    BY <1>0, <2>1 DEF CollectLines, TasksOK
  <2>3. QED  BY <1>a, <2>1, <2>2, CountedTasks DEF CollectLines
<1>6. CASE \E r \in Requests, s \in Slugs : Provision(r, s) \/ Delete(r, s)
  <2>1. PICK r \in Requests, s \in Slugs : Provision(r, s) \/ Delete(r, s)
    BY <1>6
  <2>2. \A q \in Requests : req'[q].of = req[q].of \/ req'[q].of = Ref(s)
    BY <1>0, <2>1 DEF Provision, Delete, Begin, TasksOK
  <2>3. Known(Ref(s))
    BY <1>0, <2>1, RefIsKnown DEF Provision, Delete, Begin
  <2>4. UNCHANGED <<row, held, watch, born>>
    BY <2>1 DEF Provision, Delete
  <2>5. QED  BY <1>a, <2>2, <2>3, <2>4, CountedTasks
<1>7. CASE \E r \in Requests : CommitFails(r) \/ Teardown(r) \/ HangUp(r) \/ DeleteLogs(r)
  <2>1. PICK r \in Requests : CommitFails(r) \/ Teardown(r) \/ HangUp(r) \/ DeleteLogs(r)
    BY <1>7
  <2>2. \A q \in Requests : req'[q].of = req[q].of \/ req'[q].of = Nobody
    BY <1>0, <2>1 DEF CommitFails, Teardown, HangUp, DeleteLogs, Ends, Moves, Idle, TasksOK
  <2>3. UNCHANGED <<row, held, watch, born>>
    BY <2>1 DEF CommitFails, Teardown, HangUp, DeleteLogs
  <2>4. QED  BY <1>a, <2>2, <2>3, CountedTasks
<1>8. CASE \E r \in Requests : Commit(r)
  <2>1. PICK r \in Requests : Commit(r)
    BY <1>8
  <2>2. req[r].of.slug \in Slugs
    BY <1>0, <2>1 DEF Commit, Asked
  <2>3. \A t \in Slugs : row'[t].id = row[t].id /\ row'[t].number = row[t].number
    BY <1>0, <2>1, <2>2, StatusFacts DEF Commit
  <2>4. \A q \in Requests : req'[q].of = req[q].of
    BY <1>0, <2>1 DEF Commit, Moves, TasksOK
  <2>5. UNCHANGED <<held, watch, born>>
    BY <2>1 DEF Commit
  <2>6. \A p : Known(p) => Known(p)'
    BY <2>3, <2>5, CountedRows DEF There
  <2>7. QED  BY <2>3, <2>4, <2>5, <2>6, CountedRows DEF Counted, There
<1>9. CASE \E r \in Requests, w \in Watchers : Spawn(r, w)
  <2>1. PICK r \in Requests, w \in Watchers : Spawn(r, w)
    BY <1>9
  <2>2. \A q \in Requests : req'[q].of = req[q].of \/ req'[q].of = Nobody
    BY <1>0, <2>1 DEF Spawn, Ends, Idle, TasksOK
  <2>3. \A v \in Watchers : watch'[v].of = watch[v].of \/ watch'[v].of = req[r].of
    BY <1>0, <2>1 DEF Spawn, TasksOK
  <2>4. UNCHANGED <<row, held, born>>
    BY <2>1 DEF Spawn
  <2>5. QED  BY <1>a, <2>2, <2>3, <2>4, CountedTasks
<1>10. CASE \E w \in Watchers : FindRow(w)
  <2>1. PICK w \in Watchers : FindRow(w)
    BY <1>10
  <2> DEFINE s == watch[w].of.slug
  <2>2. s \in Slugs
    BY <1>0, <2>1 DEF FindRow, Asked
  <2>3. \/ There(s) /\ watch'[w].of.id = row[s].id /\ watch'[w].of.number = row[s].number
        \/ watch'[w].of = Nobody
    BY <1>0, <2>1 DEF FindRow, TasksOK, Free
  <2>4. \A v \in Watchers \ {w} : watch'[v] = watch[v]
    BY <1>0, <2>1 DEF FindRow, TasksOK
  <2>5. Known(watch'[w].of)
    <3>1. There(s) => Known(Ref(s)) /\ Ref(s).number = row[s].number /\ Ref(s).id = row[s].id
      BY <1>0, <2>2, RefIsKnown DEF Ref
    <3>2. QED  BY <1>a, <2>3, <3>1 DEF Known
  <2>6. UNCHANGED <<row, held, req, born>>
    BY <2>1 DEF FindRow
  <2>7. QED  BY <1>a, <2>4, <2>5, <2>6, CountedTasks
<1>11. CASE \E w \in Watchers, listed, done \in BOOLEAN : Poll(w, listed, done)
  <2>1. PICK w \in Watchers, listed \in BOOLEAN, done \in BOOLEAN : Poll(w, listed, done)
    BY <1>11
  <2>2. \A v \in Watchers : watch'[v].of = watch[v].of
    BY <1>0, <2>1 DEF Poll, Polled, TasksOK
  <2>3. UNCHANGED <<row, held, req, born>>
    BY <2>1 DEF Poll
  <2>4. QED  BY <1>a, <2>2, <2>3, CountedTasks
<1>12. CASE \E w \in Watchers : ClearStatus(w)
  <2>1. PICK w \in Watchers : ClearStatus(w)
    BY <1>12
  <2>2. watch[w].of.slug \in Slugs
    BY <1>0, <2>1 DEF ClearStatus, Asked
  <2>3. \A t \in Slugs : row'[t].id = row[t].id /\ row'[t].number = row[t].number
    BY <1>0, <2>1, <2>2, StatusFacts DEF ClearStatus
  <2>4. \A v \in Watchers : watch'[v].of = watch[v].of \/ watch'[v].of = Nobody
    BY <1>0, <2>1 DEF ClearStatus, TasksOK, Free
  <2>5. UNCHANGED <<held, req, born>>
    BY <2>1 DEF ClearStatus
  <2>6. \A p : Known(p) => Known(p)'
    BY <2>3, <2>5, CountedRows DEF There
  <2>7. \A v \in Watchers : Known(watch[v].of)'
    BY <1>a, <2>4, <2>6 DEF Known
  <2>8. QED  BY <2>3, <2>5, <2>6, <2>7, CountedRows DEF Counted, There, Known
<1>13. CASE \E r \in Requests : DeleteRow(r)
  <2>1. PICK r \in Requests : DeleteRow(r)
    BY <1>13
  <2> DEFINE s == req[r].of.slug
  <2>2. s \in Slugs
    BY <1>0, <2>1 DEF DeleteRow, Asked
  <2>3. row'[s] = NoRow /\ NoRow.id = 0 /\ born' = born /\ \A t \in Slugs \ {s} : row'[t] = row[t]
    BY <1>0, <2>1, <2>2, DropFacts DEF DeleteRow, NoRow
  <2>4. \A t \in Slugs : /\ There(t)' => There(t)
                         /\ There(t)' => row'[t].id = row[t].id /\ row'[t].number = row[t].number
    BY <2>3 DEF There
  <2>5. \A q \in Requests : req'[q].of = req[q].of \/ req'[q].of = Nobody
    BY <1>0, <2>1 DEF DeleteRow, Ends, Idle, TasksOK
  <2>6. UNCHANGED <<held, watch>>
    BY <2>1 DEF DeleteRow
  <2>7. \A p : Known(p) => Known(p)'
    BY <2>3, <2>4, CountedRows
  <2>8. \A q \in Requests : Known(req[q].of)'
    BY <1>a, <2>5, <2>7 DEF Known
  <2>9. QED  BY <2>3, <2>4, <2>6, <2>7, <2>8, CountedRows DEF Counted, Known
<1>14. CASE Restart
  <2>1. /\ \A r \in Requests : req'[r].of = Nobody
        /\ \A w \in Watchers : watch'[w].of = Nobody
        /\ \A t \in Readers : held'[t] = {}
        /\ UNCHANGED <<row, born>>
    BY <1>14 DEF Restart, Idle, Free
  <2>2. QED  BY <1>a, <2>1, CountedTasks
<1>15. CASE UNCHANGED vars
  BY <1>15 DEF vars, tasks, Counted, Known, There
<1>16. QED
  BY <1>1, <1>2, <1>3, <1>4, <1>5, <1>6, <1>7, <1>8, <1>9, <1>10, <1>11, <1>12, <1>13, <1>14, <1>15 DEF Next

LEMMA CountedInit == Init => Counted
BY DEF Init, Counted, Known, There, NoRow, Free, Idle, Nobody

-----------------------------------------------------------------------------
(* Lines *)

\* Where lines of the row with a number, found under an id, may come from.
Traced(i, n) == <<i, n>> \in late \/ \E s \in Slugs : There(s) /\ row[s].id = i /\ row[s].number = n

\* Whose lines an id has, and that a deletion about to take the row has taken
\* its lines along.
Kept ==
  /\ \A i \in Ids : \A n \in lines[i] : Traced(i, n)
  /\ \A r \in Requests : 
       req[r].pc = "row" /\ req[r].of.id \in Ids /\ req[r].of.number \in lines[req[r].of.id]
         => <<req[r].of.id, req[r].of.number>> \in late

\* Steps that keep rows, or only add one, and touch neither lines nor deletions.
LEMMA KeptFrame ==
  ASSUME Kept, UNCHANGED <<lines, late>>,
         \A s \in Slugs : There(s) => There(s)' /\ row'[s].id = row[s].id /\ row'[s].number = row[s].number,
         \A r \in Requests : req'[r].pc = "row" => req'[r].of = req[r].of /\ req[r].pc = "row"
  PROVE  Kept'
<1>1. ASSUME NEW i, NEW n, Traced(i, n) PROVE Traced(i, n)'
  <2>1. CASE <<i, n>> \in late
    BY <2>1 DEF Traced
  <2>2. CASE \E s \in Slugs : There(s) /\ row[s].id = i /\ row[s].number = n
    <3>1. PICK s \in Slugs : There(s) /\ row[s].id = i /\ row[s].number = n
      BY <2>2
    <3>2. There(s)' /\ row'[s].id = i /\ row'[s].number = n
      BY <3>1
    <3>3. QED  BY <3>2 DEF Traced
  <2>3. QED  BY <1>1, <2>1, <2>2 DEF Traced
<1>2. \A i \in Ids : \A n \in lines'[i] : Traced(i, n)'
  BY <1>1 DEF Kept
<1>3. QED  BY <1>2 DEF Kept

LEMMA KeptStep == TypeInv /\ Counted /\ Kept /\ [Next]_vars => Kept'
<1> SUFFICES ASSUME TypeInv, Counted, Kept, [Next]_vars PROVE Kept'
  OBVIOUS
<1>0. /\ RowsOK /\ TasksOK /\ Asked
      /\ lines \in [Ids -> SUBSET (0..MaxBorn)]
      /\ Idle.pc = "idle" /\ Idle.op = "idle"
  BY DEF TypeInv, TypeOK, Idle
<1>1. CASE \/ \E s \in Slugs, repo \in Repos : Register(s, repo)
           \/ \E s \in Slugs, inferred \in Repos \cup {NoRepo} : Upsert(s, inferred)
  <2>1. PICK s \in Slugs : \/ \E repo \in Repos : Register(s, repo)
                           \/ \E inferred \in Repos \cup {NoRepo} : Upsert(s, inferred)
    BY <1>1
  <2>2. UNCHANGED <<lines, late, req>>
    BY <2>1 DEF Register, Upsert, tasks
  <2>3. \A t \in Slugs : There(t) => There(t)' /\ row'[t].id = row[t].id /\ row'[t].number = row[t].number
    <3>1. CASE There(s)
      <4>1. \E source, status, new : Update(s, source, new, status)
        BY <2>1, <3>1 DEF Register, Upsert
      <4>2. PICK source, status, new : Update(s, source, new, status)
        BY <4>1
      <4>3. row \in [Slugs -> RowType]
        BY <1>0 DEF RowsOK
      <4>4. row'[s].id = row[s].id /\ row'[s].number = row[s].number
            /\ \A t \in Slugs \ {s} : row'[t] = row[t]
        BY <4>2, <4>3 DEF Update
      <4>5. QED  BY <4>4 DEF There
    <3>2. CASE ~There(s)
      <4>1. PICK source, status, new : Insert(s, source, new, status)
        BY <2>1, <3>2 DEF Register, Upsert
      <4>2. \A t \in Slugs \ {s} : row'[t] = row[t]
        BY <1>0, <4>1 DEF Insert, RowsOK
      <4>3. QED  BY <3>2, <4>2 DEF There
    <3>3. QED  BY <3>1, <3>2
  <2>4. QED  BY <2>2, <2>3, KeptFrame
<1>2. CASE \/ \E t \in Readers : ReadProjects(t)
           \/ \E p \in held["sync"], listed \in BOOLEAN : SyncBuilds(p, listed)
           \/ \E w \in Watchers : FindRow(w)
           \/ \E w \in Watchers, listed, done \in BOOLEAN : Poll(w, listed, done)
  <2>1. UNCHANGED <<row, lines, req, late>>
    BY <1>2 DEF ReadProjects, SyncBuilds, FindRow, Poll
  <2>2. QED  BY <2>1, KeptFrame DEF There
<1>3. CASE \E p \in held["logs"] : CollectLines(p)
  <2>1. PICK p \in held["logs"] : CollectLines(p)
    BY <1>3
  <2>2. Known(p) /\ p.number # 0
    BY DEF Counted
  <2>3. UNCHANGED <<row, req>>
    BY <2>1 DEF CollectLines
  <2>4. \A i \in Ids : \A n \in lines'[i] : n \in lines[i] \/ (i = p.id /\ n = p.number)
    BY <1>0, <2>1 DEF CollectLines, LinesGoTo
  <2>5. late \subseteq late' /\ (Departed(p) => <<p.id, p.number>> \in late')
    BY <2>1 DEF CollectLines
  <2>6. ~Departed(p) => \E s \in Slugs : There(s) /\ row[s].id = p.id /\ row[s].number = p.number
    <3>1. SUFFICES ASSUME ~Departed(p)
                   PROVE  \E s \in Slugs : There(s) /\ row[s].id = p.id /\ row[s].number = p.number
      OBVIOUS
    <3>2. PICK s \in Slugs : row[s].number = p.number
      BY <3>1 DEF Departed
    <3>3. There(s)
      BY <1>0, <2>2, <3>2 DEF RowsOK, NoRow
    <3>4. QED  BY <2>2, <3>2, <3>3 DEF Known
  <2>7. ASSUME NEW i \in Ids, NEW n \in lines'[i] PROVE Traced(i, n)'
    <3>1. Traced(i, n) => Traced(i, n)'
      BY <2>3, <2>5 DEF Traced, There
    <3>2. CASE n \in lines[i]
      BY <3>1, <3>2 DEF Kept
    <3>3. CASE n \notin lines[i]
      <4>1. i = p.id /\ n = p.number
        BY <2>4, <2>7, <3>3
      <4>2. CASE Departed(p)
        BY <2>5, <4>1, <4>2 DEF Traced
      <4>3. CASE ~Departed(p)
        BY <2>6, <3>1, <4>1, <4>3 DEF Traced
      <4>4. QED  BY <4>2, <4>3
    <3>4. QED  BY <3>2, <3>3
  <2>8. ASSUME NEW r \in Requests, req[r].pc = "row", req[r].of.id \in Ids,
               req[r].of.number \in lines'[req[r].of.id]
        PROVE  <<req[r].of.id, req[r].of.number>> \in late'
    <3>1. CASE req[r].of.number = p.number
      <4>1. Departed(p)
        BY <2>8, <3>1 DEF Departed
      <4>2. QED  BY <2>4, <2>5, <2>8, <3>1, <4>1 DEF Kept
    <3>2. CASE req[r].of.number # p.number
      BY <2>4, <2>5, <2>8, <3>2 DEF Kept
    <3>3. QED  BY <3>1, <3>2
  <2>9. QED  BY <2>3, <2>7, <2>8 DEF Kept
<1>4. CASE \E r \in Requests : \/ \E s \in Slugs : Provision(r, s) \/ Delete(r, s)
                               \/ CommitFails(r) \/ HangUp(r) \/ Teardown(r)
                               \/ \E w \in Watchers : Spawn(r, w)
  <2>1. PICK r \in Requests : \/ \E s \in Slugs : Provision(r, s) \/ Delete(r, s)
                              \/ CommitFails(r) \/ HangUp(r) \/ Teardown(r)
                              \/ \E w \in Watchers : Spawn(r, w)
    BY <1>4
  <2>2. UNCHANGED <<row, lines, late>>
    BY <2>1 DEF Provision, Delete, CommitFails, HangUp, Teardown, Spawn
  <2>3. req'[r].pc # "row" /\ \A q \in Requests \ {r} : req'[q] = req[q]
    BY <1>0, <2>1 DEF Provision, Delete, CommitFails, HangUp, Teardown, Spawn, Begin, Moves, Ends, TasksOK
  <2>4. QED  BY <2>2, <2>3, KeptFrame DEF There
<1>5. CASE \/ \E r \in Requests : Commit(r)
           \/ \E w \in Watchers : ClearStatus(w)
  <2>1. PICK s \in Slugs, status \in {"none", "deploying"} : row' = StatusOf(s, status)
    BY <1>0, <1>5 DEF Commit, ClearStatus, Asked
  <2>2. UNCHANGED <<lines, late, born, past>>
    BY <1>5 DEF Commit, ClearStatus
  <2>3. \A t \in Slugs : row'[t].id = row[t].id /\ row'[t].number = row[t].number
    BY <1>0, <2>1, <2>2, StatusFacts
  <2>4. \A r \in Requests : req'[r].pc = "row" => req'[r] = req[r]
    BY <1>0, <1>5 DEF Commit, ClearStatus, Moves, TasksOK
  <2>5. QED  BY <2>2, <2>3, <2>4, KeptFrame DEF There
<1>6. CASE \E r \in Requests : DeleteLogs(r)
  <2>1. PICK r \in Requests : DeleteLogs(r)
    BY <1>6
  <2>2. /\ \A i \in Ids : lines'[i] \subseteq lines[i]
        /\ req[r].of.id \in Ids => lines'[req[r].of.id] = {}
    BY <1>0, <2>1 DEF DeleteLogs
  <2>3. req'[r].of = req[r].of /\ \A q \in Requests \ {r} : req'[q] = req[q]
    BY <1>0, <2>1 DEF DeleteLogs, Moves, TasksOK
  <2>4. UNCHANGED <<row, late>>
    BY <2>1 DEF DeleteLogs
  <2>5. QED  BY <2>2, <2>3, <2>4 DEF Kept, Traced, There
<1>7. CASE \E r \in Requests : DeleteRow(r)
  <2>1. PICK r \in Requests : DeleteRow(r)
    BY <1>7
  <2> DEFINE s == req[r].of.slug
  <2>2. s \in Slugs /\ req[r].pc = "row"
    BY <1>0, <2>1 DEF DeleteRow, Asked
  <2>3. row'[s] = NoRow /\ NoRow.id = 0 /\ \A t \in Slugs \ {s} : row'[t] = row[t]
    BY <1>0, <2>1, <2>2, DropFacts DEF DeleteRow, NoRow
  <2>4. /\ late \subseteq late' /\ lines' = lines
        /\ There(s) /\ row[s].number # req[r].of.number => <<row[s].id, row[s].number>> \in late'
    BY <2>1 DEF DeleteRow
  <2>5. req'[r].pc # "row" /\ \A q \in Requests \ {r} : req'[q] = req[q]
    BY <1>0, <2>1 DEF DeleteRow, Ends, TasksOK
  <2>6. ASSUME There(s), row[s].id \in Ids, row[s].number \in lines[row[s].id]
        PROVE  <<row[s].id, row[s].number>> \in late'
    <3>1. CASE row[s].number # req[r].of.number
      BY <2>4, <2>6, <3>1
    <3>2. CASE row[s].number = req[r].of.number
      <4>1. row[s].id = req[r].of.id
        BY <2>2, <2>6, <3>2 DEF Counted, Known
      <4>2. QED  BY <2>2, <2>4, <2>6, <3>2, <4>1 DEF Kept
    <3>3. QED  BY <3>1, <3>2
  <2>7. ASSUME NEW i \in Ids, NEW n \in lines[i] PROVE Traced(i, n)'
    <3>1. CASE <<i, n>> \in late'
      BY <3>1 DEF Traced
    <3>2. CASE <<i, n>> \notin late'
      <4>1. PICK t \in Slugs : There(t) /\ row[t].id = i /\ row[t].number = n
        BY <2>4, <3>2 DEF Kept, Traced
      <4>2. t # s
        BY <2>6, <3>2, <4>1
      <4>3. There(t)' /\ row'[t].id = i /\ row'[t].number = n
        BY <2>3, <4>1, <4>2 DEF There
      <4>4. QED  BY <4>3 DEF Traced
    <3>3. QED  BY <3>1, <3>2
  <2>8. QED  BY <2>4, <2>5, <2>7 DEF Kept
<1>8. CASE Restart
  <2>1. UNCHANGED <<row, lines, late>> /\ \A r \in Requests : req'[r].pc # "row"
    BY <1>0, <1>8 DEF Restart
  <2>2. QED  BY <2>1, KeptFrame DEF There
<1>9. CASE UNCHANGED vars
  BY <1>9 DEF vars, tasks, Kept, Traced, There
<1>10. QED
  BY <1>1, <1>2, <1>3, <1>4, <1>5, <1>6, <1>7, <1>8, <1>9 DEF Next

\* A project shows its own lines, or lines of an earlier row of its id that
\* came after they had been deleted, or whose row a still earlier deletion took.
THEOREM LinesReachTheirProject == Spec => []OwnLinesOnly
<1>1. Init => Kept
  BY DEF Init, Kept, Idle
<1>2. (TypeInv /\ Counted /\ Kept) /\ [Next]_vars => (TypeInv /\ Counted /\ Kept)'
  BY TypeStep, CountedStep, KeptStep
<1>3. TypeInv /\ Kept => OwnLinesOnly
  <2> SUFFICES ASSUME TypeInv, Kept, NEW s \in Slugs, There(s), NEW n \in lines[row[s].id], <<row[s].id, n>> \notin late
               PROVE  n = row[s].number
    BY DEF OwnLinesOnly
  <2>1. RowsOK /\ row[s].id \in Ids
    BY DEF TypeInv, TypeOK, RowsOK, RowType, There
  <2>2. PICK t \in Slugs : There(t) /\ row[t].id = row[s].id /\ row[t].number = n
    BY <2>1 DEF Kept, Traced
  <2>3. t = s
    BY <2>1, <2>2 DEF RowsOK
  <2>4. QED  BY <2>2, <2>3
<1>4. QED  BY TypeInit, CountedInit, <1>1, <1>2, <1>3, PTL DEF Spec

-----------------------------------------------------------------------------
(* Builds *)

\* What is on its way to a row's builds comes from a repository it has had.
Fed ==
  \A s \in Slugs \ crossed :
    /\ There(s) =>
         /\ row[s].repo \in past[s] \cup {NoRepo}
         /\ \A p \in held["sync"] : p.number = row[s].number => p.repo \in past[s]
         /\ \A w \in Watchers : watch[w].pc = "poll" /\ watch[w].of.number = row[s].number => watch[w].of.repo \in past[s]
    /\ \A r \in Requests : req[r].op = "provision" /\ req[r].of.slug = s => There(s) /\ req[r].of.repo \in past[s]
    /\ \A w \in Watchers : watch[w].pc = "start" /\ watch[w].of.slug = s => There(s) /\ watch[w].of.repo \in past[s]

\* A step that keeps rows and histories, and sends nothing new, feeds nothing.
LEMMA FedFrame ==
  ASSUME Fed,
         \A s \in Slugs : row'[s].number = row[s].number /\ There(s)' = There(s) /\ row'[s].repo = row[s].repo,
         past' = past, crossed' = crossed,
         held'["sync"] \subseteq held["sync"],
         \A w \in Watchers : watch'[w].pc \in {"poll", "start"} =>
           watch'[w].pc = watch[w].pc /\ watch'[w].of = watch[w].of,
         \A r \in Requests : req'[r].op = "provision" => req'[r].op = req[r].op /\ req'[r].of = req[r].of
  PROVE  Fed'
<1> SUFFICES ASSUME NEW s \in Slugs \ crossed
             PROVE  /\ There(s) =>
                         /\ row'[s].repo \in past[s] \cup {NoRepo}
                         /\ \A p \in held'["sync"] : p.number = row'[s].number => p.repo \in past[s]
                         /\ \A w \in Watchers : watch'[w].pc = "poll" /\ watch'[w].of.number = row'[s].number
                              => watch'[w].of.repo \in past[s]
                    /\ \A r \in Requests : req'[r].op = "provision" /\ req'[r].of.slug = s
                         => There(s) /\ req'[r].of.repo \in past[s]
                    /\ \A w \in Watchers : watch'[w].pc = "start" /\ watch'[w].of.slug = s
                         => There(s) /\ watch'[w].of.repo \in past[s]
  BY DEF Fed, There
<1>1. row'[s].number = row[s].number /\ There(s)' = There(s) /\ row'[s].repo = row[s].repo
  OBVIOUS
<1>2. QED  BY <1>1 DEF Fed

\* A row whose past only grows stays fed.
LEMMA FedUpdate ==
  ASSUME Fed, NEW s \in Slugs, row'[s].number = row[s].number, There(s)' = There(s), row'[s].repo \in past'[s] \cup {NoRepo},
         past[s] \subseteq past'[s],
         \A t \in Slugs \ {s} : row'[t] = row[t] /\ past'[t] = past[t],
         UNCHANGED <<tasks, crossed>>
  PROVE  Fed'
<1> SUFFICES ASSUME NEW t \in Slugs \ crossed
             PROVE  /\ There(t)' =>
                         /\ row'[t].repo \in past'[t] \cup {NoRepo}
                         /\ \A p \in held["sync"] : p.number = row'[t].number => p.repo \in past'[t]
                         /\ \A w \in Watchers : watch[w].pc = "poll" /\ watch[w].of.number = row'[t].number
                              => watch[w].of.repo \in past'[t]
                    /\ \A r \in Requests : req[r].op = "provision" /\ req[r].of.slug = t
                         => There(t)' /\ req[r].of.repo \in past'[t]
                    /\ \A w \in Watchers : watch[w].pc = "start" /\ watch[w].of.slug = t
                         => There(t)' /\ watch[w].of.repo \in past'[t]
  BY DEF Fed, tasks
<1>1. row'[t].number = row[t].number /\ (There(t)' <=> There(t)) /\ past[t] \subseteq past'[t]
  BY DEF There
<1>2. row'[t].repo \in past'[t] \cup {NoRepo} \/ t # s
  OBVIOUS
<1>3. QED  BY <1>1, <1>2 DEF Fed

\* Nothing is on its way to a row just born.
LEMMA FedInsert ==
  ASSUME TypeInv, Counted, Fed, NEW s \in Slugs, ~There(s),
         row'[s].number = born + 1,
         row'[s].repo \in past'[s] \cup {NoRepo},
         \A t \in Slugs \ {s} : row'[t] = row[t] /\ past'[t] = past[t],
         UNCHANGED <<tasks, crossed>>
  PROVE  Fed'
<1>0. born \in Nat /\ TasksOK
  BY DEF TypeInv, TypeOK, RowsOK
<1>3. /\ \A p \in held["sync"] : p.number # born + 1
      /\ \A w \in Watchers : watch[w].of.number # born + 1
  <2>1. /\ \A p \in held["sync"] : p.number \in Nat /\ p.number <= born
        /\ \A w \in Watchers : watch[w].of.number \in Nat /\ watch[w].of.number <= born
    BY DEF Counted, Known, TypeInv, TypeOK, TasksOK, RefType
  <2>2. QED  BY <1>0, <2>1
<1>4. SUFFICES ASSUME NEW t \in Slugs \ crossed
             PROVE  /\ There(t)' =>
                         /\ row'[t].repo \in past'[t] \cup {NoRepo}
                         /\ \A p \in held["sync"] : p.number = row'[t].number => p.repo \in past'[t]
                         /\ \A w \in Watchers : watch[w].pc = "poll" /\ watch[w].of.number = row'[t].number
                              => watch[w].of.repo \in past'[t]
                    /\ \A r \in Requests : req[r].op = "provision" /\ req[r].of.slug = t
                         => There(t)' /\ req[r].of.repo \in past'[t]
                    /\ \A w \in Watchers : watch[w].pc = "start" /\ watch[w].of.slug = t
                         => There(t)' /\ watch[w].of.repo \in past'[t]
  BY DEF Fed, tasks
<1>5. CASE t = s
  <2>1. /\ \A r \in Requests : ~(req[r].op = "provision" /\ req[r].of.slug = t)
        /\ \A w \in Watchers : ~(watch[w].pc = "start" /\ watch[w].of.slug = t)
    BY <1>5 DEF Fed
  <2>2. QED  BY <1>3, <1>5, <2>1
<1>6. CASE t # s
  BY <1>6 DEF Fed, There
<1>7. QED  BY <1>5, <1>6

LEMMA FedStep == TypeInv /\ Counted /\ Fed /\ [Next]_vars => Fed'
<1> SUFFICES ASSUME TypeInv, Counted, Fed, [Next]_vars PROVE Fed'
  OBVIOUS
<1>0. RowsOK /\ TasksOK /\ Asked
  BY DEF TypeInv, TypeOK
<1>a. Free.pc = "idle" /\ Idle.op = "idle"
  BY DEF Free, Idle
<1>1. CASE \E s \in Slugs, repo \in Repos : Register(s, repo)
  <2>1. PICK s \in Slugs, repo \in Repos : Register(s, repo)
    BY <1>1
  <2>2. UNCHANGED <<tasks, crossed>>
    BY <2>1 DEF Register
  <2>3. CASE There(s)
    <3>1. row[s].status \in {"none", "provisioning", "deploying"}
      BY <1>0 DEF RowsOK, RowType
    <3>2. /\ row'[s].number = row[s].number /\ There(s)' = There(s) /\ row'[s].repo = repo
          /\ past'[s] = past[s] \cup ({repo} \ {NoRepo})
          /\ \A t \in Slugs \ {s} : row'[t] = row[t] /\ past'[t] = past[t]
      BY <1>0, <2>1, <2>3, <3>1, UpdateFacts DEF Register, There
    <3>3. QED  BY <2>2, <3>2, FedUpdate
  <2>4. CASE ~There(s)
    <3>1. /\ row'[s].number = born + 1 /\ row'[s].repo = repo
          /\ past'[s] = {repo} \ {NoRepo}
          /\ \A t \in Slugs \ {s} : row'[t] = row[t] /\ past'[t] = past[t]
      BY <1>0, <2>1, <2>4, InsertFacts DEF Register
    <3>2. QED  BY <2>2, <2>4, <3>1, FedInsert
  <2>5. QED  BY <2>3, <2>4
<1>2. CASE \E s \in Slugs, inferred \in Repos \cup {NoRepo} : Upsert(s, inferred)
  <2>1. PICK s \in Slugs, inferred \in Repos \cup {NoRepo} : Upsert(s, inferred)
    BY <1>2
  <2>2. UNCHANGED <<tasks, crossed>>
    BY <2>1 DEF Upsert
  <2>3. CASE There(s)
    <3> DEFINE repo == RepoAfter(row[s].repo, inferred)
    <3>1. /\ row[s].status \in {"none", "provisioning", "deploying"}
          /\ row[s].source \in {"none", "registered", "discovered"}
          /\ repo \in Repos \cup {NoRepo}
      BY <1>0 DEF RowsOK, RowType, RepoAfter
    <3>2. Update(s, row[s].source, repo, row[s].status)
      BY <2>1, <2>3 DEF Upsert
    <3> HIDE DEF repo
    <3>3. /\ row'[s].number = row[s].number /\ There(s)' = There(s) /\ row'[s].repo = repo
          /\ past'[s] = past[s] \cup ({repo} \ {NoRepo})
          /\ \A t \in Slugs \ {s} : row'[t] = row[t] /\ past'[t] = past[t]
      BY <1>0, <2>3, <3>1, <3>2, UpdateFacts DEF There
    <3>4. QED  BY <2>2, <3>3, FedUpdate
  <2>4. CASE ~There(s)
    <3>1. Insert(s, "discovered", inferred, "none")
      BY <2>1, <2>4 DEF Upsert
    <3>2. /\ row'[s].number = born + 1 /\ row'[s].repo = inferred
          /\ past'[s] = {inferred} \ {NoRepo}
          /\ \A t \in Slugs \ {s} : row'[t] = row[t] /\ past'[t] = past[t]
      BY <1>0, <2>4, <3>1, InsertFacts
    <3>3. QED  BY <2>2, <2>4, <3>2, FedInsert
  <2>5. QED  BY <2>3, <2>4
<1>3. CASE \E t \in Readers : ReadProjects(t)
  <2>1. PICK t \in Readers : ReadProjects(t)
    BY <1>3
  <2>2. \A p \in held'["sync"] : p \in held["sync"] \/ \E s \in Slugs : There(s) /\ row[s].repo # NoRepo /\ p = Ref(s)
    <3>1. CASE t = "sync"
      BY <1>0, <2>1, <3>1 DEF ReadProjects, TasksOK
    <3>2. CASE t # "sync"
      BY <1>0, <2>1, <3>2 DEF ReadProjects, TasksOK
    <3>3. QED  BY <3>1, <3>2
  <2>3. UNCHANGED <<row, watch, req, past, crossed>>
    BY <2>1 DEF ReadProjects
  <2>4. \A s \in Slugs \ crossed : There(s) =>
          \A p \in held'["sync"] : p.number = row[s].number => p.repo \in past[s]
    <3> SUFFICES ASSUME NEW s \in Slugs \ crossed, There(s), NEW p \in held'["sync"], p.number = row[s].number
                 PROVE  p.repo \in past[s]
      OBVIOUS
    <3>1. CASE p \in held["sync"]
      BY <3>1 DEF Fed
    <3>2. CASE \E u \in Slugs : There(u) /\ row[u].repo # NoRepo /\ p = Ref(u)
      <4>1. PICK u \in Slugs : There(u) /\ row[u].repo # NoRepo /\ p = Ref(u)
        BY <3>2
      <4>2. p.number = row[u].number /\ p.repo = row[u].repo
        BY <4>1 DEF Ref
      <4>3. u = s
        BY <4>1, <4>2 DEF Counted
      <4>4. QED  BY <4>1, <4>2, <4>3 DEF Fed
    <3>3. QED  BY <2>2, <3>1, <3>2
  <2>5. QED  BY <2>3, <2>4 DEF Fed, There
<1>4. CASE \E p \in held["sync"], listed \in BOOLEAN : SyncBuilds(p, listed)
  <2>1. PICK p \in held["sync"], listed \in BOOLEAN : SyncBuilds(p, listed)
    BY <1>4
  <2>5. held'["sync"] \subseteq held["sync"]
    BY <1>0, <2>1 DEF SyncBuilds, TasksOK
  <2>6. UNCHANGED <<row, watch, req, past, crossed>>
    BY <2>1 DEF SyncBuilds
  <2>7. QED  BY <2>5, <2>6, FedFrame DEF There
<1>5. CASE \E p \in held["logs"] : CollectLines(p)
  <2>1. PICK p \in held["logs"] : CollectLines(p)
    BY <1>5
  <2>2. held'["sync"] = held["sync"]
    BY <1>0, <2>1 DEF CollectLines, TasksOK
  <2>3. UNCHANGED <<row, watch, req, past, crossed>>
    BY <2>1 DEF CollectLines
  <2>4. QED  BY <1>0, <2>2, <2>3, FedFrame DEF There
<1>6. CASE \E r \in Requests, s \in Slugs : Provision(r, s)
  <2>1. PICK r \in Requests, s \in Slugs : Provision(r, s)
    BY <1>6
  <2>2. /\ req'[r].of = Ref(s)
        /\ \A q \in Requests \ {r} : req'[q] = req[q]
    BY <1>0, <2>1 DEF Provision, Begin, TasksOK
  <2>3. /\ There(s) /\ row[s].repo # NoRepo /\ Ref(s).slug = s /\ Ref(s).repo = row[s].repo
    BY <2>1 DEF Provision, Begin, Ref
  <2>4. UNCHANGED <<row, held, watch, past, crossed>>
    BY <2>1 DEF Provision
  <2>5. \A t \in Slugs \ crossed : \A q \in Requests :
          req'[q].op = "provision" /\ req'[q].of.slug = t => There(t) /\ req'[q].of.repo \in past[t]
    BY <2>2, <2>3 DEF Fed
  <2>6. QED  BY <2>4, <2>5 DEF Fed, There
<1>7. CASE \E r \in Requests, s \in Slugs : Delete(r, s)
  <2>1. PICK r \in Requests, s \in Slugs : Delete(r, s)
    BY <1>7
  <2>2. /\ req'[r].op = "delete"
        /\ \A q \in Requests \ {r} : req'[q] = req[q]
    BY <1>0, <2>1 DEF Delete, Begin, TasksOK
  <2>3. UNCHANGED <<row, held, watch, past, crossed>>
    BY <2>1 DEF Delete
  <2>4. QED  BY <1>0, <2>2, <2>3, FedFrame DEF There
<1>8. CASE \E r \in Requests : CommitFails(r) \/ Teardown(r) \/ HangUp(r) \/ DeleteLogs(r)
  <2>1. PICK r \in Requests : CommitFails(r) \/ Teardown(r) \/ HangUp(r) \/ DeleteLogs(r)
    BY <1>8
  <2>2. \A q \in Requests : req'[q].op = "provision" => req'[q].op = req[q].op /\ req'[q].of = req[q].of
    BY <1>0, <1>a, <2>1 DEF CommitFails, Teardown, HangUp, DeleteLogs, Ends, Moves, TasksOK
  <2>3. UNCHANGED <<row, held, watch, past, crossed>>
    BY <2>1 DEF CommitFails, Teardown, HangUp, DeleteLogs
  <2>4. QED  BY <1>0, <2>2, <2>3, FedFrame DEF There
<1>9. CASE \E r \in Requests : Commit(r)
  <2>1. PICK r \in Requests : Commit(r)
    BY <1>9
  <2>2. req[r].of.slug \in Slugs
    BY <1>0, <2>1 DEF Commit, Asked
  <2>3. \A t \in Slugs : row'[t].id = row[t].id /\ row'[t].number = row[t].number /\ row'[t].repo = row[t].repo
    BY <1>0, <2>1, <2>2, StatusFacts DEF Commit
  <2>4. \A q \in Requests : req'[q].op = req[q].op /\ req'[q].of = req[q].of
    BY <1>0, <2>1 DEF Commit, Moves, TasksOK
  <2>5. UNCHANGED <<held, watch, past, crossed>>
    BY <2>1 DEF Commit
  <2>6. QED  BY <1>0, <2>3, <2>4, <2>5, FedFrame DEF There
<1>10. CASE \E r \in Requests, w \in Watchers : Spawn(r, w)
  <2>1. PICK r \in Requests, w \in Watchers : Spawn(r, w)
    BY <1>10
  <2>2. /\ req[r].op = "provision"
        /\ \A q \in Requests : req'[q].op = "provision" => req'[q].op = req[q].op /\ req'[q].of = req[q].of
    BY <1>0, <1>a, <2>1 DEF Spawn, Ends, TasksOK, Asked
  <2>3. /\ watch'[w].pc = "start" /\ watch'[w].of = req[r].of
        /\ \A v \in Watchers \ {w} : watch'[v] = watch[v]
    BY <1>0, <2>1 DEF Spawn, TasksOK
  <2>4. UNCHANGED <<row, held, past, crossed>>
    BY <2>1 DEF Spawn
  <2>5. \A s \in Slugs \ crossed :
          /\ \A v \in Watchers : watch'[v].pc = "start" /\ watch'[v].of.slug = s => There(s) /\ watch'[v].of.repo \in past[s]
          /\ There(s) => \A v \in Watchers :
               watch'[v].pc = "poll" /\ watch'[v].of.number = row[s].number => watch'[v].of.repo \in past[s]
          /\ \A q \in Requests : req'[q].op = "provision" /\ req'[q].of.slug = s => There(s) /\ req'[q].of.repo \in past[s]
    BY <2>2, <2>3 DEF Fed
  <2>6. QED  BY <2>4, <2>5 DEF Fed, There
<1>11. CASE \E w \in Watchers : FindRow(w)
  <2>1. PICK w \in Watchers : FindRow(w)
    BY <1>11
  <2> DEFINE u == watch[w].of.slug
  <2>2. u \in Slugs /\ watch[w].pc = "start"
    BY <1>0, <2>1 DEF FindRow, Asked
  <2>3. \A v \in Watchers \ {w} : watch'[v] = watch[v]
    BY <1>0, <2>1 DEF FindRow, TasksOK
  <2>4. \/ There(u) /\ watch'[w].pc = "poll" /\ watch'[w].of.number = row[u].number
           /\ watch'[w].of.repo = watch[w].of.repo
        \/ watch'[w].pc = "idle"
    BY <1>0, <1>a, <2>1 DEF FindRow, TasksOK
  <2>5. UNCHANGED <<row, held, req, past, crossed>>
    BY <2>1 DEF FindRow
  <2>6. \A s \in Slugs \ crossed : There(s) => \A v \in Watchers :
          watch'[v].pc = "poll" /\ watch'[v].of.number = row[s].number => watch'[v].of.repo \in past[s]
    <3> SUFFICES ASSUME NEW s \in Slugs \ crossed, There(s), NEW v \in Watchers,
                        watch'[v].pc = "poll", watch'[v].of.number = row[s].number
                 PROVE  watch'[v].of.repo \in past[s]
      OBVIOUS
    <3>1. CASE v = w
      <4>1. u = s
        BY <2>2, <2>4, <3>1, <1>a DEF Counted
      <4>2. QED  BY <2>2, <2>4, <3>1, <4>1 DEF Fed
    <3>2. CASE v # w
      BY <2>3, <3>2 DEF Fed
    <3>3. QED  BY <3>1, <3>2
  <2>7. \A s \in Slugs \ crossed : \A v \in Watchers :
          watch'[v].pc = "start" /\ watch'[v].of.slug = s => There(s) /\ watch'[v].of.repo \in past[s]
    BY <2>3, <2>4 DEF Fed
  <2>8. QED  BY <2>5, <2>6, <2>7 DEF Fed, There
<1>12. CASE \E w \in Watchers, listed, done \in BOOLEAN : Poll(w, listed, done)
  <2>1. PICK w \in Watchers, listed \in BOOLEAN, done \in BOOLEAN : Poll(w, listed, done)
    BY <1>12
  <2>2. watch[w].pc = "poll"
    BY <2>1 DEF Poll
  <2>5. /\ watch'[w].pc \in {"poll", "clear"} /\ watch'[w].of = watch[w].of
        /\ \A v \in Watchers \ {w} : watch'[v] = watch[v]
    BY <1>0, <2>1 DEF Poll, Polled, TasksOK
  <2>6. UNCHANGED <<row, held, req, past, crossed>>
    BY <2>1 DEF Poll
  <2>7. QED  BY <2>2, <2>5, <2>6, FedFrame DEF There
<1>13. CASE \E w \in Watchers : ClearStatus(w)
  <2>1. PICK w \in Watchers : ClearStatus(w)
    BY <1>13
  <2>2. watch[w].of.slug \in Slugs
    BY <1>0, <2>1 DEF ClearStatus, Asked
  <2>3. \A t \in Slugs : row'[t].id = row[t].id /\ row'[t].number = row[t].number /\ row'[t].repo = row[t].repo
    BY <1>0, <2>1, <2>2, StatusFacts DEF ClearStatus
  <2>4. watch'[w].pc = "idle" /\ \A v \in Watchers \ {w} : watch'[v] = watch[v]
    BY <1>0, <1>a, <2>1 DEF ClearStatus, TasksOK
  <2>5. UNCHANGED <<held, req, past, crossed>>
    BY <2>1 DEF ClearStatus
  <2>6. QED  BY <1>0, <2>3, <2>4, <2>5, FedFrame DEF There
<1>14. CASE \E r \in Requests : DeleteRow(r)
  <2>1. PICK r \in Requests : DeleteRow(r)
    BY <1>14
  <2> DEFINE u == req[r].of.slug
  <2>2. u \in Slugs /\ req[r].op # "provision"
    BY <1>0, <2>1 DEF DeleteRow, Asked
  <2>3. row'[u] = NoRow /\ NoRow.id = 0
        /\ \A t \in Slugs \ {u} : row'[t] = row[t] /\ past'[t] = past[t]
    BY <1>0, <2>1, <2>2, DropFacts DEF DeleteRow, NoRow
  <2>4. crossed' = IF BeingProvisioned(u) THEN crossed \cup {u} ELSE crossed
    BY <2>1 DEF DeleteRow
  <2>5. UNCHANGED <<held, watch>> /\ \A q \in Requests :
          req'[q].op = "provision" => req'[q].op = req[q].op /\ req'[q].of = req[q].of
    BY <1>0, <1>a, <2>1 DEF DeleteRow, Ends, TasksOK
  <2>7. SUFFICES ASSUME NEW t \in Slugs \ crossed'
             PROVE  /\ There(t)' =>
                         /\ row'[t].repo \in past'[t] \cup {NoRepo}
                         /\ \A p \in held["sync"] : p.number = row'[t].number => p.repo \in past'[t]
                         /\ \A w \in Watchers : watch[w].pc = "poll" /\ watch[w].of.number = row'[t].number
                              => watch[w].of.repo \in past'[t]
                    /\ \A q \in Requests : req'[q].op = "provision" /\ req'[q].of.slug = t
                         => There(t)' /\ req'[q].of.repo \in past'[t]
                    /\ \A w \in Watchers : watch[w].pc = "start" /\ watch[w].of.slug = t
                         => There(t)' /\ watch[w].of.repo \in past'[t]
    BY <2>5 DEF Fed
  <2>8. CASE t = u
    <3>1. ~BeingProvisioned(u)
      BY <2>4, <2>8
    <3>2. QED  BY <2>3, <2>5, <2>8, <3>1 DEF BeingProvisioned, There
  <2>9. CASE t # u
    <3>1. t \in Slugs \ crossed /\ row'[t] = row[t] /\ past'[t] = past[t] /\ (There(t)' <=> There(t))
      BY <2>3, <2>4, <2>9 DEF There
    <3>2. QED  BY <2>5, <3>1 DEF Fed
  <2>10. QED  BY <2>8, <2>9
<1>15. CASE Restart
  <2>1. /\ held'["sync"] = {}
        /\ \A w \in Watchers : watch'[w].pc = "idle"
        /\ \A r \in Requests : req'[r].op = "idle"
        /\ UNCHANGED <<row, past, crossed>>
    BY <1>15, <1>a DEF Restart
  <2>2. QED  BY <1>0, <2>1, FedFrame DEF There
<1>16. CASE UNCHANGED vars
  BY <1>16 DEF vars, tasks, Fed, There
<1>17. QED
  BY <1>1, <1>2, <1>3, <1>4, <1>5, <1>6, <1>7, <1>8, <1>9, <1>10, <1>11, <1>12, <1>13,
     <1>14, <1>15, <1>16 DEF Next


\* An id nobody has has no builds: the foreign key and its cascade.
Vacant == \A i \in Ids : (\A s \in Slugs : row[s].id # i) => builds[i] = {}

\* What sync_once and a watcher write by an id.
LEMMA RunsReach ==
  ASSUME TypeInv, Counted, OwnBuildsOnly, Vacant, NEW p,
         \A s \in Slugs \ crossed : There(s) /\ p.number = row[s].number => p.repo \in past[s],
         \/ builds' = WithRuns(p.id, p.repo) /\ strays' = strays \cup Straying(p)
         \/ builds' = builds /\ strays' = strays,
         UNCHANGED <<row, past, crossed>>
  PROVE  OwnBuildsOnly' /\ Vacant'
<1>1. \A i \in Ids : \/ builds'[i] = builds[i]
                     \/ /\ builds'[i] = builds[i] \cup {p.repo} /\ i = p.id
                        /\ strays' = strays \cup Straying(p)
                        /\ \E s \in Slugs : row[s].id = i
  BY DEF WithRuns
<1>2. strays \subseteq strays'
  OBVIOUS
<1>3. ASSUME NEW s \in Slugs \ crossed, There(s), NEW repo \in builds'[row[s].id]
      PROVE  repo \in past[s] \/ <<row[s].number, repo>> \in strays'
  <2>1. row[s].id \in Ids
    BY <1>3 DEF TypeInv, TypeOK, RowsOK, RowType, There
  <2>2. CASE repo \in builds[row[s].id]
    BY <1>2, <1>3, <2>2 DEF OwnBuildsOnly
  <2>3. CASE repo \notin builds[row[s].id]
    <3>1. repo = p.repo /\ row[s].id = p.id /\ strays' = strays \cup Straying(p)
      BY <1>1, <1>3, <2>1, <2>3
    <3>2. CASE row[s].number = p.number
      BY <1>3, <3>1, <3>2
    <3>3. CASE row[s].number # p.number
      BY <3>1, <3>3 DEF Straying
    <3>4. QED  BY <3>2, <3>3
  <2>4. QED  BY <2>2, <2>3
<1>4. OwnBuildsOnly'
  BY <1>3 DEF OwnBuildsOnly, There
<1>5. Vacant'
  BY <1>1 DEF Vacant
<1>6. QED  BY <1>4, <1>5

\* Other steps that keep every row's id, number and past.
LEMMA BuildsFrame ==
  ASSUME OwnBuildsOnly, Vacant, UNCHANGED <<builds, strays, crossed>>,
         \A s \in Slugs : row'[s].id = row[s].id /\ row'[s].number = row[s].number /\ past[s] \subseteq past'[s]
  PROVE  OwnBuildsOnly' /\ Vacant'
<1>1. ASSUME NEW s \in Slugs \ crossed, There(s)', NEW repo \in builds'[row'[s].id]
      PROVE  repo \in past'[s] \/ <<row'[s].number, repo>> \in strays'
  <2>1. There(s) /\ repo \in builds[row[s].id]
    BY <1>1 DEF There
  <2>2. repo \in past[s] \/ <<row[s].number, repo>> \in strays
    BY <2>1 DEF OwnBuildsOnly
  <2>3. QED  BY <2>2
<1>2. OwnBuildsOnly'
  BY <1>1 DEF OwnBuildsOnly
<1>3. Vacant'
  BY DEF Vacant
<1>4. QED  BY <1>2, <1>3

LEMMA BuildsStep ==
  TypeInv /\ Counted /\ Fed /\ OwnBuildsOnly /\ Vacant /\ [Next]_vars => OwnBuildsOnly' /\ Vacant'
<1> SUFFICES ASSUME TypeInv, Counted, Fed, OwnBuildsOnly, Vacant, [Next]_vars
             PROVE  OwnBuildsOnly' /\ Vacant'
  OBVIOUS
<1>0. RowsOK /\ TasksOK /\ Asked
  BY DEF TypeInv, TypeOK
<1>1. CASE \/ \E s \in Slugs, repo \in Repos : Register(s, repo)
           \/ \E s \in Slugs, inferred \in Repos \cup {NoRepo} : Upsert(s, inferred)
  <2>1. PICK s \in Slugs : \/ \E repo \in Repos : Register(s, repo)
                           \/ \E inferred \in Repos \cup {NoRepo} : Upsert(s, inferred)
    BY <1>1
  <2>2. UNCHANGED <<builds, strays, crossed>>
    BY <2>1 DEF Register, Upsert
  <2>3. row \in [Slugs -> RowType] /\ past \in [Slugs -> SUBSET Repos]
    BY <1>0 DEF RowsOK
  <2>4. CASE There(s)
    <3>1. PICK source, status, new : Update(s, source, new, status)
      BY <2>1, <2>4 DEF Register, Upsert
    <3>2. /\ row'[s].id = row[s].id /\ row'[s].number = row[s].number /\ past[s] \subseteq past'[s]
          /\ \A t \in Slugs \ {s} : row'[t] = row[t] /\ past'[t] = past[t]
      BY <2>3, <3>1 DEF Update
    <3>3. QED  BY <2>2, <3>2, BuildsFrame
  <2>5. CASE ~There(s)
    <3>1. PICK source, status, new : Insert(s, source, new, status)
      BY <2>1, <2>5 DEF Register, Upsert
    <3>2. /\ \A t \in Slugs \ {s} : row'[t] = row[t] /\ past'[t] = past[t]
          /\ row'[s].id \in Ids /\ NewId(row'[s].id)
      BY <2>3, <3>1 DEF Insert
    <3>3. \A t \in Slugs : row[t].id \in Nat /\ row[t].id # row'[s].id
      BY <2>3, <3>2 DEF NewId, RowType
    <3>4. builds[row'[s].id] = {}
      BY <3>2, <3>3 DEF Vacant
    <3>5. OwnBuildsOnly'
      <4> SUFFICES ASSUME NEW t \in Slugs \ crossed, There(t)', NEW repo \in builds[row'[t].id]
                   PROVE  repo \in past'[t] \/ <<row'[t].number, repo>> \in strays
        BY <2>2 DEF OwnBuildsOnly
      <4>1. t # s
        BY <3>4
      <4>2. row'[t] = row[t] /\ past'[t] = past[t] /\ There(t)
        BY <3>2, <4>1 DEF There
      <4>3. QED  BY <4>2 DEF OwnBuildsOnly
    <3>6. Vacant'
      <4> SUFFICES ASSUME NEW i \in Ids, \A t \in Slugs : row'[t].id # i PROVE builds[i] = {}
        BY <2>2 DEF Vacant
      <4>1. \A t \in Slugs \ {s} : row[t].id # i
        BY <3>2
      <4>2. row[s].id # i
        BY <2>5 DEF There
      <4>3. QED  BY <4>1, <4>2 DEF Vacant
    <3>7. QED  BY <3>5, <3>6
  <2>6. QED  BY <2>4, <2>5
<1>2. CASE \E p \in held["sync"], listed \in BOOLEAN : SyncBuilds(p, listed)
  <2>1. PICK p \in held["sync"], listed \in BOOLEAN : SyncBuilds(p, listed)
    BY <1>2
  <2>2. \A s \in Slugs \ crossed : There(s) /\ p.number = row[s].number => p.repo \in past[s]
    BY DEF Fed
  <2>3. QED  BY <2>1, <2>2, RunsReach DEF SyncBuilds
<1>3. CASE \E w \in Watchers, listed, done \in BOOLEAN : Poll(w, listed, done)
  <2>1. PICK w \in Watchers, listed \in BOOLEAN, done \in BOOLEAN : Poll(w, listed, done)
    BY <1>3
  <2> DEFINE p == watch[w].of
  <2>2. \A s \in Slugs \ crossed : There(s) /\ p.number = row[s].number => p.repo \in past[s]
    BY <2>1 DEF Fed, Poll
  <2>3. /\ \/ builds' = WithRuns(p.id, p.repo) /\ strays' = strays \cup Straying(p)
           \/ builds' = builds /\ strays' = strays
        /\ UNCHANGED <<row, past, crossed>>
    BY <2>1 DEF Poll, RunsGoTo
  <2> HIDE DEF p
  <2>4. QED  BY <2>2, <2>3, RunsReach
<1>4. CASE \/ \E r \in Requests : Commit(r)
           \/ \E w \in Watchers : ClearStatus(w)
  <2>1. PICK s \in Slugs, status \in {"none", "deploying"} : row' = StatusOf(s, status)
    BY <1>0, <1>4 DEF Commit, ClearStatus, Asked
  <2>2. UNCHANGED <<builds, strays, crossed, born, past>>
    BY <1>4 DEF Commit, ClearStatus
  <2>3. \A t \in Slugs : row'[t].id = row[t].id /\ row'[t].number = row[t].number
    BY <1>0, <2>1, <2>2, StatusFacts
  <2>4. QED  BY <2>2, <2>3, BuildsFrame
<1>5. CASE \E r \in Requests : DeleteRow(r)
  <2>1. PICK r \in Requests : DeleteRow(r)
    BY <1>5
  <2> DEFINE s == req[r].of.slug
  <2>2. s \in Slugs
    BY <1>0, <2>1 DEF DeleteRow, Asked
  <2>3. row'[s] = NoRow /\ NoRow.id = 0
        /\ \A t \in Slugs \ {s} : row'[t] = row[t] /\ past'[t] = past[t]
    BY <1>0, <2>1, <2>2, DropFacts DEF DeleteRow, NoRow
  <2>4. /\ \A i \in Ids : builds'[i] = IF i = row[s].id THEN {} ELSE builds[i]
        /\ crossed \subseteq crossed' /\ strays' = strays
    BY <2>1 DEF DeleteRow
  <2>5. OwnBuildsOnly'
    <3> SUFFICES ASSUME NEW t \in Slugs \ crossed', There(t)', NEW repo \in builds'[row'[t].id]
                 PROVE  repo \in past'[t] \/ <<row'[t].number, repo>> \in strays'
      BY DEF OwnBuildsOnly
    <3>1. t # s
      BY <2>3 DEF There
    <3>2. row'[t] = row[t] /\ past'[t] = past[t] /\ There(t) /\ t \in Slugs \ crossed
      BY <2>3, <2>4, <3>1 DEF There
    <3>3. row[t].id \in Ids
      BY <1>0, <3>2 DEF RowsOK, RowType, There
    <3>4. repo \in builds[row[t].id]
      BY <2>4, <3>2, <3>3
    <3>5. QED  BY <2>4, <3>2, <3>4 DEF OwnBuildsOnly
  <2>6. Vacant'
    <3> SUFFICES ASSUME NEW i \in Ids, \A t \in Slugs : row'[t].id # i PROVE builds'[i] = {}
      BY DEF Vacant
    <3>1. CASE i = row[s].id
      BY <2>4, <3>1
    <3>2. CASE i # row[s].id
      <4>1. \A t \in Slugs : row[t].id # i
        BY <2>3, <3>2
      <4>2. QED  BY <2>4, <3>2, <4>1 DEF Vacant
    <3>3. QED  BY <3>1, <3>2
  <2>7. QED  BY <2>5, <2>6
<1>6. CASE \/ \E t \in Readers : ReadProjects(t)
           \/ \E p \in held["logs"] : CollectLines(p)
           \/ \E r \in Requests, s \in Slugs : Provision(r, s) \/ Delete(r, s)
           \/ \E r \in Requests : CommitFails(r) \/ HangUp(r) \/ Teardown(r) \/ DeleteLogs(r)
           \/ \E r \in Requests, w \in Watchers : Spawn(r, w)
           \/ \E w \in Watchers : FindRow(w)
           \/ Restart
  <2>1. UNCHANGED <<row, builds, past, crossed, strays>>
    BY <1>6 DEF ReadProjects, CollectLines, Provision, Delete, CommitFails, HangUp, Teardown, DeleteLogs,
      Spawn, FindRow, Restart
  <2>2. QED  BY <2>1, BuildsFrame
<1>7. CASE UNCHANGED vars
  <2>1. UNCHANGED <<row, builds, past, crossed, strays>>
    BY <1>7 DEF vars
  <2>2. QED  BY <2>1, BuildsFrame
<1>8. QED
  BY <1>1, <1>2, <1>3, <1>4, <1>5, <1>6, <1>7 DEF Next

\* The builds a project shows come from repositories it has had, or were
\* written by a pass or a watcher that had read an earlier row of its id; but
\* for projects deleted and made again amid a provisioning.
THEOREM BuildsReachTheirProject == Spec => []OwnBuildsOnly
<1>1. Init => Fed /\ OwnBuildsOnly /\ Vacant
  BY DEF Init, Fed, OwnBuildsOnly, Vacant, There, NoRow, Free, Idle
<1>2. (TypeInv /\ Counted /\ Fed /\ OwnBuildsOnly /\ Vacant) /\ [Next]_vars
        => (TypeInv /\ Counted /\ Fed /\ OwnBuildsOnly /\ Vacant)'
  BY TypeStep, CountedStep, FedStep, BuildsStep
<1>3. QED  BY TypeInit, CountedInit, <1>1, <1>2, PTL DEF Spec

\* All that a project shows is its own, or was written late by an id that it
\* was given again.
THEOREM ProjectsShowTheirOwn == Spec => []ShowsItsOwn
BY BuildsReachTheirProject, LinesReachTheirProject, PTL DEF ShowsItsOwn
=============================================================================
