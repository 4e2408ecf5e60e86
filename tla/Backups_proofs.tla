--------------------------- MODULE Backups_proofs ---------------------------
(***************************************************************************)
(* What is on the volume: complete dumps only, and always the newest; and  *)
(* that a statement let through has its dump.                              *)
(***************************************************************************)
EXTENDS Backups, FiniteSetTheorems, TLAPS

USE DEF Tasks, Names

LEMMA DoingType ==
  /\ Idle \in States /\ Idle.old = {} /\ Idle.pc = "idle" /\ Nothing \in Took
  /\ \A op \in {"idle", "daily", "create", "query", "restore"}, pc \in Steps :
       LET q == Doing(op, pc)
       IN q \in States /\ q.old = {} /\ q.pc = pc /\ q.op = op
<1>1. Nothing \in Took
  BY Numbers DEF Nothing, Took
<1>2. QED  BY <1>1 DEF Idle, Doing, States, Steps

Asks == Statements \cup {"nothing"}

\* A task that goes on, with what it took, what it was asked or a list of names.
LEMMA MoreType ==
  ASSUME NEW q \in States
  PROVE  /\ \A took \in Took, asked \in Asks :
              LET n == [q EXCEPT !.took = took, !.asked = asked]
              IN n \in States /\ n.old = q.old /\ n.pc = q.pc /\ n.op = q.op /\ n.took = took
         /\ \A asked \in Asks :
              LET n == [q EXCEPT !.asked = asked]
              IN n \in States /\ n.old = q.old /\ n.pc = q.pc /\ n.op = q.op /\ n.asked = asked
         /\ \A old \in SUBSET Names : [q EXCEPT !.old = old] \in States
BY DEF States, Asks

LEMMA AsksType == TypeOK => \A t \in Tasks : task[t].asked \in Asks
BY DEF TypeOK, States, Asks

LEMMA OpType == TypeOK => \A t \in Tasks : task[t].op \in {"idle", "daily", "create", "query", "restore"}
BY DEF TypeOK, States

LEMMA TypeInit == Init => TypeOK
<1> SUFFICES ASSUME Init PROVE TypeOK
  OBVIOUS
<1>1. task \in [Tasks -> States] /\ since \in [Tasks -> SUBSET SUBSET Rows]
  BY DoingType DEF Init
<1>2. clock \in Names /\ faults \in 0 .. MaxFaults
  BY Numbers DEF Init
<1>3. DOMAIN files = {}
  BY DEF Init
<1>4. QED  BY <1>1, <1>2, <1>3 DEF Init, TypeOK

LEMMA SeenType ==
  ASSUME TypeOK, NEW rows \in SUBSET Rows, NEW but
  PROVE  Seen(rows, but) \in [Tasks -> SUBSET SUBSET Rows]
BY DEF TypeOK, Seen

LEMMA EndsType ==
  ASSUME TypeOK, NEW t \in Tasks, Ends(t)
  PROVE  /\ task' \in [Tasks -> States]
         /\ since' \in [Tasks -> SUBSET SUBSET Rows]
BY DoingType DEF TypeOK, Ends

LEMMA StartsType ==
  ASSUME TypeOK, NEW t \in Tasks, NEW op \in {"daily", "create", "query"},
         NEW asked \in Asks, StartsDump(t, op, asked)
  PROVE  /\ task' \in [Tasks -> States]
         /\ helpers' \subseteq Helpers /\ parts' \subseteq Names /\ spoilt' \subseteq Names
         /\ UNCHANGED files
<1>1. Clash \subseteq Helpers
  BY DEF TypeOK, Clash
<1>2. \A h \in Helpers : [h EXCEPT !.shared = TRUE] \in Helpers
  BY DEF Helpers
<1>3. [owner |-> t, name |-> clock, rows |-> table, shared |-> Clash # {}] \in Helpers
  BY DEF Helpers, TypeOK
<1>4. helpers' \subseteq Helpers
  BY <1>1, <1>2, <1>3 DEF StartsDump, Opens, TypeOK
<1>5. [Doing(op, "wait") EXCEPT !.asked = asked] \in States
  BY DoingType, MoreType DEF Steps
<1>6. QED  BY <1>4, <1>5 DEF StartsDump, Opens, TypeOK

LEMMA ReportsType ==
  ASSUME TypeOK, NEW h \in helpers, NEW ok \in BOOLEAN, NEW whole \in BOOLEAN, Reports(h, ok, whole)
  PROVE  /\ task' \in [Tasks -> States]
         /\ since' \in [Tasks -> SUBSET SUBSET Rows]
<1>1. CASE h.owner = NoOne
  BY <1>1 DEF Reports, TypeOK
<1>2. CASE h.owner # NoOne
  <2>1. h \in Helpers /\ h.owner \in Tasks
    BY <1>2 DEF TypeOK, Helpers
  <2> DEFINE t == h.owner
             took == [name |-> h.name, rows |-> h.rows, whole |-> whole]
             next == NextStep(task[t].op, ok)
  <2>2. took \in Took /\ Nothing \in Took
    BY <2>1, Numbers DEF Took, Nothing, Helpers
  <2>3. Answered(t, ok, took)
    BY <1>2 DEF Reports
  <2>4. CASE next = "idle"
    BY <2>1, <2>3, <2>4, EndsType DEF Answered
  <2>5. CASE next # "idle"
    <3>1. next \in Steps
      BY DEF NextStep, Steps
    <3>2. Doing(task[t].op, next) \in States
      BY <2>1, <3>1, OpType, DoingType
    <3>3. [Doing(task[t].op, next) EXCEPT !.took = IF next = "run" THEN took ELSE Nothing,
                                          !.asked = task[t].asked] \in States
      BY <2>1, <2>2, <3>2, MoreType, AsksType
    <3>4. QED  BY <2>1, <2>3, <2>5, <3>3 DEF Answered, TypeOK
  <2>6. QED  BY <2>4, <2>5
<1>3. QED  BY <1>1, <1>2

LEMMA PrunesType ==
  ASSUME TypeOK, NEW t \in Tasks, NEW old \in SUBSET Names, Prunes(t, old)
  PROVE  /\ task' \in [Tasks -> States]
         /\ since' \in [Tasks -> SUBSET SUBSET Rows]
<1>1. CASE old = {}
  BY <1>1, EndsType DEF Prunes
<1>2. CASE old # {}
  <2>1. Doing(task[t].op, "remove") \in States
    BY OpType, DoingType DEF Steps
  <2>2. [Doing(task[t].op, "remove") EXCEPT !.old = old] \in States
    BY <2>1, MoreType
  <2>3. QED  BY <1>2, <2>2 DEF Prunes, TypeOK
<1>3. QED  BY <1>1, <1>2

LEMMA GoneType ==
  ASSUME TypeOK, NEW gone \in SUBSET Tasks, Gone(gone), faults' \in 0 .. MaxFaults
  PROVE  TypeOK'
<1>1. \A h \in Helpers : [h EXCEPT !.owner = IF @ \in gone THEN NoOne ELSE @] \in Helpers
  BY DEF Helpers
<1>2. helpers' \subseteq Helpers
  BY <1>1 DEF Gone, Orphaned, TypeOK
<1>3. \A r \in [owner : Tasks \cup {NoOne}, name : Names] :
        [r EXCEPT !.owner = IF @ \in gone THEN NoOne ELSE @] \in [owner : Tasks \cup {NoOne}, name : Names]
  OBVIOUS
<1>4. restores' \subseteq [owner : Tasks \cup {NoOne}, name : Names]
  BY <1>3 DEF Gone, Orphaned, TypeOK
<1>5. QED  BY <1>2, <1>4, DoingType DEF Gone, TypeOK

LEMMA FaultType == ASSUME TypeOK, NEW kind, Fault(kind) PROVE faults' \in 0 .. MaxFaults
BY Numbers DEF TypeOK, Fault

LEMMA DumpEndsType ==
  ASSUME TypeOK, NEW h \in helpers, NEW cut \in BOOLEAN, DumpEnds(h, cut)
  PROVE  TypeOK'
<1>1. h \in Helpers
  BY DEF TypeOK
<1>2. faults' \in 0 .. MaxFaults
  BY FaultType DEF DumpEnds, TypeOK
<1>3. Reports(h, h.name \in parts, ~h.shared /\ ~cut) /\ (~h.shared /\ ~cut) \in BOOLEAN
        /\ (h.name \in parts) \in BOOLEAN
  BY DEF DumpEnds
<1>4. /\ task' \in [Tasks -> States]
      /\ since' \in [Tasks -> SUBSET SUBSET Rows]
  BY <1>3, ReportsType
<1>5. /\ DOMAIN files' \subseteq Names /\ \A n \in DOMAIN files' : files'[n] \in Dumps
      /\ parts' \subseteq Names /\ made' \subseteq Names /\ spoilt' \subseteq Names
  <2>1. CASE h.name \in parts
    <3>1. [rows |-> h.rows, whole |-> ~h.shared /\ ~cut, at |-> clock] \in Dumps
      BY <1>1 DEF Dumps, Helpers, TypeOK
    <3>2. QED  BY <2>1, <1>1, <3>1 DEF DumpEnds, Put, TypeOK, Helpers
  <2>2. CASE h.name \notin parts
    BY <2>2 DEF DumpEnds, TypeOK
  <2>3. QED  BY <2>1, <2>2
<1>6. QED  BY <1>2, <1>4, <1>5 DEF DumpEnds, TypeOK

LEMMA TypeStep == TypeOK /\ [Next]_vars => TypeOK'
<1> SUFFICES ASSUME TypeOK, [Next]_vars PROVE TypeOK'
  OBVIOUS
<1>1. CASE DailyPass
  BY <1>1, StartsType DEF DailyPass, TypeOK, Asks
<1>2. CASE DailyRefused
  BY <1>2, FaultType, DoingType DEF DailyRefused, TypeOK, Steps
<1>3. ASSUME NEW t \in Requests, Create(t) PROVE TypeOK'
  BY <1>3, StartsType DEF Create, TypeOK, Asks
<1>4. ASSUME NEW t \in Requests, HangUp(t) PROVE TypeOK'
  BY <1>4, FaultType, GoneType DEF HangUp
<1>5. ASSUME NEW t \in Requests, NEW s \in Statements, Query(t, s) PROVE TypeOK'
  <2>1. since' \in [Tasks -> SUBSET SUBSET Rows]
    BY <1>5 DEF Query, TypeOK
  <2>2. CASE SaysItChanges(s)
    BY <1>5, <2>1, <2>2, StartsType DEF Query, TypeOK, Asks
  <2>3. CASE ~SaysItChanges(s)
    <3>1. [Doing("query", "run") EXCEPT !.asked = s] \in States
      BY DoingType, MoreType DEF Steps, Asks
    <3>2. QED  BY <1>5, <2>1, <2>3, <3>1 DEF Query, TypeOK
  <2>4. QED  BY <2>2, <2>3
<1>6. ASSUME NEW t \in Requests, NEW rows \in SUBSET Rows, RunStatement(t, rows) PROVE TypeOK'
  BY <1>6, SeenType, DoingType DEF RunStatement, TypeOK
<1>7. ASSUME NEW t \in Requests, NEW n \in Names, Restore(t, n) PROVE TypeOK'
  BY <1>7, DoingType DEF Restore, TypeOK, Steps
<1>8. ASSUME NEW t \in Tasks, List(t) PROVE TypeOK'
  <2>1. Beyond(DOMAIN files) \in SUBSET Names
    BY DEF Beyond, TypeOK
  <2>2. QED  BY <1>8, <2>1, PrunesType DEF List, TypeOK
<1>9. ASSUME NEW t \in Tasks, NEW n \in Names, Remove(t, n) PROVE TypeOK'
  <2>1. task[t].old \ {n} \in SUBSET Names
    BY DEF TypeOK, States
  <2>2. DOMAIN files' \subseteq Names /\ \A m \in DOMAIN files' : files'[m] \in Dumps
    BY <1>9 DEF Remove, Without, TypeOK
  <2>3. QED  BY <1>9, <2>1, <2>2, PrunesType DEF Remove, TypeOK
<1>10. ASSUME NEW h \in helpers, DiskFull(h) PROVE TypeOK'
  BY <1>10, FaultType, ReportsType DEF DiskFull, TypeOK
<1>11. ASSUME NEW h \in helpers, NEW cut \in BOOLEAN, DumpEnds(h, cut) PROVE TypeOK'
  BY <1>11, DumpEndsType
<1>12. ASSUME NEW r \in restores, NEW rows \in SUBSET Rows, RestoreEnds(r, rows) PROVE TypeOK'
  <2>1. Loaded(rows) \in SUBSET Rows
    BY DEF Loaded, TypeOK
  <2>2. r.owner \in Tasks \cup {NoOne}
    BY DEF TypeOK
  <2>3. task' \in [Tasks -> States] /\ since' \in [Tasks -> SUBSET SUBSET Rows]
    BY <1>12, <2>1, <2>2, SeenType, DoingType DEF RestoreEnds, TypeOK
  <2>4. QED  BY <1>12, <2>1, <2>3 DEF RestoreEnds, TypeOK
<1>13. ASSUME NEW rows \in SUBSET Rows, Elsewhere(rows) PROVE TypeOK'
  BY <1>13, SeenType DEF Elsewhere, TypeOK
<1>14. CASE Tick
  BY <1>14, Numbers DEF Tick, TypeOK
<1>15. CASE Restart
  BY <1>15, FaultType, GoneType DEF Restart
<1>16. CASE UNCHANGED vars
  BY <1>16 DEF vars, TypeOK
<1>17. QED
  BY <1>1, <1>2, <1>3, <1>4, <1>5, <1>6, <1>7, <1>8, <1>9, <1>10, <1>11, <1>12, <1>13, <1>14, <1>15, <1>16 DEF Next

\* Every variable of the backups keeps to its type.
THEOREM TypeCorrect == Spec => []TypeOK
<1>1. Init => TypeOK
  BY TypeInit
<1>2. TypeOK /\ [Next]_vars => TypeOK'
  BY TypeStep
<1>3. QED  BY <1>1, <1>2, PTL DEF Spec

-----------------------------------------------------------------------------
(* The newest dumps stay: whoever was removed, or is on a list to be, has   *)
(* Keep newer ones among those ever finished, and that does not change.     *)

Outdated(n) == Cardinality(Newer(n, made)) >= Keep

VolumeInv ==
  /\ DOMAIN files \subseteq made
  /\ \A n \in made \ DOMAIN files : Outdated(n)
  /\ \A t \in Tasks : \A n \in task[t].old : Outdated(n)

LEMMA NewerGrows ==
  ASSUME NEW A \in SUBSET Names, NEW B \in SUBSET A, NEW n
  PROVE  /\ Cardinality(Newer(n, B)) <= Cardinality(Newer(n, A))
         /\ Cardinality(Newer(n, A)) \in Nat /\ Cardinality(Newer(n, B)) \in Nat
<1>1. IsFiniteSet(0 .. MaxTime)
  BY FS_Interval, Numbers
<1>2. IsFiniteSet(A)
  BY <1>1, FS_Subset
<1>3. Newer(n, A) \subseteq A /\ Newer(n, B) \subseteq Newer(n, A)
  BY DEF Newer
<1>4. IsFiniteSet(Newer(n, A)) /\ IsFiniteSet(Newer(n, B))
  BY <1>2, <1>3, FS_Subset
<1>5. QED  BY <1>3, <1>4, FS_Subset, FS_CardinalityType

\* Once outdated, always.
LEMMA OutdatedStays ==
  ASSUME TypeOK, TypeOK', made \subseteq made', NEW n, Outdated(n)
  PROVE  Outdated(n)'
<1>1. made' \in SUBSET Names /\ made \in SUBSET made'
  BY DEF TypeOK
<1>2. /\ Cardinality(Newer(n, made)) <= Cardinality(Newer(n, made'))
      /\ Cardinality(Newer(n, made)) \in Nat /\ Cardinality(Newer(n, made')) \in Nat
  BY <1>1, NewerGrows
<1>3. QED  BY <1>2, Numbers DEF Outdated, Newer

\* A step that puts nothing on a list and removes nothing.
LEMMA Quiet ==
  ASSUME TypeOK, TypeOK', VolumeInv, made \subseteq made',
         DOMAIN files' \subseteq made', made' \ DOMAIN files' \subseteq made \ DOMAIN files,
         \A t \in Tasks : task'[t].old \subseteq task[t].old
  PROVE  VolumeInv'
<1>1. \A n \in made' \ DOMAIN files' : Outdated(n)'
  BY OutdatedStays DEF VolumeInv
<1>2. \A t \in Tasks : \A n \in task'[t].old : Outdated(n)'
  BY OutdatedStays DEF VolumeInv
<1>3. QED  BY <1>1, <1>2 DEF VolumeInv

LEMMA StartsOld ==
  ASSUME TypeOK, NEW t \in Tasks, NEW op \in {"daily", "create", "query"},
         NEW asked \in Asks, StartsDump(t, op, asked)
  PROVE  /\ \A u \in Tasks : task'[u].old \subseteq task[u].old
         /\ UNCHANGED files
<1>1. [Doing(op, "wait") EXCEPT !.asked = asked].old = {}
  BY DEF Doing
<1>2. QED  BY <1>1 DEF StartsDump, Opens, TypeOK

LEMMA ReportsOld ==
  ASSUME TypeOK, NEW h \in helpers, NEW ok, NEW whole, Reports(h, ok, whole), NEW t \in Tasks
  PROVE  task'[t].old \subseteq task[t].old
<1> DEFINE o == h.owner
           next == NextStep(task[o].op, ok)
<1>1. CASE o = NoOne
  BY <1>1 DEF Reports
<1>2. CASE o # NoOne
  <2>1. o \in Tasks
    BY <1>2 DEF TypeOK, Helpers
  <2>2. CASE next = "idle"
    BY <1>2, <2>1, <2>2, DoingType DEF Reports, Answered, Ends, TypeOK
  <2>3. CASE next # "idle"
    <3>1. PICK x, y : task' = [task EXCEPT ![o] = [Doing(task[o].op, next) EXCEPT !.took = x, !.asked = y]]
      BY <1>2, <2>3 DEF Reports, Answered
    <3>2. [Doing(task[o].op, next) EXCEPT !.took = x, !.asked = y].old = {}
      BY DEF Doing
    <3>3. QED  BY <2>1, <3>1, <3>2 DEF TypeOK
  <2>4. QED  BY <2>2, <2>3
<1>3. QED  BY <1>1, <1>2

LEMMA PrunesOld ==
  ASSUME TypeOK, NEW t \in Tasks, NEW old, Prunes(t, old), NEW u \in Tasks
  PROVE  task'[u].old \subseteq (IF u = t THEN old ELSE task[u].old)
<1>1. [Doing(task[t].op, "remove") EXCEPT !.old = old].old = old
  BY DEF Doing
<1>2. CASE old = {}
  BY <1>2, DoingType DEF Prunes, Ends, TypeOK
<1>3. CASE old # {}
  BY <1>1, <1>3 DEF Prunes, TypeOK
<1>4. QED  BY <1>2, <1>3

LEMMA VolumeStep == TypeOK /\ TypeOK' /\ VolumeInv /\ [Next]_vars => VolumeInv'
<1> SUFFICES ASSUME TypeOK, TypeOK', VolumeInv, [Next]_vars PROVE VolumeInv'
  OBVIOUS
<1>1. CASE DailyPass
  BY <1>1, Quiet, StartsOld DEF DailyPass, VolumeInv, Asks
<1>2. CASE DailyRefused
  <2>1. Doing("daily", "list").old = {}
    BY DoingType DEF Steps
  <2>2. QED  BY <1>2, <2>1, Quiet DEF DailyRefused, TypeOK, VolumeInv
<1>3. ASSUME NEW t \in Requests, Create(t) PROVE VolumeInv'
  BY <1>3, Quiet, StartsOld DEF Create, VolumeInv, Asks
<1>4. ASSUME NEW gone \in SUBSET Tasks, Gone(gone) PROVE VolumeInv'
  <2>1. \A t \in Tasks : task'[t].old \subseteq task[t].old
    BY <1>4, DoingType DEF Gone
  <2>2. QED  BY <1>4, <2>1, Quiet DEF Gone, VolumeInv
<1>5. ASSUME NEW t \in Requests, NEW s \in Statements, Query(t, s) PROVE VolumeInv'
  <2>1. CASE SaysItChanges(s)
    BY <1>5, <2>1, Quiet, StartsOld DEF Query, VolumeInv, Asks
  <2>2. CASE ~SaysItChanges(s)
    <3>1. [Doing("query", "run") EXCEPT !.asked = s].old = {}
      BY DEF Doing
    <3>2. \A u \in Tasks : task'[u].old \subseteq task[u].old
      BY <1>5, <2>2, <3>1 DEF Query, TypeOK
    <3>3. QED  BY <1>5, <2>2, <3>2, Quiet DEF Query, VolumeInv
  <2>3. QED  BY <2>1, <2>2
<1>6. ASSUME NEW t \in Requests, NEW rows \in SUBSET Rows, RunStatement(t, rows) PROVE VolumeInv'
  BY <1>6, Quiet, DoingType DEF RunStatement, TypeOK, VolumeInv
<1>7. ASSUME NEW t \in Requests, NEW n \in Names, Restore(t, n) PROVE VolumeInv'
  BY <1>7, Quiet, DoingType DEF Restore, TypeOK, VolumeInv, Steps
<1>8. ASSUME NEW t \in Tasks, List(t) PROVE VolumeInv'
  <2>1. UNCHANGED <<files, made>>
    BY <1>8 DEF List
  <2>2. \A n : Outdated(n) => Outdated(n)'
    BY <2>1, OutdatedStays
  <2>3. ASSUME NEW n \in Beyond(DOMAIN files) PROVE Outdated(n)
    <3>1. DOMAIN files \in SUBSET made /\ made \in SUBSET Names
      BY DEF VolumeInv, TypeOK
    <3>2. /\ Cardinality(Newer(n, DOMAIN files)) <= Cardinality(Newer(n, made))
          /\ Cardinality(Newer(n, made)) \in Nat /\ Cardinality(Newer(n, DOMAIN files)) \in Nat
      BY <3>1, NewerGrows
    <3>3. Cardinality(Newer(n, DOMAIN files)) >= Keep
      BY DEF Beyond
    <3>4. QED  BY <3>2, <3>3, Numbers DEF Outdated
  <2>4. \A u \in Tasks : task'[u].old \subseteq (IF u = t THEN Beyond(DOMAIN files) ELSE task[u].old)
    BY <1>8, PrunesOld DEF List
  <2>5. \A u \in Tasks : \A n \in task'[u].old : Outdated(n)'
    BY <2>2, <2>3, <2>4 DEF VolumeInv
  <2>6. QED  BY <2>1, <2>2, <2>5 DEF VolumeInv
<1>9. ASSUME NEW t \in Tasks, NEW n \in Names, Remove(t, n) PROVE VolumeInv'
  <2>1. UNCHANGED made /\ DOMAIN files' = DOMAIN files \ {n} /\ n \in task[t].old
    BY <1>9 DEF Remove, Without
  <2>2. \A m : Outdated(m) => Outdated(m)'
    BY <2>1, OutdatedStays
  <2>3. \A u \in Tasks : task'[u].old \subseteq task[u].old
    BY <1>9, PrunesOld DEF Remove
  <2>4. \A m \in made' \ DOMAIN files' : Outdated(m)
    BY <2>1 DEF VolumeInv
  <2>5. QED  BY <2>1, <2>2, <2>3, <2>4 DEF VolumeInv
<1>10. ASSUME NEW h \in helpers, DiskFull(h) PROVE VolumeInv'
  BY <1>10, Quiet, ReportsOld DEF DiskFull, VolumeInv
<1>11. ASSUME NEW h \in helpers, NEW cut \in BOOLEAN, DumpEnds(h, cut) PROVE VolumeInv'
  <2>1. \A t \in Tasks : task'[t].old \subseteq task[t].old
    BY <1>11, ReportsOld DEF DumpEnds
  <2>2. CASE h.name \in parts
    <3>1. made' = made \cup {h.name} /\ DOMAIN files' = DOMAIN files \cup {h.name}
      BY <1>11, <2>2 DEF DumpEnds, Put
    <3>2. QED  BY <2>1, <3>1, Quiet DEF VolumeInv
  <2>3. CASE h.name \notin parts
    BY <1>11, <2>1, <2>3, Quiet DEF DumpEnds, VolumeInv
  <2>4. QED  BY <2>2, <2>3
<1>12. ASSUME NEW r \in restores, NEW rows \in SUBSET Rows, RestoreEnds(r, rows) PROVE VolumeInv'
  <2>1. \A t \in Tasks : task'[t].old \subseteq task[t].old
    BY <1>12, DoingType DEF RestoreEnds, TypeOK
  <2>2. QED  BY <1>12, <2>1, Quiet DEF RestoreEnds, VolumeInv
<1>13. ASSUME NEW rows \in SUBSET Rows, Elsewhere(rows) PROVE VolumeInv'
  BY <1>13, Quiet DEF Elsewhere, VolumeInv
<1>14. CASE Tick
  BY <1>14, Quiet DEF Tick, VolumeInv
<1>15. CASE UNCHANGED vars
  BY <1>15, Quiet DEF vars, VolumeInv
<1>16. QED
  BY <1>1, <1>2, <1>3, <1>4, <1>5, <1>6, <1>7, <1>8, <1>9, <1>10, <1>11, <1>12, <1>13, <1>14, <1>15
     DEF Next, HangUp, Restart

\* The newest Keep dumps ever finished are on the volume.
THEOREM NewestStay == Spec => []NewestAreKept
<1>1. Init => VolumeInv
  BY DoingType DEF Init, VolumeInv
<1>2. TypeOK /\ TypeOK' /\ VolumeInv /\ [Next]_vars => VolumeInv'
  BY VolumeStep
<1>3. TypeOK /\ VolumeInv => NewestAreKept
  <2> SUFFICES ASSUME TypeOK, VolumeInv, NEW n \in made, Cardinality(Newer(n, made)) < Keep
               PROVE  n \in DOMAIN files
    BY DEF NewestAreKept
  <2>1. Cardinality(Newer(n, made)) \in Nat
    BY NewerGrows DEF TypeOK
  <2>2. ~Outdated(n)
    BY <2>1, Numbers DEF Outdated
  <2>3. QED  BY <2>2 DEF VolumeInv
<1>4. QED  BY <1>1, <1>2, <1>3, TypeCorrect, PTL DEF Spec

-----------------------------------------------------------------------------
(* Nothing half-written is listed: two helpers that write one .part know it. *)

Known(hs, names) == \A h \in hs : h.shared => h.name \in names

ListInv == ListedAreWhole /\ Known(helpers, spoilt)

LEMMA OpensList ==
  ASSUME TypeOK, ListInv, NEW t \in Tasks, Opens(t)
  PROVE  ListInv'
<1>1. spoilt \subseteq spoilt' /\ (Clash # {} => clock \in spoilt') /\ UNCHANGED files
  BY DEF Opens
<1>2. ASSUME NEW g \in helpers', g.shared PROVE g.name \in spoilt'
  <2> DEFINE new == [owner |-> t, name |-> clock, rows |-> table, shared |-> Clash # {}]
  <2>1. \/ g \in helpers
        \/ \E h \in Clash : g = [h EXCEPT !.shared = TRUE]
        \/ g = new
    BY DEF Opens
  <2>2. CASE g \in helpers
    BY <1>1, <1>2, <2>2 DEF ListInv, Known
  <2>3. ASSUME NEW h \in Clash, g = [h EXCEPT !.shared = TRUE] PROVE g.name \in spoilt'
    <3>1. h \in Helpers /\ h.name = clock
      BY DEF Clash, TypeOK
    <3>2. g.name = clock
      BY <2>3, <3>1 DEF Helpers
    <3>3. QED  BY <1>1, <3>2, <2>3
  <2>4. CASE g = new
    BY <1>1, <1>2, <2>4
  <2>5. QED  BY <2>1, <2>2, <2>3, <2>4
<1>3. QED  BY <1>1, <1>2 DEF ListInv, Known, ListedAreWhole

LEMMA ListStep == TypeOK /\ ListInv /\ [Next]_vars => ListInv'
<1> SUFFICES ASSUME TypeOK, ListInv, [Next]_vars PROVE ListInv'
  OBVIOUS
<1>1. ASSUME NEW t \in Tasks, NEW op, NEW asked, StartsDump(t, op, asked) PROVE ListInv'
  BY <1>1, OpensList DEF StartsDump
<1>2. ASSUME UNCHANGED <<files, helpers, spoilt>> PROVE ListInv'
  BY <1>2 DEF ListInv, Known, ListedAreWhole
<1>3. ASSUME NEW gone \in SUBSET Tasks, Gone(gone) PROVE ListInv'
  <2>1. \A g \in helpers' : \E h \in helpers : g.name = h.name /\ g.shared = h.shared
    BY <1>3 DEF Gone, Orphaned, TypeOK, Helpers
  <2>2. QED  BY <1>3, <2>1 DEF Gone, ListInv, Known, ListedAreWhole
<1>4. ASSUME NEW t \in Requests, NEW s \in Statements, Query(t, s) PROVE ListInv'
  BY <1>1, <1>2, <1>4 DEF Query
<1>5. ASSUME NEW t \in Tasks, NEW n \in Names, Remove(t, n) PROVE ListInv'
  BY <1>5 DEF Remove, Without, ListInv, Known, ListedAreWhole
<1>6. ASSUME NEW h \in helpers, DiskFull(h) PROVE ListInv'
  BY <1>6 DEF DiskFull, ListInv, Known, ListedAreWhole
<1>7. ASSUME NEW h \in helpers, NEW cut \in BOOLEAN, DumpEnds(h, cut) PROVE ListInv'
  <2>1. helpers' \subseteq helpers /\ spoilt \subseteq spoilt'
    BY <1>7 DEF DumpEnds
  <2>2. CASE h.name \in parts
    <3> DEFINE dump == [rows |-> h.rows, whole |-> ~h.shared /\ ~cut, at |-> clock]
    <3>1. files' = Put(files, h.name, dump) /\ (cut => h.name \in spoilt')
      BY <1>7, <2>2 DEF DumpEnds
    <3>2. ASSUME NEW n \in DOMAIN files' PROVE files'[n].whole \/ n \in spoilt'
      <4>1. CASE n = h.name
        BY <2>1, <3>1, <4>1 DEF Put, ListInv, Known
      <4>2. CASE n # h.name
        BY <2>1, <3>1, <4>2 DEF Put, ListInv, ListedAreWhole
      <4>3. QED  BY <4>1, <4>2
    <3>3. QED  BY <2>1, <3>2 DEF ListInv, Known, ListedAreWhole
  <2>3. CASE h.name \notin parts
    BY <1>7, <2>1, <2>3 DEF DumpEnds, ListInv, Known, ListedAreWhole
  <2>4. QED  BY <2>2, <2>3
<1>8. QED
  BY <1>1, <1>2, <1>3, <1>4, <1>5, <1>6, <1>7
     DEF Next, DailyPass, DailyRefused, Create, HangUp, RunStatement, Restore, List, RestoreEnds,
         Elsewhere, Tick, Restart, vars

\* A listed dump is complete, unless pg_dump ended early or shared its second.
THEOREM ListedDumpsAreWhole == Spec => []ListedAreWhole
<1>1. Init => ListInv
  BY DEF Init, ListInv, Known, ListedAreWhole
<1>2. TypeOK /\ ListInv /\ [Next]_vars => ListInv'
  BY ListStep
<1>3. ListInv => ListedAreWhole
  BY DEF ListInv
<1>4. QED  BY <1>1, <1>2, <1>3, TypeCorrect, PTL DEF Spec

-----------------------------------------------------------------------------
(* A statement has its dump: the one helper its request waits for has seen  *)
(* the database since the statement came.                                   *)

RunOK(t) ==
  task[t].pc = "run" =>
    task[t].op = "query" /\ (HasItsDump(t) \/ ~SaysItChanges(task[t].asked))
HelperOK(h) ==
  h.owner # NoOne =>
    /\ task[h.owner].pc = "wait"
    /\ task[h.owner].op = "query" => h.rows \in since[h.owner]
RestoreOK(r) == r.owner # NoOne => task[r.owner].pc = "restore"
OnePerOwner(set) == \A h, g \in set : h.owner = g.owner /\ h.owner # NoOne => h = g

DumpInv ==
  /\ \A t \in Tasks : RunOK(t)
  /\ \A h \in helpers : HelperOK(h)
  /\ \A r \in restores : RestoreOK(r)
  /\ OnePerOwner(helpers) /\ OnePerOwner(restores)

\* What the database is seen to hold only grows while a statement is on its way.
Remembered(t) == task[t].op = "query" => since[t] \subseteq since'[t]

LEMMA SeenGrows ==
  ASSUME NEW rows, NEW but, since' = Seen(rows, but), NEW t \in Tasks, t # but
  PROVE  Remembered(t)
BY DEF Seen, Remembered

\* A task nobody works for goes on: not to a statement, or to one that says it
\* changes nothing.
LEMMA TaskMoves ==
  ASSUME TypeOK, DumpInv, NEW t \in Tasks, task[t].pc \notin {"wait", "restore"},
         NEW q, q.pc = "run" => q.op = "query" /\ ~SaysItChanges(q.asked), task' = [task EXCEPT ![t] = q],
         UNCHANGED <<helpers, restores>>, made \subseteq made', spoilt \subseteq spoilt',
         \A u \in Tasks \ {t} : Remembered(u)
  PROVE  DumpInv'
<1>1. task'[t] = q /\ \A u \in Tasks \ {t} : task'[u] = task[u]
  BY DEF TypeOK
<1>2. \A h \in helpers : h.owner # NoOne => h.owner \in Tasks \ {t}
  BY DEF TypeOK, Helpers, DumpInv, HelperOK
<1>3. \A r \in restores : r.owner # NoOne => r.owner \in Tasks \ {t}
  BY DEF TypeOK, DumpInv, RestoreOK
<1>4. \A u \in Tasks : RunOK(u)'
  BY <1>1 DEF DumpInv, RunOK, HasItsDump, Remembered
<1>5. \A h \in helpers' : HelperOK(h)'
  BY <1>1, <1>2 DEF DumpInv, HelperOK, Remembered
<1>6. \A r \in restores' : RestoreOK(r)'
  BY <1>1, <1>3 DEF DumpInv, RestoreOK
<1>7. QED  BY <1>4, <1>5, <1>6 DEF DumpInv

\* Only the database changes, or the clock.
LEMMA NobodyMoves ==
  ASSUME TypeOK, DumpInv, UNCHANGED <<task, helpers, restores, made, spoilt>>, \A u \in Tasks : Remembered(u)
  PROVE  DumpInv'
<1>1. \A h \in helpers : h.owner # NoOne => h.owner \in Tasks
  BY DEF TypeOK, Helpers
<1>2. \A u \in Tasks : RunOK(u)'
  BY DEF DumpInv, RunOK, HasItsDump, Remembered
<1>3. \A h \in helpers' : HelperOK(h)'
  BY <1>1 DEF DumpInv, HelperOK, Remembered
<1>4. QED  BY <1>2, <1>3 DEF DumpInv, RestoreOK

LEMMA StartsKeeps ==
  ASSUME TypeOK, DumpInv, NEW t \in Tasks, NEW op \in {"daily", "create", "query"},
         NEW asked \in Asks, StartsDump(t, op, asked), UNCHANGED <<restores, made>>, \A u \in Tasks \ {t} : since'[u] = since[u],
         op = "query" => since'[t] = {table}
  PROVE  DumpInv'
<1> DEFINE q == [Doing(op, "wait") EXCEPT !.asked = asked]
           new == [owner |-> t, name |-> clock, rows |-> table, shared |-> Clash # {}]
<1>1. q.pc = "wait" /\ q.op = op /\ task[t].pc = "idle"
  BY DoingType DEF StartsDump, Steps, Doing, Idle
<1>2. task'[t] = q /\ \A u \in Tasks \ {t} : task'[u] = task[u]
  BY DEF StartsDump, TypeOK
<1>3. spoilt \subseteq spoilt'
  BY DEF StartsDump, Opens
<1>4. \A h \in helpers : h \in Helpers /\ (h.owner # NoOne => h.owner \in Tasks \ {t})
  BY <1>1 DEF TypeOK, Helpers, DumpInv, HelperOK
<1>5. \A r \in restores : r.owner # NoOne => r.owner \in Tasks \ {t}
  BY <1>1 DEF TypeOK, DumpInv, RestoreOK
<1>6. \A g \in helpers' : \/ g \in helpers \ Clash
                          \/ \E h \in Clash : g = [h EXCEPT !.shared = TRUE]
                          \/ g = new
  BY DEF StartsDump, Opens
<1>7. ASSUME NEW g \in helpers'
      PROVE  g = new \/ \E h \in helpers : /\ g.owner = h.owner /\ g.rows = h.rows
                                           /\ g = IF h \in Clash THEN [h EXCEPT !.shared = TRUE] ELSE h
  <2>1. CASE g \in helpers \ Clash
    BY <2>1
  <2>2. ASSUME NEW h \in Clash, g = [h EXCEPT !.shared = TRUE]
        PROVE  h \in helpers /\ g.owner = h.owner /\ g.rows = h.rows
    BY <2>2, <1>4 DEF Clash, Helpers
  <2>3. QED  BY <1>6, <2>1, <2>2
<1>8. \A u \in Tasks : RunOK(u)'
  BY <1>1, <1>2, <1>3 DEF DumpInv, RunOK, HasItsDump
<1>9. \A g \in helpers' : HelperOK(g)'
  <2> SUFFICES ASSUME NEW g \in helpers', g.owner # NoOne
               PROVE  /\ task'[g.owner].pc = "wait"
                      /\ task'[g.owner].op = "query" => g.rows \in since'[g.owner]
    BY DEF HelperOK
  <2>1. CASE g = new
    BY <1>1, <1>2, <2>1
  <2>2. CASE \E h \in helpers : g.owner = h.owner /\ g.rows = h.rows
    BY <1>2, <1>4, <2>2 DEF DumpInv, HelperOK
  <2>3. QED  BY <1>7, <2>1, <2>2
<1>10. \A r \in restores' : RestoreOK(r)'
  BY <1>2, <1>5 DEF DumpInv, RestoreOK
<1>11. OnePerOwner(helpers')
  <2> SUFFICES ASSUME NEW g1 \in helpers', NEW g2 \in helpers', g1.owner = g2.owner, g1.owner # NoOne
               PROVE  g1 = g2
    BY DEF OnePerOwner
  <2>1. CASE g1 = new \/ g2 = new
    <3>1. new.owner = t
      OBVIOUS
    <3>2. QED  BY <1>4, <1>7, <2>1, <3>1
  <2>2. CASE g1 # new /\ g2 # new
    <3>1. PICK h1 \in helpers :
            g1.owner = h1.owner /\ g1 = IF h1 \in Clash THEN [h1 EXCEPT !.shared = TRUE] ELSE h1
      BY <1>7, <2>2
    <3>2. PICK h2 \in helpers :
            g2.owner = h2.owner /\ g2 = IF h2 \in Clash THEN [h2 EXCEPT !.shared = TRUE] ELSE h2
      BY <1>7, <2>2
    <3>3. h1 = h2
      BY <3>1, <3>2 DEF DumpInv, OnePerOwner
    <3>4. QED  BY <3>1, <3>2, <3>3
  <2>3. QED  BY <2>1, <2>2
<1>12. QED  BY <1>8, <1>9, <1>10, <1>11 DEF DumpInv

\* A helper is gone and its owner goes on by its answer.
LEMMA ReportKeeps ==
  ASSUME TypeOK, DumpInv, NEW h \in helpers, helpers' = helpers \ {h}, UNCHANGED restores,
         NEW ok \in BOOLEAN, NEW whole \in BOOLEAN, Reports(h, ok, whole),
         made \subseteq made', spoilt \subseteq spoilt',
         ok => h.name \in made' /\ (whole \/ h.name \in spoilt')
  PROVE  DumpInv'
<1> DEFINE o == h.owner
           next == NextStep(task[o].op, ok)
           took == [name |-> h.name, rows |-> h.rows, whole |-> whole]
<1>1. CASE o = NoOne
  <2>1. UNCHANGED <<task, since>>
    BY <1>1 DEF Reports
  <2>2. QED  BY <2>1 DEF DumpInv, RunOK, HasItsDump, HelperOK, RestoreOK, OnePerOwner
<1>2. CASE o # NoOne
  <2>1. o \in Tasks /\ task[o].pc = "wait" /\ (task[o].op = "query" => h.rows \in since[o])
    BY <1>2 DEF TypeOK, Helpers, DumpInv, HelperOK
  <2>2. \A g \in helpers' : g.owner # NoOne => g.owner \in Tasks \ {o}
    BY <1>2 DEF TypeOK, Helpers, DumpInv, OnePerOwner
  <2>3. \A r \in restores : r.owner # NoOne => r.owner \in Tasks \ {o}
    BY <2>1 DEF TypeOK, DumpInv, RestoreOK
  <2>4. \A u \in Tasks \ {o} : task'[u] = task[u] /\ since'[u] = since[u]
    BY <1>2, <2>1 DEF Reports, Answered, Ends, TypeOK
  <2>5. RunOK(o)'
    <3>1. CASE next = "idle"
      BY <1>2, <2>1, <3>1, DoingType DEF Reports, Answered, Ends, TypeOK, RunOK
    <3>2. CASE next # "idle"
      <4> DEFINE q == [Doing(task[o].op, next) EXCEPT !.took = IF next = "run" THEN took ELSE Nothing,
                                                        !.asked = task[o].asked]
      <4>1. task'[o] = q /\ UNCHANGED since
        BY <1>2, <2>1, <3>2 DEF Reports, Answered, TypeOK
      <4>2. q.pc = next /\ q.op = task[o].op /\ (next = "run" => q.took = took)
        BY DEF Doing
      <4>3. next = "run" => ok /\ task[o].op = "query"
        BY DEF NextStep
      <4>4. QED  BY <2>1, <4>1, <4>2, <4>3 DEF RunOK, HasItsDump
    <3>3. QED  BY <3>1, <3>2
  <2>6. \A u \in Tasks : RunOK(u)'
    BY <2>4, <2>5 DEF DumpInv, RunOK, HasItsDump
  <2>7. \A g \in helpers' : HelperOK(g)'
    BY <2>2, <2>4 DEF DumpInv, HelperOK
  <2>8. \A r \in restores' : RestoreOK(r)'
    BY <2>3, <2>4 DEF DumpInv, RestoreOK
  <2>9. QED  BY <2>6, <2>7, <2>8 DEF DumpInv, OnePerOwner
<1>3. QED  BY <1>1, <1>2

LEMMA RestoreKeeps ==
  ASSUME TypeOK, DumpInv, NEW t \in Requests, NEW n \in Names, Restore(t, n)
  PROVE  DumpInv'
<1> DEFINE new == [owner |-> t, name |-> n]
<1>1. task[t].pc = "idle" /\ Doing("restore", "restore").pc = "restore"
  BY DoingType DEF Restore, Steps
<1>2. task'[t].pc = "restore" /\ \A u \in Tasks \ {t} : task'[u] = task[u]
  BY <1>1 DEF Restore, TypeOK
<1>3. UNCHANGED <<helpers, since, made, spoilt>> /\ restores' = restores \cup {new}
  BY DEF Restore
<1>4. \A h \in helpers : h.owner # NoOne => h.owner \in Tasks \ {t}
  BY <1>1 DEF TypeOK, Helpers, DumpInv, HelperOK
<1>5. \A r \in restores : r.owner # NoOne => r.owner \in Tasks \ {t}
  BY <1>1 DEF TypeOK, DumpInv, RestoreOK
<1>6. \A u \in Tasks : RunOK(u)'
  BY <1>2, <1>3 DEF DumpInv, RunOK, HasItsDump
<1>7. \A h \in helpers' : HelperOK(h)'
  BY <1>2, <1>3, <1>4 DEF DumpInv, HelperOK
<1>8. \A r \in restores' : RestoreOK(r)'
  BY <1>2, <1>3, <1>5 DEF DumpInv, RestoreOK
<1>9. OnePerOwner(helpers') /\ OnePerOwner(restores')
  BY <1>3, <1>5 DEF DumpInv, OnePerOwner
<1>10. QED  BY <1>6, <1>7, <1>8, <1>9 DEF DumpInv

LEMMA RestoreEndKeeps ==
  ASSUME TypeOK, DumpInv, NEW r \in restores, NEW rows \in SUBSET Rows, RestoreEnds(r, rows)
  PROVE  DumpInv'
<1>1. \A u \in Tasks : Remembered(u)
  BY SeenGrows, Naming DEF RestoreEnds
<1>2. UNCHANGED <<helpers, made, spoilt>> /\ restores' = restores \ {r}
  BY DEF RestoreEnds
<1>3. \A h \in helpers : h.owner # NoOne => h.owner \in Tasks /\ h.owner # r.owner
  BY DEF TypeOK, Helpers, DumpInv, HelperOK, RestoreOK
<1>4. \A s \in restores' : s.owner # NoOne => s.owner \in Tasks /\ s.owner # r.owner
  BY <1>2 DEF TypeOK, DumpInv, OnePerOwner
<1>5. \A u \in Tasks : IF u = r.owner THEN task'[u] = Idle ELSE task'[u] = task[u]
  BY Naming DEF RestoreEnds, TypeOK
<1>6. \A u \in Tasks : RunOK(u)'
  BY <1>1, <1>2, <1>5, DoingType DEF DumpInv, RunOK, HasItsDump, Remembered
<1>7. \A h \in helpers' : HelperOK(h)'
  BY <1>1, <1>2, <1>3, <1>5 DEF DumpInv, HelperOK, Remembered
<1>8. \A s \in restores' : RestoreOK(s)'
  BY <1>2, <1>4, <1>5 DEF DumpInv, RestoreOK
<1>9. QED  BY <1>2, <1>6, <1>7, <1>8 DEF DumpInv, OnePerOwner

LEMMA GoneKeeps ==
  ASSUME TypeOK, DumpInv, NEW gone \in SUBSET Tasks, Gone(gone)
  PROVE  DumpInv'
<1>1. UNCHANGED <<made, spoilt>>
        /\ \A u \in Tasks : IF u \in gone THEN task'[u] = Idle
                             ELSE task'[u] = task[u] /\ since'[u] = since[u]
  BY DEF Gone
<1>2. \A g \in helpers' : g.owner # NoOne => g \in helpers /\ g.owner \in Tasks \ gone
  <2> SUFFICES ASSUME NEW h \in helpers, NEW g, g = [h EXCEPT !.owner = IF @ \in gone THEN NoOne ELSE @],
                      g.owner # NoOne
               PROVE  g = h /\ h.owner \in Tasks \ gone
    BY DEF Gone, Orphaned
  <2>1. h \in Helpers
    BY DEF TypeOK
  <2>2. QED  BY <2>1 DEF Helpers
<1>3. \A g \in restores' : g.owner # NoOne => g \in restores /\ g.owner \in Tasks \ gone
  <2> SUFFICES ASSUME NEW r \in restores, NEW g, g = [r EXCEPT !.owner = IF @ \in gone THEN NoOne ELSE @],
                      g.owner # NoOne
               PROVE  g = r /\ r.owner \in Tasks \ gone
    BY DEF Gone, Orphaned
  <2>1. r \in [owner : Tasks \cup {NoOne}, name : Names]
    BY DEF TypeOK
  <2>2. QED  BY <2>1
<1>4. \A u \in Tasks : RunOK(u)'
  BY <1>1, DoingType DEF DumpInv, RunOK, HasItsDump
<1>5. \A h \in helpers' : HelperOK(h)'
  BY <1>1, <1>2 DEF DumpInv, HelperOK
<1>6. \A r \in restores' : RestoreOK(r)'
  BY <1>1, <1>3 DEF DumpInv, RestoreOK
<1>7. OnePerOwner(helpers') /\ OnePerOwner(restores')
  BY <1>2, <1>3 DEF DumpInv, OnePerOwner
<1>8. QED  BY <1>4, <1>5, <1>6, <1>7 DEF DumpInv

LEMMA DumpStep == TypeOK /\ DumpInv /\ ListInv /\ [Next]_vars => DumpInv'
<1> SUFFICES ASSUME TypeOK, DumpInv, ListInv, [Next]_vars PROVE DumpInv'
  OBVIOUS
<1>1. CASE DailyPass
  BY <1>1, StartsKeeps DEF DailyPass, Asks
<1>2. CASE DailyRefused
  <2>1. Doing("daily", "list").pc = "list" /\ task[Daily].pc = "idle"
    BY <1>2, DoingType DEF DailyRefused, Steps
  <2>2. QED  BY <1>2, <2>1, TaskMoves DEF DailyRefused, Remembered
<1>3. ASSUME NEW t \in Requests, Create(t) PROVE DumpInv'
  BY <1>3, StartsKeeps DEF Create, Asks
<1>4. ASSUME NEW gone \in SUBSET Tasks, Gone(gone) PROVE DumpInv'
  BY <1>4, GoneKeeps
<1>5. ASSUME NEW t \in Requests, NEW s \in Statements, Query(t, s) PROVE DumpInv'
  <2>1. since'[t] = {table} /\ \A u \in Tasks \ {t} : since'[u] = since[u]
    BY <1>5 DEF Query, TypeOK
  <2>2. CASE SaysItChanges(s)
    <3>1. StartsDump(t, "query", s) /\ UNCHANGED <<restores, made>> /\ s \in Asks
      BY <1>5, <2>2 DEF Query, Asks
    <3>2. QED  BY <2>1, <3>1, StartsKeeps
  <2>3. CASE ~SaysItChanges(s)
    <3> DEFINE q == [Doing("query", "run") EXCEPT !.asked = s]
    <3>1. q.op = "query" /\ q.asked = s
      BY DEF Doing
    <3>2. task[t].pc = "idle" /\ task' = [task EXCEPT ![t] = q]
            /\ UNCHANGED <<helpers, restores, made, spoilt>>
      BY <1>5, <2>3, DoingType DEF Query
    <3>3. \A u \in Tasks \ {t} : Remembered(u)
      BY <2>1 DEF Remembered
    <3> HIDE DEF q
    <3>4. QED  BY <2>3, <3>1, <3>2, <3>3, TaskMoves
  <2>4. QED  BY <2>2, <2>3
<1>6. ASSUME NEW t \in Requests, NEW rows \in SUBSET Rows, RunStatement(t, rows) PROVE DumpInv'
  <2>1. \A u \in Tasks \ {t} : Remembered(u)
    BY <1>6, SeenGrows DEF RunStatement
  <2>2. QED  BY <1>6, <2>1, TaskMoves, DoingType DEF RunStatement
<1>7. ASSUME NEW t \in Requests, NEW n \in Names, Restore(t, n) PROVE DumpInv'
  BY <1>7, RestoreKeeps
<1>8. ASSUME NEW t \in Tasks, NEW old, task[t].pc \in {"list", "remove"}, Prunes(t, old),
             UNCHANGED <<helpers, restores, made, spoilt>>
      PROVE  DumpInv'
  <2>1. \A u \in Tasks \ {t} : since'[u] = since[u]
    BY <1>8 DEF Prunes, Ends, TypeOK
  <2>2. \A u \in Tasks \ {t} : Remembered(u)
    BY <2>1 DEF Remembered
  <2>3. PICK q : q.pc # "run" /\ task' = [task EXCEPT ![t] = q]
    <3>1. [Doing(task[t].op, "remove") EXCEPT !.old = old].pc = "remove"
      BY DEF Doing
    <3>2. CASE old = {}
      BY <1>8, <3>2, DoingType DEF Prunes, Ends
    <3>3. CASE old # {}
      BY <1>8, <3>1, <3>3 DEF Prunes
    <3>4. QED  BY <3>2, <3>3
  <2>4. QED  BY <1>8, <2>2, <2>3, TaskMoves
<1>9. ASSUME NEW h \in helpers, DiskFull(h) PROVE DumpInv'
  <2>1. Reports(h, FALSE, FALSE) /\ helpers' = helpers \ {h} /\ UNCHANGED <<restores, made, spoilt>>
    BY <1>9 DEF DiskFull
  <2>2. QED  BY <2>1, ReportKeeps
<1>10. ASSUME NEW h \in helpers, NEW cut \in BOOLEAN, DumpEnds(h, cut) PROVE DumpInv'
  <2> DEFINE whole == ~h.shared /\ ~cut
             ok == h.name \in parts
  <2>1. /\ Reports(h, ok, whole) /\ helpers' = helpers \ {h} /\ UNCHANGED restores
        /\ made \subseteq made' /\ spoilt \subseteq spoilt'
        /\ ok => h.name \in made' /\ (cut => h.name \in spoilt')
    BY <1>10 DEF DumpEnds
  <2>2. h.shared => h.name \in spoilt
    BY DEF ListInv, Known
  <2>3. h.shared \in BOOLEAN /\ whole \in BOOLEAN /\ ok \in BOOLEAN
    BY DEF TypeOK, Helpers
  <2>4. ok => h.name \in made' /\ (whole \/ h.name \in spoilt')
    BY <2>1, <2>2, <2>3
  <2> HIDE DEF whole, ok
  <2>5. QED  BY <2>1, <2>3, <2>4, ReportKeeps
<1>11. ASSUME NEW r \in restores, NEW rows \in SUBSET Rows, RestoreEnds(r, rows) PROVE DumpInv'
  BY <1>11, RestoreEndKeeps
<1>12. ASSUME NEW rows \in SUBSET Rows, Elsewhere(rows) PROVE DumpInv'
  BY <1>12, SeenGrows, NobodyMoves, Naming DEF Elsewhere
<1>13. CASE Tick \/ UNCHANGED vars
  BY <1>13, NobodyMoves DEF Tick, vars, Remembered
<1>14. ASSUME NEW t \in Tasks, List(t) \/ \E n \in Names : Remove(t, n) PROVE DumpInv'
  <2>1. CASE List(t)
    <3>1. /\ task[t].pc \in {"list", "remove"} /\ Prunes(t, Beyond(DOMAIN files))
          /\ UNCHANGED <<helpers, restores, made, spoilt>>
      BY <2>1 DEF List
    <3>2. QED  BY <1>8, <3>1
  <2>2. ASSUME NEW n \in Names, Remove(t, n) PROVE DumpInv'
    <3>1. /\ task[t].pc \in {"list", "remove"} /\ Prunes(t, task[t].old \ {n})
          /\ UNCHANGED <<helpers, restores, made, spoilt>>
      BY <2>2 DEF Remove
    <3>2. QED  BY <1>8, <3>1
  <2>3. QED  BY <1>14, <2>1, <2>2
<1>15. ASSUME NEW t \in Requests, HangUp(t) PROVE DumpInv'
  BY <1>4, <1>15 DEF HangUp
<1>16. CASE Restart
  BY <1>4, <1>16 DEF Restart
<1>17. QED
  BY <1>1, <1>2, <1>3, <1>5, <1>6, <1>7, <1>9, <1>10, <1>11, <1>12, <1>13, <1>14, <1>15, <1>16 DEF Next

\* Each statement that is let through has a dump of its own since it came,
\* unless its first word says that it changes nothing.
THEOREM StatementHasItsDump == Spec => []WriteHasItsDump
<1>1. Init => ListInv /\ DumpInv
  BY DoingType DEF Init, ListInv, Known, ListedAreWhole, DumpInv, RunOK, OnePerOwner
<1>2. TypeOK /\ ListInv /\ [Next]_vars => ListInv'
  BY ListStep
<1>3. TypeOK /\ DumpInv /\ ListInv /\ [Next]_vars => DumpInv'
  BY DumpStep
<1>4. DumpInv => WriteHasItsDump
  BY DEF DumpInv, RunOK, WriteHasItsDump
<1>5. QED  BY <1>1, <1>2, <1>3, <1>4, TypeCorrect, PTL DEF Spec
=============================================================================
