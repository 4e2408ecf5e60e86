----------------------------- MODULE Host_proofs -----------------------------
(***************************************************************************)
(* What webo promises of what it looks after on its host, for any number   *)
(* of requests, passwords, processes and lines.  First the apps'           *)
(* databases: whatever the requests in flight, and wherever one is         *)
(* interrupted, the password the app is given has been in webo's table,    *)
(* which the invariant follows from the request that stored it (Carried)   *)
(* to the variable and on to the file.  Then the process list, whose       *)
(* figures belong to the process they are shown of, the search over the    *)
(* log index, whose pages and counts are of the lines asked for, and the   *)
(* charts of the last day and week, which leave out nothing that was       *)
(* collected as long as the averages come on time, and the issues, one for *)
(* each bug however it is logged.                                          *)
(***************************************************************************)
EXTENDS AppDatabase, Processes, LogSearch, Metrics, Grouping, Lists_proofs

-----------------------------------------------------------------------------
(* The apps' databases *)

\* Requests past the row carry a stored password, and those about to write the
\* file carry a value that was read from the table.
Carried ==
  "store" \notin causes =>
    \A r \in Requests :
      /\ req[r].pc = "seturl" => req[r].pw \in stored
      /\ req[r].value \in Passwords => req[r].value \in stored

\* A hand-made variable is no password.
HandMade == ~url.managed => url.value \notin Passwords

KnownInv == TypeOK /\ HandMade /\ Carried /\ CredentialsAreKnown

USE DEF Secrets, Values, Kinds, Ops, Steps

LEMMA KnownInit == Init => KnownInv
BY Naming, Bounds DEF Init, KnownInv, TypeOK, HandMade, Carried, CredentialsAreKnown, NoRow, NoUrl, Idle

\* A step of one request leaves the others as they are.
LEMMA StepType ==
  ASSUME TypeOK, NEW r \in Requests, Handle(r) \/ Restart
  PROVE  TypeOK'
<1> USE Naming, Bounds DEF TypeOK, At, Carry, Go, Done, Begin, BeginWith, Blame, Fault, Idle, NoRow, NoUrl, UrlBecomes
<1>1. CASE Create(r)
  BY <1>1 DEF Create
<1>2. CASE EnvSet(r)
  BY <1>2 DEF EnvSet
<1>3. CASE Drop(r)
  <2>1. causes' \subseteq causes \cup {"hidden"}
    BY <1>3 DEF Drop
  <2>2. req' \in [Requests -> [op: Ops, pc: Steps, pw: Secrets, value: Values]] /\ begun' \in 0 .. MaxBegun
    BY <1>3 DEF Drop
  <2>3. UNCHANGED <<row, url, container, volume, file, sqlite, used, stored, faults>>
    BY <1>3 DEF Drop
  <2>4. QED  BY <2>1, <2>2, <2>3
<1>4. CASE Get(r)
  BY <1>4 DEF Get
<1>5. CASE EnvDelete(r)
  <2>1. causes' \subseteq causes \cup {"overtaken", "overwritten", "raced"}
    BY <1>5 DEF EnvDelete
  <2>2. req' \in [Requests -> [op: Ops, pc: Steps, pw: Secrets, value: Values]] /\ begun' \in 0 .. MaxBegun
    BY <1>5 DEF EnvDelete
  <2>3. url' = NoUrl /\ UNCHANGED <<row, container, volume, file, sqlite, used, stored, faults>>
    BY <1>5 DEF EnvDelete
  <2>4. QED  BY <2>1, <2>2, <2>3
<1>6. CASE \E db \in {"managed", "external", "neither"} : Provision(r, db)
  BY <1>6 DEF Provision
<1>7. CASE \E pw \in Passwords : CreateContainer(r, pw)
  <2>1. PICK pw \in Passwords : CreateContainer(r, pw)
    BY <1>7
  <2>2. req' \in [Requests -> [op: Ops, pc: Steps, pw: Secrets, value: Values]]
    BY <2>1 DEF CreateContainer
  <2>3. /\ container' = pw /\ used' = used \cup {pw} /\ volume' \in {pw, volume}
        /\ UNCHANGED <<row, url, file, sqlite, stored, causes, begun, faults>>
    BY <2>1 DEF CreateContainer
  <2>4. QED  BY <2>2, <2>3
<1>8. CASE \E pw \in Passwords : CreateFails(r, pw)
  BY <1>8 DEF CreateFails
<1>9. CASE ContainerExists(r) \/ CheckManaged(r)
  <2>1. CASE ContainerExists(r)
    BY <2>1 DEF ContainerExists
  <2>2. CASE CheckManaged(r)
    BY <2>2 DEF CheckManaged
  <2>3. QED  BY <1>9, <2>1, <2>2
<1>10. CASE StoreRow(r)
  BY <1>10 DEF StoreRow
<1>11. CASE SetUrl(r)
  BY <1>11 DEF SetUrl
<1>12. CASE SetExternal(r)
  BY <1>12 DEF SetExternal
<1>13. CASE SetTyped(r)
  BY <1>13 DEF SetTyped
<1>14. CASE ReadVars(r) \/ WriteFile(r) \/ WriteFails(r)
  <2>1. CASE ReadVars(r)
    BY <2>1 DEF ReadVars
  <2>2. CASE WriteFile(r)
    BY <2>2 DEF WriteFile
  <2>3. CASE WriteFails(r)
    BY <2>3 DEF WriteFails
  <2>4. QED  BY <1>14, <2>1, <2>2, <2>3
<1>15. CASE RemoveContainer(r) \/ RemoveVolume(r)
  <2>1. CASE RemoveContainer(r)
    BY <2>1 DEF RemoveContainer
  <2>2. CASE RemoveVolume(r)
    BY <2>2 DEF RemoveVolume
  <2>3. QED  BY <1>15, <2>1, <2>2
<1>16. CASE RemoveFails(r)
  <2>1. causes' \subseteq causes \cup {"docker", "kept"} /\ faults' \in 0 .. MaxFaults
    BY <1>16 DEF RemoveFails
  <2>2. req' \in [Requests -> [op: Ops, pc: Steps, pw: Secrets, value: Values]]
    <3>1. Go(r, "volume") \/ Go(r, "forget")
      BY <1>16 DEF RemoveFails
    <3>2. QED  BY <3>1
  <2>3. UNCHANGED <<row, url, container, volume, file, sqlite, used, stored, begun>>
    BY <1>16 DEF RemoveFails
  <2>4. QED  BY <2>1, <2>2, <2>3
<1>17. CASE ForgetRow(r)
  BY <1>17 DEF ForgetRow
<1>18. CASE UnsetUrl(r)
  <2>1. url' \in [managed: BOOLEAN, value: Values]
    <3>1. url \in [managed: BOOLEAN, value: Values] /\ NoUrl \in [managed: BOOLEAN, value: Values]
      OBVIOUS
    <3>2. url' = url \/ url' = NoUrl
      BY <1>18 DEF UnsetUrl
    <3>3. QED  BY <3>1, <3>2
  <2>2. causes' = causes \/ causes' = causes \cup {"unsaid"}
    BY <1>18 DEF UnsetUrl
  <2>3. /\ req' = [req EXCEPT ![r] = Idle]
        /\ UNCHANGED <<row, container, volume, file, sqlite, used, stored, begun, faults>>
    BY <1>18 DEF UnsetUrl
  <2>4. QED  BY <2>1, <2>2, <2>3
<1>19. CASE Detect(r) \/ WriteIsLost(r) \/ Restart
  <2>1. CASE Detect(r)
    BY <2>1 DEF Detect
  <2>2. CASE WriteIsLost(r)
    <3>1. \/ \E pc \in Steps : Go(r, pc)
          \/ Done(r)
      BY <2>2 DEF WriteIsLost
    <3>2. req' \in [Requests -> [op: Ops, pc: Steps, pw: Secrets, value: Values]]
      BY <3>1
    <3>3. causes' \subseteq causes \cup {"store", "halfway", "torn"} /\ faults' \in 0 .. MaxFaults
      BY <2>2 DEF WriteIsLost
    <3>4. UNCHANGED <<row, url, container, volume, file, sqlite, used, stored, begun>>
      BY <2>2 DEF WriteIsLost
    <3>5. QED  BY <3>2, <3>3, <3>4
  <2>3. CASE Restart
    <3>1. causes' \subseteq causes \cup {"lost", "halfway", "torn", "kept"} /\ faults' \in 0 .. MaxFaults
      BY <2>3 DEF Restart
    <3>2. req' \in [Requests -> [op: Ops, pc: Steps, pw: Secrets, value: Values]]
      BY <2>3 DEF Restart
    <3>3. QED  BY <2>3, <3>1, <3>2 DEF Restart
  <2>4. QED  BY <1>19, <2>1, <2>2, <2>3
<1>20. QED
  BY <1>1, <1>2, <1>3, <1>4, <1>5, <1>6, <1>7, <1>8, <1>9, <1>10, <1>11, <1>12, <1>13, <1>14, <1>15, <1>16, <1>17, <1>18, <1>19 DEF Handle

\* What a step must leave alone for the invariant not to notice it.
Harmless ==
  /\ stored' = stored /\ causes \subseteq causes' /\ file' = file
  /\ url' = url \/ (~url'.managed /\ url'.value \in {Typed, Unset})
  /\ \A q \in Requests :
       req'[q] = req[q] \/ (req'[q].pc # "seturl" /\ req'[q].value \in {req[q].value, Unset})

LEMMA HarmlessKeeps ==
  ASSUME KnownInv, TypeOK', Harmless
  PROVE  KnownInv'
<1>1. HandMade'
  BY Naming DEF KnownInv, HandMade, Harmless
<1>2. Carried'
  BY Naming DEF KnownInv, Carried, Harmless
<1>3. CredentialsAreKnown'
  BY DEF KnownInv, CredentialsAreKnown, Harmless
<1>4. QED  BY <1>1, <1>2, <1>3 DEF KnownInv

LEMMA HarmlessSteps ==
  ASSUME TypeOK, NEW r \in Requests,
         \/ Create(r)
         \/ EnvSet(r)
         \/ Drop(r)
         \/ Get(r)
         \/ EnvDelete(r)
         \/ \E db \in {"managed", "external", "neither"} : Provision(r, db)
         \/ \E pw \in Passwords : CreateContainer(r, pw)
         \/ \E pw \in Passwords : CreateFails(r, pw)
         \/ ContainerExists(r)
         \/ CheckManaged(r)
         \/ SetExternal(r)
         \/ SetTyped(r)
         \/ WriteFails(r)
         \/ RemoveContainer(r)
         \/ RemoveVolume(r)
         \/ RemoveFails(r)
         \/ ForgetRow(r)
         \/ UnsetUrl(r)
         \/ Detect(r)
         \/ Restart
  PROVE  Harmless
<1> USE DEF TypeOK, Harmless, At, Carry, Go, Done, Begin, BeginWith, Blame, Fault, Idle, NoRow, NoUrl, UrlBecomes
<1>1. CASE Create(r)
  BY <1>1 DEF Create
<1>2. CASE EnvSet(r)
  BY <1>2 DEF EnvSet
<1>3. CASE Drop(r)
  BY <1>3 DEF Drop
<1>4. CASE Get(r)
  BY <1>4 DEF Get
<1>5. CASE EnvDelete(r)
  BY <1>5 DEF EnvDelete
<1>6. CASE \E db \in {"managed", "external", "neither"} : Provision(r, db)
  BY <1>6 DEF Provision
<1>7. CASE \E pw \in Passwords : CreateContainer(r, pw)
  BY <1>7 DEF CreateContainer
<1>8. CASE \E pw \in Passwords : CreateFails(r, pw)
  BY <1>8 DEF CreateFails
<1>9. CASE ContainerExists(r)
  BY <1>9 DEF ContainerExists
<1>10. CASE CheckManaged(r)
  BY <1>10 DEF CheckManaged
<1>11. CASE SetExternal(r)
  BY <1>11 DEF SetExternal
<1>12. CASE SetTyped(r)
  BY <1>12 DEF SetTyped
<1>13. CASE WriteFails(r)
  BY <1>13 DEF WriteFails
<1>14. CASE RemoveContainer(r) \/ RemoveVolume(r)
  BY <1>14 DEF RemoveContainer, RemoveVolume
<1>15. CASE RemoveFails(r)
  BY <1>15 DEF RemoveFails
<1>16. CASE ForgetRow(r)
  BY <1>16 DEF ForgetRow
<1>17. CASE UnsetUrl(r)
  BY <1>17 DEF UnsetUrl
<1>18. CASE Detect(r)
  BY <1>18 DEF Detect
<1>19. CASE Restart
  BY <1>19 DEF Restart
<1>20. QED
  BY <1>1, <1>2, <1>3, <1>4, <1>5, <1>6, <1>7, <1>8, <1>9, <1>10, <1>11, <1>12, <1>13, <1>14, <1>15, <1>16, <1>17, <1>18, <1>19

\* The row is stored before the request may set the variable.
LEMMA StoreRowKeeps ==
  ASSUME KnownInv, TypeOK', NEW r \in Requests, StoreRow(r)
  PROVE  KnownInv'
<1>1. /\ stored' = stored \cup {req[r].pw}
      /\ req' = [req EXCEPT ![r] = [op |-> req[r].op, pc |-> "seturl", pw |-> req[r].pw,
                                    value |-> req[r].value]]
      /\ UNCHANGED <<url, file>> /\ causes \subseteq causes'
  BY DEF StoreRow, Go, Carry, Blame
<1>2. Carried'
  BY <1>1 DEF KnownInv, TypeOK, Carried
<1>3. HandMade' /\ CredentialsAreKnown'
  BY <1>1 DEF KnownInv, HandMade, CredentialsAreKnown
<1>4. QED  BY <1>2, <1>3 DEF KnownInv

\* So the variable it sets holds a stored password.
LEMMA SetUrlKeeps ==
  ASSUME KnownInv, TypeOK', NEW r \in Requests, SetUrl(r)
  PROVE  KnownInv'
<1>1. /\ url' = [managed |-> TRUE, value |-> req[r].pw]
      /\ causes \subseteq causes'
      /\ At(r, "seturl")
      /\ \E pc \in {"vars", "check"} : Go(r, pc)
      /\ UNCHANGED <<file, stored>>
  BY DEF SetUrl, UrlBecomes
<1>2. HandMade'
  BY <1>1 DEF HandMade
<1>3. Carried'
  BY <1>1 DEF KnownInv, TypeOK, Carried, Go, Carry
<1>4. CredentialsAreKnown'
  BY <1>1 DEF KnownInv, Carried, CredentialsAreKnown, At
<1>5. QED  BY <1>2, <1>3, <1>4 DEF KnownInv

\* What is read for the file is no password, or a stored one.
LEMMA ReadVarsKeeps ==
  ASSUME KnownInv, TypeOK', NEW r \in Requests, ReadVars(r)
  PROVE  KnownInv'
<1>1. /\ req' = [req EXCEPT ![r] = [op |-> req[r].op, pc |-> "write", pw |-> req[r].pw,
                                    value |-> url.value]]
      /\ UNCHANGED <<url, file, stored, causes>>
  BY DEF ReadVars, Carry
<1>2. "store" \notin causes /\ url.value \in Passwords => url.value \in stored
  BY DEF KnownInv, HandMade, CredentialsAreKnown
<1>3. Carried'
  BY <1>1, <1>2 DEF KnownInv, TypeOK, Carried
<1>4. HandMade' /\ CredentialsAreKnown'
  BY <1>1 DEF KnownInv, HandMade, CredentialsAreKnown
<1>5. QED  BY <1>3, <1>4 DEF KnownInv

LEMMA WriteFileKeeps ==
  ASSUME KnownInv, TypeOK', NEW r \in Requests, WriteFile(r)
  PROVE  KnownInv'
<1>1. /\ file' = req[r].value /\ req' = [req EXCEPT ![r] = Idle]
      /\ UNCHANGED <<url, stored, causes>>
  BY DEF WriteFile, Done
<1>2. Carried'
  BY <1>1, Naming DEF KnownInv, TypeOK, Carried, Idle
<1>3. HandMade' /\ CredentialsAreKnown'
  BY <1>1 DEF KnownInv, HandMade, Carried, CredentialsAreKnown
<1>4. QED  BY <1>2, <1>3 DEF KnownInv

\* A write that failed is what the invariant makes an exception for.
LEMMA WriteIsLostKeeps ==
  ASSUME KnownInv, TypeOK', NEW r \in Requests, WriteIsLost(r)
  PROVE  KnownInv'
<1>1. "store" \in causes' /\ url' = url
  BY DEF WriteIsLost
<1>2. QED  BY <1>1 DEF KnownInv, HandMade, Carried, CredentialsAreKnown

LEMMA KnownNext == KnownInv /\ [Next]_vars => KnownInv'
<1> SUFFICES ASSUME KnownInv, [Next]_vars PROVE KnownInv'
  OBVIOUS
<1>1. ASSUME NEW r \in Requests, Handle(r) PROVE KnownInv'
  <2>1. TypeOK'
    BY <1>1, StepType DEF KnownInv
  <2>2. CASE StoreRow(r)
    BY <2>1, <2>2, StoreRowKeeps
  <2>3. CASE SetUrl(r)
    BY <2>1, <2>3, SetUrlKeeps
  <2>4. CASE ReadVars(r)
    BY <2>1, <2>4, ReadVarsKeeps
  <2>5. CASE WriteFile(r)
    BY <2>1, <2>5, WriteFileKeeps
  <2>6. CASE WriteIsLost(r)
    BY <2>1, <2>6, WriteIsLostKeeps
  <2>7. CASE ~(StoreRow(r) \/ SetUrl(r) \/ ReadVars(r) \/ WriteFile(r) \/ WriteIsLost(r))
    <3>1. Harmless
      BY <1>1, <2>7, HarmlessSteps DEF KnownInv, Handle
    <3>2. QED  BY <2>1, <3>1, HarmlessKeeps
  <2>8. QED  BY <2>2, <2>3, <2>4, <2>5, <2>6, <2>7
<1>2. CASE Restart
  <2>1. PICK r \in Requests : req[r] # Idle
    BY <1>2 DEF Restart
  <2>2. TypeOK'
    BY <1>2, StepType DEF KnownInv
  <2>3. Harmless
    BY <1>2, HarmlessSteps DEF KnownInv
  <2>4. QED  BY <2>2, <2>3, HarmlessKeeps
<1>3. CASE UNCHANGED vars
  BY <1>3 DEF vars, KnownInv, TypeOK, HandMade, Carried, CredentialsAreKnown
<1>4. QED  BY <1>1, <1>2, <1>3 DEF Next

LEMMA KnownInvariance == Spec => []KnownInv
<1>1. QED  BY KnownInit, KnownNext, PTL DEF Spec

\* The tables, docker, the file and the requests keep their types.
THEOREM TypeCorrect == Spec => []TypeOK
<1>1. KnownInv => TypeOK
  BY DEF KnownInv
<1>2. QED  BY <1>1, KnownInvariance, PTL

\* The app is never given a database password that webo's table has not held,
\* however many requests run side by side and wherever a restart cuts them.
THEOREM AppsGetKnownCredentials == Spec => []CredentialsAreKnown
<1>1. KnownInv => CredentialsAreKnown
  BY DEF KnownInv
<1>2. QED  BY <1>1, KnownInvariance, PTL

-----------------------------------------------------------------------------
(* The database that is reached, whichever requests cross.                  *)

\* A password that was not generated yet is nowhere; a request past the
\* container carries one that was.
Generated ==
  /\ container \in used \cup {Unset} /\ row.pw \in used \cup {Unset}
  /\ \A r \in Requests :
       /\ req[r].pw \in used \cup {Unset}
       /\ req[r].pc \in {"store", "seturl"} => req[r].pw # Unset

\* The container that is in a row, or will be.
Meant == container = row.pw \/ \E r \in Requests : req[r].pc = "store" /\ req[r].pw = container

\* A volume is kept for no container, and a container meant has the volume it
\* initialised.
Housed ==
  /\ container = Unset /\ Never({"kept"}) /\ Quiet({"volume"}) => volume = Unset
  /\ container # Unset /\ Meant => volume # Unset
  /\ container # Unset /\ Meant /\ Never({"kept"}) /\ Quiet({"volume"}) => volume = container

\* A drop past the container means another than the one that is there.
Removed ==
  Never({"docker", "hidden"}) =>
    \A r \in Requests : req[r].pc \in {"volume", "forget"} /\ req[r].pw # Unset => req[r].pw # container

\* Whoever created the container that is there stores it.
Storing ==
  container # Unset /\ Never({"raced", "hidden", "lost", "docker", "store"}) => Meant

\* Whoever is about to set the variable has stored its row, which may be gone.
Ahead ==
  Never({"raced", "torn"}) =>
    \A r \in Requests : req[r].pc = "seturl" /\ req[r].pw = container => row.pw \in {Unset, req[r].pw}

\* The variable opens the row's database, or is about to.
Opened ==
  row.pw # Unset /\ Never({"raced", "torn"}) =>
    \/ \E r \in Requests : req[r].pc = "seturl" /\ req[r].pw = row.pw
    \/ /\ url.managed => url.value = row.pw
       /\ Never({"overwritten"}) => url.managed

ReachInv == TypeOK /\ Generated /\ Housed /\ Removed /\ Storing /\ Ahead /\ Opened /\ RowHasItsContainer

LEMMA ReachInit == Init => ReachInv
<1> SUFFICES ASSUME Init PROVE ReachInv
  OBVIOUS
<1>1. TypeOK
  BY KnownInit DEF KnownInv
<1>2. \A r \in Requests : req[r].pc = "idle" /\ req[r].pw = Unset
  BY DEF Init, Idle
<1>3. row.pw = Unset /\ container = Unset /\ volume = Unset
  BY DEF Init, NoRow
<1>4. QED
  BY <1>1, <1>2, <1>3 DEF ReachInv, Generated, Housed, Removed, Storing, Ahead, Opened, RowHasItsContainer

\* A step of one request to a step that has nothing of the database in hand,
\* which leaves docker and the row's password alone.
Database == {"store", "seturl", "volume", "forget"}

Aside(r) ==
  /\ \A s \in Requests \ {r} : req'[s] = req[s]
  /\ req[r].pc \notin Database /\ req'[r].pc \notin Database /\ req'[r].pw \in used \cup {Unset}
  /\ row'.pw = row.pw /\ UNCHANGED <<container, volume, used>>
  /\ causes \subseteq causes'
  /\ url' = url \/ (~url'.managed /\ (url.managed => "overwritten" \in causes'))

LEMMA AsideKeeps ==
  ASSUME ReachInv, TypeOK', NEW r \in Requests, Aside(r)
  PROVE  ReachInv'
<1> USE DEF ReachInv, Aside, Database
<1>1. \A pcs \in SUBSET Database : Quiet(pcs)' <=> Quiet(pcs)
  BY DEF Quiet
<1>2. \A named : Never(named)' => Never(named)
  BY DEF Never
<1>3. Generated'
  BY DEF Generated
<1>4. Meant' <=> Meant
  BY DEF Meant
<1>5. Housed'
  BY <1>1, <1>2, <1>4 DEF Housed
<1>6. Removed'
  BY <1>2 DEF Removed
<1>7. Storing'
  BY <1>2, <1>4 DEF Storing
<1>8. Ahead'
  BY <1>2 DEF Ahead
<1>9. Opened'
  BY <1>2 DEF Opened, Never
<1>10. RowHasItsContainer'
  BY <1>1, <1>2 DEF RowHasItsContainer
<1>11. QED  BY <1>3, <1>5, <1>6, <1>7, <1>8, <1>9, <1>10

LEMMA AsideSteps ==
  ASSUME ReachInv, NEW r \in Requests, req[r].op = "idle" => req[r].pc = "idle",
         \/ Create(r) \/ EnvSet(r) \/ EnvDelete(r) \/ Get(r)
         \/ Drop(r) /\ row.kind = "postgres"
         \/ \E db \in {"managed", "external", "neither"} : Provision(r, db)
         \/ ContainerExists(r) \/ SetExternal(r) \/ CheckManaged(r) \/ SetTyped(r)
         \/ ReadVars(r) \/ WriteFile(r) \/ WriteFails(r) \/ UnsetUrl(r) \/ Detect(r)
  PROVE  Aside(r)
<1> USE DEF ReachInv, Generated, Aside, Database, TypeOK, At, Carry, Go, Done, Begin, BeginWith, Blame, Idle, NoUrl, UrlBecomes
<1>1. CASE Create(r) \/ EnvSet(r) \/ EnvDelete(r) \/ Get(r)
  BY <1>1 DEF Create, EnvSet, EnvDelete, Get
<1>2. CASE Drop(r) /\ row.kind = "postgres"
  BY <1>2 DEF Drop
<1>3. CASE \E db \in {"managed", "external", "neither"} : Provision(r, db)
  BY <1>3 DEF Provision
<1>4. CASE ContainerExists(r) \/ SetExternal(r)
  BY <1>4 DEF ContainerExists, SetExternal
<1>5. CASE CheckManaged(r) \/ SetTyped(r)
  BY <1>5 DEF CheckManaged, SetTyped
<1>6. CASE ReadVars(r) \/ WriteFile(r) \/ WriteFails(r)
  BY <1>6 DEF ReadVars, WriteFile, WriteFails
<1>7. CASE UnsetUrl(r)
  BY <1>7 DEF UnsetUrl
<1>8. CASE Detect(r)
  BY <1>8 DEF Detect
<1>9. QED  BY <1>1, <1>2, <1>3, <1>4, <1>5, <1>6, <1>7, <1>8

\* What a step of one request does to that request, as functions see it.
LEMMA CarryIs ==
  ASSUME TypeOK, NEW r \in Requests, NEW pc, NEW pw, NEW value, Carry(r, pc, pw, value)
  PROVE  req'[r].pc = pc /\ req'[r].pw = pw /\ \A s \in Requests \ {r} : req'[s] = req[s]
BY DEF Carry, TypeOK

\* A row that only says SQLite is dropped without its container.
LEMMA DropReaches ==
  ASSUME ReachInv, TypeOK', NEW r \in Requests, req[r].op = "idle" => req[r].pc = "idle",
         Drop(r), row.kind # "postgres"
  PROVE  ReachInv'
<1>1. /\ req[r].pc = "idle" /\ req'[r].pc = "forget" /\ req'[r].pw = row.pw
      /\ \A s \in Requests \ {r} : req'[s] = req[s]
      /\ row.pw # Unset => "hidden" \in causes'
      /\ causes \subseteq causes' /\ UNCHANGED <<row, url, container, volume, used>>
  BY DEF ReachInv, TypeOK, Drop, BeginWith, Blame
<1>2. \A named : Never(named)' => Never(named)
  BY <1>1 DEF Never
<1>3. Quiet({"volume"})' <=> Quiet({"volume"})
  BY <1>1 DEF Quiet
<1>4. Generated' /\ (Meant' <=> Meant)
  BY <1>1 DEF ReachInv, Generated, Meant
<1>5. Housed' /\ Storing'
  BY <1>1, <1>2, <1>3, <1>4 DEF ReachInv, Housed, Storing
<1>6. Removed'
  BY <1>1, <1>2 DEF ReachInv, Removed, Never
<1>7. Ahead' /\ Opened'
  BY <1>1, <1>2 DEF ReachInv, Ahead, Opened
<1>8. RowHasItsContainer'
  BY <1>1 DEF RowHasItsContainer, Quiet
<1>9. QED  BY <1>4, <1>5, <1>6, <1>7, <1>8 DEF ReachInv

\* A new container has a password of its own, and a volume of its own where none
\* was kept.
LEMMA CreateContainerReaches ==
  ASSUME ReachInv, TypeOK', NEW r \in Requests, NEW pw \in Passwords, CreateContainer(r, pw)
  PROVE  ReachInv'
<1>1. /\ req[r].pc = "create" /\ container = Unset /\ container' = pw /\ pw \notin used \cup {Unset}
      /\ volume' = (IF volume = Unset THEN pw ELSE volume) /\ used' = used \cup {pw}
      /\ Carry(r, "store", pw, req[r].value) /\ UNCHANGED <<row, url, causes>>
  BY Naming DEF CreateContainer, At
<1>2. /\ req'[r].pc = "store" /\ req'[r].pw = pw
      /\ \A s \in Requests \ {r} : req'[s] = req[s]
  BY <1>1, CarryIs DEF ReachInv
<1>3. \A pcs \in SUBSET {"volume", "forget", "seturl"} : Quiet(pcs)' <=> Quiet(pcs)
  BY <1>1, <1>2 DEF Quiet
<1>4. \A named : Never(named)' <=> Never(named)
  BY <1>1 DEF Never
<1>5. Generated'
  BY <1>1, <1>2 DEF ReachInv, Generated
<1>6. Housed'
  BY <1>1, <1>3, <1>4 DEF ReachInv, Housed
<1>7. Removed'
  BY <1>1, <1>2, <1>4 DEF ReachInv, Removed, Generated
<1>8. Storing'
  BY <1>1, <1>2 DEF Storing, Meant
<1>9. Ahead'
  BY <1>1, <1>2 DEF ReachInv, Ahead, Generated
<1>10. Opened'
  BY <1>1, <1>2, <1>4 DEF ReachInv, Opened
<1>11. RowHasItsContainer'
  BY <1>1, <1>3, <1>4 DEF ReachInv, RowHasItsContainer
<1>12. QED  BY <1>5, <1>6, <1>7, <1>8, <1>9, <1>10, <1>11 DEF ReachInv

LEMMA CreateFailsReaches ==
  ASSUME ReachInv, TypeOK', NEW r \in Requests, NEW pw \in Passwords, CreateFails(r, pw)
  PROVE  ReachInv'
<1>1. /\ req[r].pc = "create" /\ req'[r] = Idle /\ \A s \in Requests \ {r} : req'[s] = req[s]
      /\ container = Unset /\ pw \notin used \cup {Unset}
      /\ \/ container' = pw /\ used' = used \cup {pw}
         \/ UNCHANGED <<container, used>>
      /\ causes' = causes \cup {"docker"} /\ UNCHANGED <<row, url, volume>>
  BY Naming DEF CreateFails, At, Done, ReachInv, TypeOK
<1>2. Idle.pc = "idle" /\ Idle.pw = Unset
  BY DEF Idle
<1>3. \A pcs \in SUBSET {"volume", "forget", "seturl"} : Quiet(pcs)' <=> Quiet(pcs)
  BY <1>1, <1>2 DEF Quiet
<1>4. \A named : Never(named)' => Never(named)
  BY <1>1 DEF Never
<1>5. Generated'
  BY <1>1, <1>2 DEF ReachInv, Generated
<1>6. container' # Unset => ~Meant'
  BY <1>1, <1>2 DEF ReachInv, Generated, Meant
<1>7. Housed'
  BY <1>1, <1>3, <1>4, <1>6 DEF ReachInv, Housed
<1>8. Removed' /\ Storing'
  BY <1>1 DEF Removed, Storing, Never
<1>9. Ahead'
  BY <1>1, <1>2, <1>4 DEF ReachInv, Ahead, Generated
<1>10. Opened'
  BY <1>1, <1>2, <1>4 DEF ReachInv, Opened, Never
<1>11. RowHasItsContainer'
  BY <1>1, <1>3, <1>4 DEF ReachInv, RowHasItsContainer
<1>12. QED  BY <1>5, <1>7, <1>8, <1>9, <1>10, <1>11 DEF ReachInv

\* The row gets the password of the container that is there, or it is noted.
LEMMA StoreRowReaches ==
  ASSUME ReachInv, TypeOK', NEW r \in Requests, StoreRow(r)
  PROVE  ReachInv'
<1>1. /\ req[r].pc = "store" /\ row'.pw = req[r].pw
      /\ Carry(r, "seturl", req[r].pw, req[r].value)
      /\ causes \subseteq causes' /\ (req[r].pw # container => "raced" \in causes')
      /\ UNCHANGED <<url, container, volume, used>>
  BY DEF StoreRow, At, Go, Blame
<1>2. /\ req'[r].pc = "seturl" /\ req'[r].pw = req[r].pw
      /\ \A s \in Requests \ {r} : req'[s] = req[s]
  BY <1>1, CarryIs DEF ReachInv
<1>3. \A pcs \in SUBSET {"volume", "forget"} : Quiet(pcs)' <=> Quiet(pcs)
  BY <1>1, <1>2 DEF Quiet
<1>4. \A named : Never(named)' => Never(named)
  BY <1>1 DEF Never
<1>5. Generated'
  BY <1>1, <1>2 DEF ReachInv, Generated
<1>6. Meant' => Meant
  BY <1>1, <1>2 DEF Meant
<1>7. Housed'
  BY <1>1, <1>3, <1>4, <1>6 DEF ReachInv, Housed
<1>8. Removed'
  BY <1>1, <1>2, <1>4 DEF ReachInv, Removed
<1>9. Storing'
  BY <1>1 DEF Storing, Meant, Never
<1>10. Ahead'
  BY <1>1, <1>2 DEF Ahead, Never
<1>11. Opened'
  BY <1>1, <1>2 DEF Opened
<1>12. RowHasItsContainer'
  <2>1. req[r].pw = container \/ ~Never({"raced", "halfway"})'
    BY <1>1 DEF Never
  <2>2. CASE req[r].pw = container
    <3>1. container # Unset /\ Meant
      BY <1>1, <2>2 DEF ReachInv, Generated, Meant
    <3>2. Never({"kept"})' /\ Quiet({"volume", "forget"})' => volume = container
      BY <1>3, <1>4, <3>1 DEF ReachInv, Housed, Quiet
    <3>3. QED  BY <1>1, <2>2, <3>2 DEF RowHasItsContainer
  <2>3. QED  BY <2>1, <2>2 DEF RowHasItsContainer
<1>13. QED  BY <1>5, <1>7, <1>8, <1>9, <1>10, <1>11, <1>12 DEF ReachInv

LEMMA SetUrlReaches ==
  ASSUME ReachInv, TypeOK', NEW r \in Requests, SetUrl(r)
  PROVE  ReachInv'
<1>1. /\ req[r].pc = "seturl" /\ url' = [managed |-> TRUE, value |-> req[r].pw]
      /\ causes \subseteq causes' /\ (req[r].pw # container => "raced" \in causes')
      /\ UNCHANGED <<row, container, volume, used>>
  BY DEF SetUrl, At, UrlBecomes
<1>2. PICK pc \in {"vars", "check"} : Carry(r, pc, req[r].pw, req[r].value)
  BY DEF SetUrl, Go
<1>3. /\ req'[r].pc = pc /\ req'[r].pw = req[r].pw
      /\ \A s \in Requests \ {r} : req'[s] = req[s]
  BY <1>2, CarryIs DEF ReachInv
<1>4. \A pcs \in SUBSET {"volume", "forget"} : Quiet(pcs)' <=> Quiet(pcs)
  BY <1>1, <1>3 DEF Quiet
<1>5. \A named : Never(named)' => Never(named)
  BY <1>1 DEF Never
<1>6. Generated' /\ (Meant' <=> Meant)
  BY <1>1, <1>3 DEF ReachInv, Generated, Meant
<1>7. Housed' /\ Storing'
  BY <1>1, <1>4, <1>5, <1>6 DEF ReachInv, Housed, Storing
<1>8. Removed' /\ Ahead'
  BY <1>1, <1>3, <1>5 DEF ReachInv, Removed, Ahead
<1>9. Opened'
  <2>1. Never({"raced", "torn"})' => req[r].pw = container /\ Never({"raced", "torn"})
    BY <1>1 DEF Never
  <2>2. QED  BY <1>1, <2>1 DEF ReachInv, Ahead, Opened
<1>10. RowHasItsContainer'
  BY <1>1, <1>4, <1>5 DEF ReachInv, RowHasItsContainer
<1>11. QED  BY <1>6, <1>7, <1>8, <1>9, <1>10 DEF ReachInv

\* A drop that has removed the container is at its volume, then at its row.
LEMMA RemoveContainerReaches ==
  ASSUME ReachInv, TypeOK', NEW r \in Requests, RemoveContainer(r)
  PROVE  ReachInv'
<1>1. /\ req[r].pc = "drop" /\ container' = Unset /\ Carry(r, "volume", req[r].pw, req[r].value)
      /\ causes \subseteq causes' /\ UNCHANGED <<row, url, volume, used>>
  BY DEF RemoveContainer, At, Go, Blame
<1>2. /\ req'[r].pc = "volume" /\ req'[r].pw = req[r].pw
      /\ \A s \in Requests \ {r} : req'[s] = req[s]
  BY <1>1, CarryIs DEF ReachInv
<1>3. ~Quiet({"volume"})' /\ ~Quiet({"volume", "forget"})'
  BY <1>2 DEF Quiet
<1>4. \A named : Never(named)' => Never(named)
  BY <1>1 DEF Never
<1>5. Generated'
  BY <1>1, <1>2 DEF ReachInv, Generated
<1>6. Housed' /\ RowHasItsContainer' /\ Storing'
  BY <1>1, <1>3 DEF Housed, RowHasItsContainer, Storing
<1>7. Removed' /\ Ahead'
  BY <1>1, <1>2, <1>5 DEF Removed, Ahead, Generated
<1>8. Opened'
  BY <1>1, <1>2, <1>4 DEF ReachInv, Opened
<1>9. QED  BY <1>5, <1>6, <1>7, <1>8 DEF ReachInv

LEMMA RemoveVolumeReaches ==
  ASSUME ReachInv, TypeOK', NEW r \in Requests, RemoveVolume(r)
  PROVE  ReachInv'
<1>1. /\ req[r].pc = "volume" /\ Carry(r, "forget", req[r].pw, req[r].value)
      /\ volume' = (IF container = Unset THEN Unset ELSE volume)
      /\ causes \subseteq causes' /\ (volume' # Unset => "kept" \in causes')
      /\ UNCHANGED <<row, url, container, used>>
  BY DEF RemoveVolume, At, Go, Blame
<1>2. /\ req'[r].pc = "forget" /\ req'[r].pw = req[r].pw
      /\ \A s \in Requests \ {r} : req'[s] = req[s]
  BY <1>1, CarryIs DEF ReachInv
<1>3. ~Quiet({"volume", "forget"})'
  BY <1>2 DEF Quiet
<1>4. \A named : Never(named)' => Never(named)
  BY <1>1 DEF Never
<1>5. Generated' /\ (Meant' <=> Meant)
  BY <1>1, <1>2 DEF ReachInv, Generated, Meant
<1>6. Housed'
  BY <1>1, <1>5 DEF ReachInv, Housed, Never
<1>7. RowHasItsContainer'
  BY <1>3 DEF RowHasItsContainer
<1>8. Storing' /\ Removed' /\ Ahead' /\ Opened'
  BY <1>1, <1>2, <1>4, <1>5 DEF ReachInv, Storing, Removed, Ahead, Opened
<1>9. QED  BY <1>5, <1>6, <1>7, <1>8 DEF ReachInv

LEMMA RemoveFailsReaches ==
  ASSUME ReachInv, TypeOK', NEW r \in Requests, RemoveFails(r)
  PROVE  ReachInv'
<1>1. /\ causes \subseteq causes' /\ "docker" \in causes' /\ UNCHANGED <<row, url, container, volume, used>>
      /\ \/ req[r].pc = "drop" /\ Carry(r, "volume", req[r].pw, req[r].value)
         \/ /\ req[r].pc = "volume" /\ Carry(r, "forget", req[r].pw, req[r].value)
            /\ "kept" \in causes'
  BY DEF RemoveFails, At, Go
<1>2. /\ req'[r].pc \in {"volume", "forget"} /\ req'[r].pw = req[r].pw
      /\ req'[r].pc = "volume" \/ "kept" \in causes'
      /\ \A s \in Requests \ {r} : req'[s] = req[s]
  BY <1>1, CarryIs DEF ReachInv
<1>3. ~Quiet({"volume", "forget"})' /\ (~Quiet({"volume"})' \/ ~Never({"kept"})')
  BY <1>2 DEF Quiet, Never
<1>4. \A named : Never(named)' => Never(named)
  BY <1>1 DEF Never
<1>5. Generated' /\ (Meant' <=> Meant)
  BY <1>1, <1>2 DEF ReachInv, Generated, Meant
<1>6. Housed' /\ RowHasItsContainer'
  BY <1>1, <1>3, <1>5 DEF ReachInv, Housed, RowHasItsContainer
<1>7. Storing' /\ Removed'
  BY <1>1 DEF Storing, Removed, Never
<1>8. Ahead' /\ Opened'
  BY <1>1, <1>2, <1>4 DEF ReachInv, Ahead, Opened
<1>9. QED  BY <1>5, <1>6, <1>7, <1>8 DEF ReachInv

\* The row that is forgotten is the one that was meant, or it is noted.
LEMMA ForgetRowReaches ==
  ASSUME ReachInv, TypeOK', NEW r \in Requests, ForgetRow(r)
  PROVE  ReachInv'
<1>1. /\ req[r].pc = "forget" /\ Carry(r, "unset", req[r].pw, req[r].value)
      /\ row'.pw = Unset /\ causes \subseteq causes' /\ (row.pw # req[r].pw => "raced" \in causes')
      /\ UNCHANGED <<url, container, volume, used>>
  BY DEF ForgetRow, At, Go, NoRow, Blame
<1>2. /\ req'[r].pc = "unset" /\ req'[r].pw = req[r].pw
      /\ \A s \in Requests \ {r} : req'[s] = req[s]
  BY <1>1, CarryIs DEF ReachInv
<1>3. Quiet({"volume"})' <=> Quiet({"volume"})
  BY <1>1, <1>2 DEF Quiet
<1>4. \A named : Never(named)' => Never(named)
  BY <1>1 DEF Never
<1>5. Generated' /\ (container # Unset /\ Meant' => Meant)
  BY <1>1, <1>2 DEF ReachInv, Generated, Meant
<1>6. Housed'
  BY <1>1, <1>3, <1>4, <1>5 DEF ReachInv, Housed
<1>7. Removed'
  BY <1>1, <1>2, <1>4 DEF ReachInv, Removed
<1>8. Storing'
  <2>1. SUFFICES ASSUME container # Unset, Never({"raced", "hidden", "lost", "docker", "store"})' PROVE Meant'
    BY <1>1 DEF Storing
  <2>2. Meant /\ row.pw = req[r].pw
    BY <1>1, <1>4, <2>1 DEF ReachInv, Storing, Never
  <2>3. row.pw # container
    BY <1>1, <1>4, <2>1, <2>2 DEF ReachInv, Removed, Never
  <2>4. QED  BY <1>1, <1>2, <2>2, <2>3 DEF Meant
<1>9. Ahead' /\ Opened' /\ RowHasItsContainer'
  BY <1>1 DEF Ahead, Opened, RowHasItsContainer
<1>10. QED  BY <1>5, <1>6, <1>7, <1>8, <1>9 DEF ReachInv

LEMMA WriteIsLostReaches ==
  ASSUME ReachInv, TypeOK', NEW r \in Requests, WriteIsLost(r)
  PROVE  ReachInv'
<1>1. /\ causes \subseteq causes' /\ "store" \in causes'
      /\ req[r].pc = "forget" => "halfway" \in causes'
      /\ req[r].pc \in {"store", "seturl"} => "torn" \in causes'
      /\ UNCHANGED <<row, url, container, volume, used>>
  BY DEF WriteIsLost, At
<1>2. /\ req[r].pc \notin {"volume", "drop", "create"}
      /\ req'[r].pc \notin {"store", "volume", "forget"}
      /\ req'[r].pc = "seturl" => req[r].pc = "store"
      /\ req'[r].pw \in {req[r].pw, Unset} /\ (req'[r].pw = req[r].pw \/ req'[r].pc = "idle")
      /\ \A s \in Requests \ {r} : req'[s] = req[s]
  BY DEF WriteIsLost, At, Go, Carry, Done, Idle, ReachInv, TypeOK
<1>3. Quiet({"volume"})' => Quiet({"volume"})
  BY <1>2 DEF Quiet
<1>4. \A named : Never(named)' => Never(named)
  BY <1>1 DEF Never
<1>5. Generated' /\ (Meant' => Meant)
  BY <1>1, <1>2 DEF ReachInv, Generated, Meant
<1>6. Housed'
  BY <1>1, <1>3, <1>4, <1>5 DEF ReachInv, Housed
<1>7. Removed'
  BY <1>1, <1>2, <1>4 DEF ReachInv, Removed
<1>8. Storing'
  BY <1>1 DEF Storing, Never
<1>9. CASE req[r].pc \in {"store", "seturl"}
  <2>1. Ahead' /\ Opened'
    BY <1>1, <1>9 DEF Ahead, Opened, Never
  <2>2. Quiet({"volume", "forget"})' => Quiet({"volume", "forget"})
    BY <1>2, <1>9 DEF Quiet
  <2>3. RowHasItsContainer'
    BY <1>1, <1>4, <2>2 DEF ReachInv, RowHasItsContainer
  <2>4. QED  BY <1>5, <1>6, <1>7, <1>8, <2>1, <2>3 DEF ReachInv
<1>10. CASE req[r].pc \notin {"store", "seturl"}
  <2>1. Ahead' /\ Opened'
    BY <1>1, <1>2, <1>4, <1>10 DEF ReachInv, Ahead, Opened
  <2>2. Quiet({"volume", "forget"})' => Quiet({"volume", "forget"}) \/ ~Never({"raced", "halfway"})'
    BY <1>1, <1>2 DEF Quiet, Never
  <2>3. RowHasItsContainer'
    BY <1>1, <1>4, <2>2 DEF ReachInv, RowHasItsContainer
  <2>4. QED  BY <1>5, <1>6, <1>7, <1>8, <2>1, <2>3 DEF ReachInv
<1>11. QED  BY <1>9, <1>10

LEMMA RestartReaches ==
  ASSUME ReachInv, TypeOK', Restart
  PROVE  ReachInv'
<1>1. \A r \in Requests : req'[r].pc = "idle" /\ req'[r].pw = Unset
  BY DEF Restart, Idle
<1>2. /\ causes \subseteq causes' /\ "lost" \in causes'
      /\ ~Quiet({"volume", "forget"}) => "halfway" \in causes'
      /\ ~Quiet({"seturl"}) => "torn" \in causes'
      /\ ~Quiet({"volume"}) => "kept" \in causes'
      /\ UNCHANGED <<row, url, container, volume, used>>
  BY DEF Restart
<1>3. \A named : Never(named)' => Never(named)
  BY <1>2 DEF Never
<1>4. Generated' /\ (container # Unset /\ Meant' => Meant)
  BY <1>1, <1>2 DEF ReachInv, Generated, Meant
<1>5. Housed'
  BY <1>2, <1>3, <1>4 DEF ReachInv, Housed, Never
<1>6. Removed' /\ Storing' /\ Ahead'
  BY <1>1, <1>2 DEF Removed, Storing, Ahead, Never
<1>7. Opened'
  <2>1. Never({"raced", "torn"})' => Quiet({"seturl"})
    BY <1>2 DEF Never
  <2>2. QED  BY <1>2, <1>3, <2>1 DEF ReachInv, Opened, Quiet
<1>8. RowHasItsContainer'
  BY <1>2, <1>3 DEF ReachInv, RowHasItsContainer, Never
<1>9. QED  BY <1>4, <1>5, <1>6, <1>7, <1>8 DEF ReachInv

LEMMA ReachNext == ReachInv /\ (\A r \in Requests : req[r].op = "idle" => req[r].pc = "idle") /\ [Next]_vars => ReachInv'
<1> SUFFICES ASSUME ReachInv, \A r \in Requests : req[r].op = "idle" => req[r].pc = "idle", [Next]_vars
             PROVE  ReachInv'
  OBVIOUS
<1>1. ASSUME NEW r \in Requests, Handle(r) PROVE ReachInv'
  <2>1. TypeOK'
    BY <1>1, StepType DEF ReachInv
  <2>2. CASE Drop(r)
    BY <2>1, <2>2, AsideSteps, AsideKeeps, DropReaches
  <2>3. CASE \E pw \in Passwords : CreateContainer(r, pw) \/ CreateFails(r, pw)
    BY <2>1, <2>3, CreateContainerReaches, CreateFailsReaches
  <2>4. CASE StoreRow(r) \/ SetUrl(r)
    BY <2>1, <2>4, StoreRowReaches, SetUrlReaches
  <2>5. CASE RemoveContainer(r) \/ RemoveVolume(r) \/ RemoveFails(r) \/ ForgetRow(r)
    BY <2>1, <2>5, RemoveContainerReaches, RemoveVolumeReaches, RemoveFailsReaches, ForgetRowReaches
  <2>6. CASE WriteIsLost(r)
    BY <2>1, <2>6, WriteIsLostReaches
  <2>7. CASE \/ Create(r) \/ EnvSet(r) \/ EnvDelete(r) \/ Get(r)
             \/ \E db \in {"managed", "external", "neither"} : Provision(r, db)
             \/ ContainerExists(r) \/ SetExternal(r) \/ CheckManaged(r) \/ SetTyped(r)
             \/ ReadVars(r) \/ WriteFile(r) \/ WriteFails(r) \/ UnsetUrl(r) \/ Detect(r)
    BY <2>1, <2>7, AsideSteps, AsideKeeps
  <2>8. QED  BY <1>1, <2>2, <2>3, <2>4, <2>5, <2>6, <2>7 DEF Handle
<1>2. CASE Restart
  <2>1. PICK r \in Requests : req[r] # Idle
    BY <1>2 DEF Restart
  <2>2. QED  BY <1>2, <2>1, StepType, RestartReaches DEF ReachInv
<1>3. CASE UNCHANGED vars
  <2>1. UNCHANGED <<row, url, container, volume, req, used, causes, Meant>>
    BY <1>3 DEF vars, Meant
  <2>2. \A named : Never(named)' <=> Never(named)
    BY <2>1 DEF Never
  <2>3. \A pcs : Quiet(pcs)' <=> Quiet(pcs)
    BY <2>1 DEF Quiet
  <2>4. TypeOK' /\ Generated'
    BY <1>3 DEF vars, ReachInv, TypeOK, Generated
  <2>5. Housed' /\ Removed' /\ Storing'
    BY <2>1, <2>2, <2>3 DEF ReachInv, Housed, Removed, Storing
  <2>6. Ahead' /\ Opened' /\ RowHasItsContainer'
    BY <2>1, <2>2, <2>3 DEF ReachInv, Ahead, Opened, RowHasItsContainer
  <2>7. QED  BY <2>4, <2>5, <2>6 DEF ReachInv
<1>4. QED  BY <1>1, <1>2, <1>3 DEF Next

-----------------------------------------------------------------------------
(* The file, when every request is answered.                                *)

\* A request that has changed the variable, or may have, and will write the file.
Pending(r) ==
  \/ req[r].pc \in {"vars", "write"}
  \/ req[r].pc \in {"check", "set"} /\ req[r].op = "provision"

\* A request is at a step of its operation.
Placed ==
  \A r \in Requests :
    /\ req[r].op = "idle" => req[r].pc = "idle"
    /\ req[r].pc \in {"create", "store", "seturl"} => req[r].op \in {"create", "provision"}
    /\ req[r].pc = "external" => req[r].op = "provision"

\* What leaves a file behind.
Unfiled == {"lost", "docker", "store", "overtaken", "unsaid"}

\* The file is what the table says, or will be written again; what is about to be
\* written is what the table says.
Filed ==
  Never(Unfiled) =>
    /\ \A r \in Requests : req[r].pc = "write" => req[r].value = url.value
    /\ file = url.value \/ \E r \in Requests : Pending(r)

FileInv == TypeOK /\ Placed /\ Filed

LEMMA FileInit == Init => FileInv
BY KnownInit DEF Init, KnownInv, FileInv, Placed, Filed, NoUrl, Idle

LEMMA PlacedStays ==
  ASSUME FileInv, TypeOK', NEW r \in Requests, Handle(r) PROVE Placed'
<1> USE DEF FileInv, TypeOK, Placed, At, Carry, Go, Done, Begin, BeginWith, Blame, Fault, Idle
<1>1. CASE Create(r) \/ EnvSet(r) \/ EnvDelete(r) \/ Drop(r) \/ Get(r)
  BY <1>1 DEF Create, EnvSet, EnvDelete, Drop, Get
<1>2. CASE \E db \in {"managed", "external", "neither"} : Provision(r, db)
  BY <1>2 DEF Provision
<1>3. CASE \E pw \in Passwords : CreateContainer(r, pw) \/ CreateFails(r, pw)
  BY <1>3 DEF CreateContainer, CreateFails
<1>4. CASE ContainerExists(r) \/ StoreRow(r) \/ SetUrl(r) \/ SetExternal(r)
  BY <1>4 DEF ContainerExists, StoreRow, SetUrl, SetExternal
<1>5. CASE CheckManaged(r) \/ SetTyped(r) \/ ReadVars(r) \/ WriteFile(r) \/ WriteFails(r)
  BY <1>5 DEF CheckManaged, SetTyped, ReadVars, WriteFile, WriteFails
<1>6. CASE RemoveContainer(r) \/ RemoveVolume(r) \/ RemoveFails(r) \/ ForgetRow(r) \/ UnsetUrl(r) \/ Detect(r)
  BY <1>6 DEF RemoveContainer, RemoveVolume, RemoveFails, ForgetRow, UnsetUrl, Detect
<1>7. CASE WriteIsLost(r)
  BY <1>7 DEF WriteIsLost
<1>8. QED  BY <1>1, <1>2, <1>3, <1>4, <1>5, <1>6, <1>7 DEF Handle

\* A step that neither changes the variable nor writes, and forgets no file.
Unwritten(r) ==
  /\ UNCHANGED <<url, file>> /\ causes \subseteq causes'
  /\ \A s \in Requests \ {r} : req'[s] = req[s]
  /\ req'[r].pc # "write" /\ (Pending(r) => Pending(r)')

LEMMA UnwrittenKeeps ==
  ASSUME FileInv, NEW r \in Requests, Unwritten(r) PROVE Filed'
BY DEF FileInv, Filed, Unwritten, Pending, Never

LEMMA UnwrittenSteps ==
  ASSUME FileInv, NEW r \in Requests,
         \/ Create(r) \/ EnvSet(r) \/ Drop(r) \/ Get(r)
         \/ \E db \in {"managed", "external", "neither"} : Provision(r, db)
         \/ \E pw \in Passwords : CreateContainer(r, pw) \/ CreateFails(r, pw)
         \/ ContainerExists(r) \/ StoreRow(r) \/ CheckManaged(r)
         \/ RemoveContainer(r) \/ RemoveVolume(r) \/ RemoveFails(r) \/ ForgetRow(r) \/ Detect(r)
  PROVE  Unwritten(r)
<1> USE DEF FileInv, TypeOK, Placed, Unwritten, Pending, At, Carry, Go, Done, Begin, BeginWith, Blame, Fault, Idle
<1>1. CASE Create(r) \/ EnvSet(r) \/ Drop(r) \/ Get(r)
  BY <1>1 DEF Create, EnvSet, Drop, Get
<1>2. CASE \E db \in {"managed", "external", "neither"} : Provision(r, db)
  BY <1>2 DEF Provision
<1>3. CASE \E pw \in Passwords : CreateContainer(r, pw) \/ CreateFails(r, pw)
  BY <1>3 DEF CreateContainer, CreateFails
<1>4. CASE ContainerExists(r) \/ StoreRow(r)
  BY <1>4 DEF ContainerExists, StoreRow
<1>5. CASE CheckManaged(r)
  BY <1>5 DEF CheckManaged
<1>6. CASE RemoveContainer(r) \/ RemoveVolume(r) \/ RemoveFails(r) \/ ForgetRow(r) \/ Detect(r)
  BY <1>6 DEF RemoveContainer, RemoveVolume, RemoveFails, ForgetRow, Detect
<1>7. QED  BY <1>1, <1>2, <1>3, <1>4, <1>5, <1>6

\* Whoever changes the variable writes the file later; a file that is being
\* written then is noted.
LEMMA ChangeIsFiled ==
  ASSUME FileInv, NEW r \in Requests, NEW u, UrlBecomes(r, u), Pending(r)', req'[r].pc # "write",
         \A s \in Requests \ {r} : req'[s] = req[s]
  PROVE  Filed'
<1>1. /\ url' = u /\ causes \subseteq causes'
      /\ u # url /\ (\E q \in Requests \ {r} : req[q].pc = "write") => "overtaken" \in causes'
  BY DEF UrlBecomes, At
<1>2. Never(Unfiled)' => Never(Unfiled) /\ (u # url => \A q \in Requests \ {r} : req[q].pc # "write")
  BY <1>1 DEF Never, Unfiled
<1>3. Never(Unfiled)' => \A q \in Requests : req'[q].pc = "write" => req'[q].value = url'.value
  BY <1>1, <1>2 DEF FileInv, Filed
<1>4. QED  BY <1>3 DEF Filed

LEMMA ChangeSteps ==
  ASSUME FileInv, NEW r \in Requests, SetUrl(r) \/ SetExternal(r) \/ SetTyped(r) \/ EnvDelete(r)
  PROVE  Filed'
<1>1. PICK u : UrlBecomes(r, u)
  BY DEF SetUrl, SetExternal, SetTyped, EnvDelete
<1>2. Pending(r)' /\ req'[r].pc # "write" /\ \A s \in Requests \ {r} : req'[s] = req[s]
  BY DEF SetUrl, SetExternal, SetTyped, EnvDelete, FileInv, TypeOK, Placed, Pending, At, Carry, Go, Begin, BeginWith
<1>3. QED  BY <1>1, <1>2, ChangeIsFiled

LEMMA FileNext == FileInv /\ [Next]_vars => FileInv'
<1> SUFFICES ASSUME FileInv, [Next]_vars PROVE FileInv'
  OBVIOUS
<1>1. ASSUME NEW r \in Requests, Handle(r) PROVE FileInv'
  <2>1. TypeOK' /\ Placed'
    BY <1>1, StepType, PlacedStays DEF FileInv
  <2>2. CASE SetUrl(r) \/ SetExternal(r) \/ SetTyped(r) \/ EnvDelete(r)
    BY <2>1, <2>2, ChangeSteps DEF FileInv
  <2>3. CASE ReadVars(r)
    <3>1. /\ req'[r].pc = "write" /\ req'[r].value = url.value /\ UNCHANGED <<url, file, causes>>
          /\ \A s \in Requests \ {r} : req'[s] = req[s]
      BY <2>3 DEF ReadVars, Carry, FileInv, TypeOK
    <3>2. Filed'
      BY <3>1 DEF FileInv, Filed, Pending, Never
    <3>3. QED  BY <2>1, <3>2 DEF FileInv
  <2>4. CASE WriteFile(r)
    <3>1. /\ file' = req[r].value /\ req[r].pc = "write" /\ UNCHANGED <<url, causes>>
          /\ req'[r].pc = "idle" /\ \A s \in Requests \ {r} : req'[s] = req[s]
      BY <2>4 DEF WriteFile, Done, At, Idle, FileInv, TypeOK
    <3>2. Filed'
      BY <3>1 DEF FileInv, Filed, Never
    <3>3. QED  BY <2>1, <3>2 DEF FileInv
  <2>5. CASE WriteFails(r) \/ WriteIsLost(r)
    <3>1. ~Never(Unfiled)'
      BY <2>5 DEF WriteFails, WriteIsLost, Never, Unfiled
    <3>2. QED  BY <2>1, <3>1 DEF FileInv, Filed
  <2>6. CASE UnsetUrl(r)
    <3>1. CASE UNCHANGED <<url, causes>>
      <4>1. Unwritten(r)
        BY <2>6, <3>1 DEF UnsetUrl, Unwritten, Pending, At, Done, Idle, FileInv, TypeOK
      <4>2. QED  BY <2>1, <4>1, UnwrittenKeeps DEF FileInv
    <3>2. CASE "unsaid" \in causes'
      BY <2>1, <3>2 DEF FileInv, Filed, Never, Unfiled
    <3>3. QED  BY <2>6, <3>1, <3>2 DEF UnsetUrl
  <2>7. CASE \/ Create(r) \/ EnvSet(r) \/ Drop(r) \/ Get(r)
             \/ \E db \in {"managed", "external", "neither"} : Provision(r, db)
             \/ \E pw \in Passwords : CreateContainer(r, pw) \/ CreateFails(r, pw)
             \/ ContainerExists(r) \/ StoreRow(r) \/ CheckManaged(r)
             \/ RemoveContainer(r) \/ RemoveVolume(r) \/ RemoveFails(r) \/ ForgetRow(r) \/ Detect(r)
    BY <2>1, <2>7, UnwrittenSteps, UnwrittenKeeps DEF FileInv
  <2>8. QED  BY <1>1, <2>2, <2>3, <2>4, <2>5, <2>6, <2>7 DEF Handle
<1>2. CASE Restart
  <2>1. PICK r \in Requests : req[r] # Idle
    BY <1>2 DEF Restart
  <2>2. TypeOK' /\ ~Never(Unfiled)' /\ \A s \in Requests : req'[s] = Idle
    BY <1>2, <2>1, StepType DEF FileInv, Restart, Never, Unfiled
  <2>3. QED  BY <2>2 DEF FileInv, Filed, Placed, Idle
<1>3. CASE UNCHANGED vars
  BY <1>3 DEF vars, FileInv, TypeOK, Placed, Filed, Pending, Never
<1>4. QED  BY <1>1, <1>2, <1>3 DEF Next

\* Once every request is answered the app's file has the variable of the table,
\* for any number of requests and passwords, unless a write failed, was overtaken
\* or cut off, or a drop took a hand-made variable (materialize_env).
THEOREM TheFileFollows == Spec => []FileFollowsTheTable
<1>1. FileInv => FileFollowsTheTable
  BY DEF FileInv, TypeOK, Filed, Unfiled, Pending, FileFollowsTheTable, Never, Quiet
<1>2. QED  BY <1>1, FileInit, FileNext, PTL DEF Spec
-----------------------------------------------------------------------------
(* From the row to what is reached, both invariants together.               *)

\* From the row to the container, its volume and the variable, whichever requests
\* create, provision and drop side by side and wherever they are cut: what breaks
\* the chain is one of the crossings, halves and faults that `causes` names
\* (database_create, do_provision, database_drop).
THEOREM RowsDatabaseIsReached == Spec => []DatabaseIsReached
<1>1. ReachInv => DatabaseIsReached
  <2>1. ASSUME ReachInv PROVE ContainerHasItsRow
    BY <2>1 DEF ReachInv, Storing, Meant, ContainerHasItsRow, Quiet
  <2>2. ASSUME ReachInv PROVE UrlOpensTheDatabase
    BY <2>2 DEF ReachInv, Opened, UrlOpensTheDatabase, Quiet
  <2>3. QED  BY <2>1, <2>2 DEF ReachInv, DatabaseIsReached
<1>2. FileInv => \A r \in Requests : req[r].op = "idle" => req[r].pc = "idle"
  BY DEF FileInv, Placed
<1>3. FileInv /\ ReachInv /\ [Next]_vars => FileInv' /\ ReachInv'
  BY <1>2, FileNext, ReachNext
<1>4. QED  BY <1>1, <1>3, FileInit, ReachInit, PTL DEF Spec
-----------------------------------------------------------------------------
(* The process list *)

Process == [ppid : Nat, program : Programs, ticks : Nat]
Reading == [ppid : Nat, program : Programs, ticks : Nat, cpu : Nat]

ListTypeOK ==
  /\ proc \in [DOMAIN proc -> Process] /\ DOMAIN proc \subseteq Pids
  /\ fresh \in [DOMAIN proc -> Nat] /\ known \subseteq DOMAIN proc /\ todo \subseteq Pids
  /\ raw \in [DOMAIN raw -> Reading] /\ DOMAIN raw \subseteq Pids \ todo
  /\ prev \in [DOMAIN prev -> Nat]

\* What a process has used since its pid was read last: all of it, if that was
\* before its time; else the difference to what was read of it, in this scan or in
\* the one before.
Accounted(pid) ==
  IF pid \notin known THEN fresh[pid] = proc[pid].ticks
  ELSE /\ proc[pid].program.bin # ""
       /\ IF pid \in DOMAIN raw THEN proc[pid].ticks = raw[pid].ticks + fresh[pid]
          ELSE /\ pid \in DOMAIN prev /\ proc[pid].ticks = prev[pid] + fresh[pid]
               /\ pid \in todo \/ (todo = {} /\ raw = Nothing)

ListInv == ListTypeOK /\ \A pid \in DOMAIN proc : Accounted(pid)

LEMMA PidsAre == First \in Pids /\ Pids \subseteq Nat /\ IsFiniteSet(Pids) /\ First + 1 \in Pids
<1>1. Pids \subseteq Int
  BY ListAssumption
<1>2. QED  BY <1>1, ListAssumption, MinIs DEF First

LEMMA NothingIs == DOMAIN Nothing = {} /\ \A f : f = Nothing <=> (f = [x \in DOMAIN f |-> f[x]] /\ DOMAIN f = {})
<1>1. DOMAIN Nothing = {} /\ Nothing = [x \in DOMAIN Nothing |-> Nothing[x]]
  BY DEF Nothing
<1>2. ASSUME NEW f, f = [x \in DOMAIN f |-> f[x]], DOMAIN f = {} PROVE f = Nothing
  BY <1>2 DEF Nothing
<1>3. QED  BY <1>1, <1>2

LEMMA ListBegins == ListInit => ListInv
<1> SUFFICES ASSUME ListInit PROVE ListInv
  OBVIOUS
<1>1. PICK program \in Programs, child \in Programs, others \in SUBSET {First + 1} :
        proc = [pid \in {First} \cup others |->
                  IF pid = First THEN [ppid |-> 0, program |-> program, ticks |-> 0]
                  ELSE [ppid |-> First, program |-> child, ticks |-> 1]]
  BY DEF ListInit
<1>2. DOMAIN proc = {First} \cup others /\ First \in Nat /\ DOMAIN proc \subseteq Pids
  BY <1>1, PidsAre
<1>3. proc \in [DOMAIN proc -> Process]
  BY <1>1, <1>2 DEF Process
<1>4. fresh = [pid \in DOMAIN proc |-> proc[pid].ticks] /\ known = {} /\ todo = {} /\ raw = Nothing /\ prev = Nothing
  BY DEF ListInit
<1>5. fresh \in [DOMAIN proc -> Nat]
  BY <1>3, <1>4 DEF Process
<1>6. raw \in [DOMAIN raw -> Reading] /\ prev \in [DOMAIN prev -> Nat] /\ DOMAIN raw = {}
  BY <1>4 DEF Nothing
<1>7. QED  BY <1>2, <1>3, <1>4, <1>5, <1>6 DEF ListInv, ListTypeOK, Accounted

LEMMA ForkStays ==
  ASSUME ListInv, NEW parent \in Pids, NEW pid \in Pids, NEW program \in Programs, Fork(parent, pid, program)
  PROVE  ListInv'
<1>1. /\ pid \notin DOMAIN proc /\ parent \in Nat /\ UNCHANGED <<todo, raw, prev>>
      /\ known' = known /\ known \subseteq DOMAIN proc
      /\ proc' = Put(proc, pid, [ppid |-> parent, program |-> program, ticks |-> 0])
      /\ fresh' = Put(fresh, pid, 0)
  BY PidsAre DEF Fork, ListInv, ListTypeOK
<1>2. /\ DOMAIN proc' = DOMAIN proc \cup {pid} /\ proc'[pid] = [ppid |-> parent, program |-> program, ticks |-> 0]
      /\ \A p \in DOMAIN proc : proc'[p] = proc[p]
      /\ proc' = [p \in DOMAIN proc' |-> proc'[p]]
  BY <1>1 DEF Put
<1>3. /\ fresh' \in [DOMAIN proc' -> Nat] /\ fresh'[pid] = 0
      /\ \A p \in DOMAIN proc : fresh'[p] = fresh[p]
  BY <1>1, <1>2 DEF Put, ListInv, ListTypeOK
<1>4. proc' \in [DOMAIN proc' -> Process]
  <2>1. \A p \in DOMAIN proc : proc[p] \in Process
    BY DEF ListInv, ListTypeOK
  <2>2. proc'[pid] \in Process
    BY <1>1, <1>2 DEF Process
  <2>3. \A p \in DOMAIN proc' : proc'[p] \in Process
    BY <1>2, <2>1, <2>2
  <2>4. QED  BY <1>2, <2>3
<1>5. ListTypeOK'
  BY <1>1, <1>2, <1>3, <1>4 DEF ListInv, ListTypeOK
<1>6. ASSUME NEW p \in DOMAIN proc' PROVE Accounted(p)'
  <2>1. CASE p = pid
    <3>1. pid \notin known' /\ fresh'[pid] = 0 /\ proc'[pid].ticks = 0
      BY <1>1, <1>2, <1>3
    <3>2. QED  BY <2>1, <3>1 DEF Accounted
  <2>2. CASE p # pid
    <3>1. p \in DOMAIN proc /\ proc'[p] = proc[p] /\ fresh'[p] = fresh[p] /\ Accounted(p)
      BY <1>2, <1>3, <2>2 DEF ListInv
    <3>2. QED  BY <1>1, <3>1 DEF Accounted
  <2>3. QED  BY <2>1, <2>2
<1>7. QED  BY <1>5, <1>6 DEF ListInv

LEMMA RunStays == ASSUME ListInv, NEW pid \in Pids, Run(pid) PROVE ListInv'
<1>1. /\ pid \in DOMAIN proc /\ UNCHANGED <<known, todo, raw, prev>>
      /\ proc' = [proc EXCEPT ![pid].ticks = @ + 1] /\ fresh' = [fresh EXCEPT ![pid] = @ + 1]
      /\ proc \in [DOMAIN proc -> Process] /\ fresh \in [DOMAIN proc -> Nat]
  BY DEF Run, ListInv, ListTypeOK
<1>2. /\ DOMAIN proc' = DOMAIN proc /\ proc' \in [DOMAIN proc -> Process] /\ fresh' \in [DOMAIN proc -> Nat]
      /\ \A p \in DOMAIN proc \ {pid} : proc'[p] = proc[p] /\ fresh'[p] = fresh[p]
      /\ proc'[pid].ticks = proc[pid].ticks + 1 /\ fresh'[pid] = fresh[pid] + 1 /\ proc'[pid].program = proc[pid].program
      /\ proc[pid].ticks \in Nat /\ fresh[pid] \in Nat
  BY <1>1 DEF Process
<1>3. ListTypeOK'
  BY <1>1, <1>2 DEF ListInv, ListTypeOK
<1>4. ASSUME NEW p \in DOMAIN proc PROVE Accounted(p)'
  <2>0. Accounted(p)
    BY DEF ListInv
  <2>1. CASE p # pid
    BY <1>1, <1>2, <2>0, <2>1 DEF Accounted
  <2>2. CASE p = pid
    <3>1. p \in DOMAIN raw => raw[p].ticks \in Nat
      BY DEF ListInv, ListTypeOK, Reading
    <3>2. p \in DOMAIN prev => prev[p] \in Nat
      BY DEF ListInv, ListTypeOK
    <3>3. CASE p \notin known
      <4>1. fresh[p] = proc[p].ticks
        BY <2>0, <3>3 DEF Accounted
      <4>2. fresh'[p] = proc'[p].ticks
        BY <1>2, <2>2, <4>1
      <4>3. QED  BY <1>1, <3>3, <4>2 DEF Accounted
    <3>4. CASE p \in known /\ p \in DOMAIN raw
      <4>1. proc[p].ticks = raw[p].ticks + fresh[p] /\ proc[p].program.bin # ""
        BY <2>0, <3>4 DEF Accounted
      <4>2. proc'[p].ticks = raw[p].ticks + fresh'[p]
        <5>1. PICK a \in Nat, b \in Nat, c \in Nat : a = proc[p].ticks /\ b = raw[p].ticks /\ c = fresh[p]
          BY <1>2, <2>2, <3>1, <3>4
        <5>2. a = b + c /\ proc'[p].ticks = a + 1 /\ fresh'[p] = c + 1
          BY <1>2, <2>2, <4>1, <5>1
        <5>3. b + (c + 1) = a + 1
          BY <5>1, <5>2
        <5>4. QED  BY <5>1, <5>2, <5>3
      <4>3. QED  BY <1>1, <1>2, <2>2, <3>4, <4>1, <4>2 DEF Accounted
    <3>5. CASE p \in known /\ p \notin DOMAIN raw
      <4>1. /\ p \in DOMAIN prev /\ proc[p].ticks = prev[p] + fresh[p] /\ proc[p].program.bin # ""
            /\ p \in todo \/ (todo = {} /\ raw = Nothing)
        BY <2>0, <3>5 DEF Accounted
      <4>2. proc'[p].ticks = prev[p] + fresh'[p]
        <5>1. PICK a \in Nat, b \in Nat, c \in Nat : a = proc[p].ticks /\ b = prev[p] /\ c = fresh[p]
          BY <1>2, <2>2, <3>2, <4>1
        <5>2. a = b + c /\ proc'[p].ticks = a + 1 /\ fresh'[p] = c + 1
          BY <1>2, <2>2, <4>1, <5>1
        <5>3. b + (c + 1) = a + 1
          BY <5>1, <5>2
        <5>4. QED  BY <5>1, <5>2, <5>3
      <4>3. QED  BY <1>1, <1>2, <2>2, <3>5, <4>1, <4>2 DEF Accounted
    <3>6. QED  BY <3>3, <3>4, <3>5
  <2>3. QED  BY <2>1, <2>2
<1>5. QED  BY <1>2, <1>3, <1>4 DEF ListInv

LEMMA ExitStays == ASSUME ListInv, NEW pid \in Pids, Exit(pid) PROVE ListInv'
<1>1. /\ UNCHANGED <<todo, raw, prev>> /\ known' = known \ {pid} /\ fresh' = Without(fresh, pid)
      /\ proc' = [p \in DOMAIN proc \ {pid} |->
                    IF proc[p].ppid = pid THEN [proc[p] EXCEPT !.ppid = First] ELSE proc[p]]
      /\ proc \in [DOMAIN proc -> Process] /\ fresh \in [DOMAIN proc -> Nat] /\ First \in Nat
  BY PidsAre DEF Exit, ListInv, ListTypeOK
<1>2. /\ DOMAIN proc' = DOMAIN proc \ {pid} /\ proc' \in [DOMAIN proc' -> Process]
      /\ \A p \in DOMAIN proc' : proc'[p].ticks = proc[p].ticks /\ proc'[p].program = proc[p].program
  BY <1>1 DEF Process
<1>3. fresh' \in [DOMAIN proc' -> Nat] /\ \A p \in DOMAIN proc' : fresh'[p] = fresh[p]
  BY <1>1, <1>2 DEF Without, Restrict
<1>4. ListTypeOK'
  BY <1>1, <1>2, <1>3 DEF ListInv, ListTypeOK
<1>5. ASSUME NEW p \in DOMAIN proc' PROVE Accounted(p)'
  <2>1. p # pid /\ Accounted(p)
    BY <1>2 DEF ListInv
  <2>2. QED  BY <1>1, <1>2, <1>3, <2>1 DEF Accounted
<1>6. QED  BY <1>4, <1>5 DEF ListInv

LEMMA BeginScanStays == ASSUME ListInv, BeginScan PROVE ListInv'
<1>1. /\ todo = {} /\ raw = Nothing /\ todo' = Pids /\ UNCHANGED <<proc, fresh, known, raw, prev>>
      /\ DOMAIN raw = {}
  BY NothingIs DEF BeginScan
<1>2. ListTypeOK'
  BY <1>1 DEF ListInv, ListTypeOK
<1>3. ASSUME NEW p \in DOMAIN proc PROVE Accounted(p)'
  <2>1. Accounted(p) /\ p \in Pids
    BY DEF ListInv, ListTypeOK
  <2>2. QED  BY <1>1, <2>1 DEF Accounted
<1>4. QED  BY <1>1, <1>2, <1>3 DEF ListInv

\* The difference shown is what was used since, or less.
LEMMA CpuIs ==
  ASSUME ListInv, NEW pid \in todo, Readable(pid)
  PROVE  Cpu(pid) \in Nat /\ Cpu(pid) <= fresh[pid] /\ (pid \in known => Cpu(pid) = fresh[pid])
<1>1. pid \in DOMAIN proc /\ pid \notin DOMAIN raw /\ Accounted(pid)
  BY DEF Readable, ListInv, ListTypeOK
<1>2. proc[pid].ticks \in Nat /\ fresh[pid] \in Nat
  BY <1>1 DEF ListInv, ListTypeOK, Process
<1>3. CASE pid \in DOMAIN prev
  <2>1. PICK t \in Nat, p \in Nat : t = proc[pid].ticks /\ p = prev[pid]
    BY <1>2, <1>3 DEF ListInv, ListTypeOK
  <2>2. Max({0, t - p}) = IF 0 >= t - p THEN 0 ELSE t - p
    BY MaxOfTwo
  <2>3. Cpu(pid) = IF 0 >= t - p THEN 0 ELSE t - p
    BY <1>3, <2>1, <2>2 DEF Cpu
  <2>4. PICK f \in Nat : f = fresh[pid]
    BY <1>2
  <2>5. pid \in known => t = p + f
    BY <1>1, <2>1, <2>4 DEF Accounted
  <2>6. pid \notin known => f = t
    BY <1>1, <2>1, <2>4 DEF Accounted
  <2>7. QED  BY <2>3, <2>4, <2>5, <2>6
<1>4. CASE pid \notin DOMAIN prev
  <2>1. Cpu(pid) = 0 /\ pid \notin known
    BY <1>1, <1>4 DEF Accounted, Cpu
  <2>2. QED  BY <1>2, <2>1
<1>5. QED  BY <1>3, <1>4

\* What a step of the scan reads, and of whom.
LEMMA ReadIs ==
  ASSUME ListInv, Read
  PROVE  \E pid \in todo :
           /\ todo' = todo \ {pid} /\ UNCHANGED <<proc, prev>> /\ pid \notin DOMAIN raw
           /\ \/ /\ Readable(pid)
                 /\ raw' = Put(raw, pid, [ppid |-> proc[pid].ppid, program |-> proc[pid].program,
                                          ticks |-> proc[pid].ticks, cpu |-> Cpu(pid)])
                 /\ fresh' = [fresh EXCEPT ![pid] = 0] /\ known' = known \cup {pid}
              \/ ~Readable(pid) /\ UNCHANGED <<raw, fresh, known>>
<1>1. todo # {} /\ todo \subseteq Int /\ IsFiniteSet(todo)
  BY PidsAre, FS_Subset DEF Read, ListInv, ListTypeOK
<1>2. Min(todo) \in todo
  BY <1>1, MinIs
<1>3. Min(todo) \notin DOMAIN raw
  BY <1>2 DEF ListInv, ListTypeOK
<1>4. QED  BY <1>2, <1>3 DEF Read

LEMMA ReadStays == ASSUME ListInv, Read PROVE ListInv' /\ ReadsItsOwn
<1>1. PICK pid \in todo :
        /\ todo' = todo \ {pid} /\ UNCHANGED <<proc, prev>> /\ pid \notin DOMAIN raw
        /\ \/ /\ Readable(pid)
              /\ raw' = Put(raw, pid, [ppid |-> proc[pid].ppid, program |-> proc[pid].program,
                                       ticks |-> proc[pid].ticks, cpu |-> Cpu(pid)])
              /\ fresh' = [fresh EXCEPT ![pid] = 0] /\ known' = known \cup {pid}
           \/ ~Readable(pid) /\ UNCHANGED <<raw, fresh, known>>
  BY ReadIs
<1>2. CASE Readable(pid)
  <2> DEFINE it == [ppid |-> proc[pid].ppid, program |-> proc[pid].program,
                    ticks |-> proc[pid].ticks, cpu |-> Cpu(pid)]
  <2>1. raw' = Put(raw, pid, it) /\ fresh' = [fresh EXCEPT ![pid] = 0] /\ known' = known \cup {pid}
    BY <1>1, <1>2
  <2>2. pid \in DOMAIN proc /\ pid \in Pids /\ proc[pid] \in Process /\ fresh \in [DOMAIN proc -> Nat]
    BY <1>2 DEF Readable, ListInv, ListTypeOK
  <2>3. it \in Reading /\ it.ticks = proc[pid].ticks /\ it.cpu = Cpu(pid) /\ proc[pid].ticks \in Nat
    BY <1>2, <2>2, CpuIs DEF Process, Reading
  <2> HIDE DEF it
  <2>4. /\ DOMAIN raw' = DOMAIN raw \cup {pid} /\ raw'[pid] = it /\ \A p \in DOMAIN raw : raw'[p] = raw[p]
        /\ raw' = [p \in DOMAIN raw' |-> raw'[p]]
    BY <1>1, <2>1 DEF Put
  <2>5. raw' \in [DOMAIN raw' -> Reading]
    <3>1. \A p \in DOMAIN raw : raw[p] \in Reading
      BY DEF ListInv, ListTypeOK
    <3>2. \A p \in DOMAIN raw' : raw'[p] \in Reading
      BY <2>3, <2>4, <3>1
    <3>3. QED  BY <2>4, <3>2
  <2>6. fresh' \in [DOMAIN proc -> Nat] /\ fresh'[pid] = 0 /\ \A p \in DOMAIN proc \ {pid} : fresh'[p] = fresh[p]
    BY <2>1, <2>2
  <2>7. ListTypeOK'
    BY <1>1, <2>1, <2>2, <2>4, <2>5, <2>6 DEF ListInv, ListTypeOK
  <2>8. ASSUME NEW p \in DOMAIN proc PROVE Accounted(p)'
    <3>1. Accounted(p)
      BY DEF ListInv
    <3>2. CASE p = pid
      <4>1. pid \in known' /\ pid \in DOMAIN raw' /\ proc'[pid].program.bin # "" /\ proc' = proc
        BY <1>1, <1>2, <2>1, <2>4 DEF Readable
      <4>2. proc[pid].ticks = raw'[pid].ticks + fresh'[pid]
        BY <2>3, <2>4, <2>6
      <4>3. QED  BY <3>2, <4>1, <4>2 DEF Accounted
    <3>3. CASE p # pid
      BY <1>1, <2>1, <2>4, <2>6, <3>1, <3>3 DEF Accounted
    <3>4. QED  BY <3>2, <3>3
  <2>9. ReadsItsOwn
    <3>1. DOMAIN raw' \ DOMAIN raw = {pid} /\ raw'[pid].cpu = Cpu(pid)
      BY <1>1, <2>3, <2>4
    <3>2. QED  BY <1>2, <3>1, CpuIs DEF ReadsItsOwn
  <2>10. QED  BY <1>1, <2>7, <2>8, <2>9 DEF ListInv
<1>3. CASE ~Readable(pid)
  <2>1. UNCHANGED <<raw, fresh, known>>
    BY <1>1, <1>3
  <2>2. ListTypeOK'
    BY <1>1, <2>1 DEF ListInv, ListTypeOK
  <2>3. ASSUME NEW p \in DOMAIN proc PROVE Accounted(p)'
    <3>1. Accounted(p)
      BY DEF ListInv
    <3>2. CASE p = pid
      BY <1>1, <1>3, <2>1, <3>1, <3>2 DEF Accounted, Readable
    <3>3. CASE p # pid
      BY <1>1, <2>1, <3>1, <3>3 DEF Accounted
    <3>4. QED  BY <3>2, <3>3
  <2>4. QED  BY <1>1, <2>1, <2>2, <2>3 DEF ListInv, ReadsItsOwn
<1>4. QED  BY <1>2, <1>3

LEMMA PublishStays == ASSUME ListInv, Publish PROVE ListInv'
<1>1. /\ todo = {} /\ raw # Nothing /\ UNCHANGED <<proc, fresh, known, todo>>
      /\ prev' = [pid \in DOMAIN raw |-> raw[pid].ticks] /\ raw' = Nothing
  BY DEF Publish
<1>2. prev' \in [DOMAIN raw -> Nat] /\ DOMAIN prev' = DOMAIN raw /\ \A p \in DOMAIN raw : prev'[p] = raw[p].ticks
  BY <1>1 DEF ListInv, ListTypeOK, Reading
<1>3. raw' \in [DOMAIN raw' -> Reading] /\ DOMAIN raw' = {}
  BY <1>1 DEF Nothing
<1>4. ListTypeOK'
  BY <1>1, <1>2, <1>3 DEF ListInv, ListTypeOK
<1>5. ASSUME NEW p \in DOMAIN proc PROVE Accounted(p)'
  <2>1. Accounted(p)
    BY DEF ListInv
  <2>2. QED  BY <1>1, <1>2, <1>3, <2>1 DEF Accounted
<1>6. QED  BY <1>1, <1>4, <1>5 DEF ListInv

LEMMA ListStep == ListInv /\ [ListNext]_listVars => ListInv' /\ [ReadsItsOwn]_listVars
<1> SUFFICES ASSUME ListInv, [ListNext]_listVars PROVE ListInv' /\ [ReadsItsOwn]_listVars
  OBVIOUS
<1>1. CASE Read
  BY <1>1, ReadStays
<1>2. ASSUME raw' = raw \/ raw' = Nothing PROVE ReadsItsOwn
  BY <1>2, NothingIs DEF ReadsItsOwn
<1>3. CASE \E parent, pid \in Pids, program \in Programs : Fork(parent, pid, program)
  BY <1>2, <1>3, ForkStays DEF Fork
<1>4. CASE \E pid \in Pids : Run(pid) \/ Exit(pid)
  BY <1>2, <1>4, RunStays, ExitStays DEF Run, Exit
<1>5. CASE BeginScan
  BY <1>2, <1>5, BeginScanStays DEF BeginScan
<1>6. CASE Publish
  BY <1>2, <1>6, PublishStays DEF Publish
<1>7. CASE UNCHANGED listVars
  BY <1>7 DEF listVars, ListInv, ListTypeOK, Accounted
<1>8. QED  BY <1>1, <1>3, <1>4, <1>5, <1>6, <1>7 DEF ListNext

\* Nobody is shown with CPU that another process used, though readings are
\* compared by pid and pids are taken again, and who was there is shown with all
\* of theirs (scan_procs).
THEOREM CpuIsEachOnesOwn == ListSpec => CpuIsItsOwn
<1>1. ListSpec => []ListInv
  BY ListBegins, ListStep, PTL DEF ListSpec
<1>2. QED  BY <1>1, ListStep, PTL DEF ListSpec, CpuIsItsOwn

-----------------------------------------------------------------------------
(* The groups *)

\* What has been read of processes.
Readings == UNION {[P -> Reading] : P \in SUBSET Pids}

LEMMA ReadingsAre ==
  ASSUME NEW list \in Readings
  PROVE  /\ list \in [DOMAIN list -> Reading] /\ DOMAIN list \subseteq Pids /\ IsFiniteSet(DOMAIN list)
         /\ \A pid \in DOMAIN list : list[pid].cpu \in Nat
<1>1. PICK P \in SUBSET Pids : list \in [P -> Reading]
  BY DEF Readings
<1>2. IsFiniteSet(P)
  BY PidsAre, FS_Subset
<1>3. QED  BY <1>1, <1>2 DEF Reading

LEMMA UpStays == ASSUME NEW list, NEW pid \in DOMAIN list PROVE Up(list, pid) \in DOMAIN list
BY DEF Up

\* f[i] is the parent of f[i - 1].
Hop(list, pid, f, i) == f[i] = IF i = 0 THEN pid ELSE Up(list, f[i - 1])
Climbs(list, pid, n, f) == f = [i \in 0 .. n |-> IF i = 0 THEN pid ELSE Up(list, f[i - 1])]

LEMMA ClimbsEach ==
  ASSUME NEW list, NEW pid, NEW n, NEW f
  PROVE  /\ Climbs(list, pid, n, f) => \A i \in 0 .. n : Hop(list, pid, f, i)
         /\ f = [i \in 0 .. n |-> f[i]] /\ (\A i \in 0 .. n : Hop(list, pid, f, i)) => Climbs(list, pid, n, f)
<1>1. ASSUME Climbs(list, pid, n, f) PROVE \A i \in 0 .. n : Hop(list, pid, f, i)
  BY <1>1, Zenon DEF Climbs, Hop
<1>2. ASSUME f = [i \in 0 .. n |-> f[i]], \A i \in 0 .. n : Hop(list, pid, f, i) PROVE Climbs(list, pid, n, f)
  BY <1>2 DEF Climbs, Hop
<1>3. QED  BY <1>1, <1>2

LEMMA ClimbExists == ASSUME NEW list, NEW pid, NEW n \in Nat PROVE \E f : Climbs(list, pid, n, f)
<1> DEFINE T == {i \in Nat : \E f : Climbs(list, pid, i, f)}
<1>1. 0 \in T
  <2>1. Climbs(list, pid, 0, [j \in 0 .. 0 |-> pid])
    BY DEF Climbs
  <2>2. QED  BY <2>1
<1>2. ASSUME NEW i \in Nat, NEW f, Climbs(list, pid, i, f) PROVE \E g : Climbs(list, pid, i + 1, g)
  <2> DEFINE g == [j \in 0 .. i + 1 |-> IF j # i + 1 THEN f[j] ELSE Up(list, f[i])]
  <2>1. \A j \in 0 .. i : g[j] = f[j] /\ Hop(list, pid, f, j)
    BY <1>2, ClimbsEach
  <2>2. g[i + 1] = Up(list, f[i]) /\ g = [j \in 0 .. i + 1 |-> g[j]]
    OBVIOUS
  <2> HIDE DEF g
  <2>3. ASSUME NEW j \in 0 .. i + 1 PROVE Hop(list, pid, g, j)
    <3>1. CASE j = i + 1
      <4>1. j # 0 /\ j - 1 = i /\ i \in 0 .. i
        BY <3>1
      <4>2. g[j - 1] = f[i] /\ g[j] = Up(list, f[i])
        BY <2>1, <2>2, <3>1, <4>1
      <4>3. QED  BY <4>1, <4>2 DEF Hop
    <3>2. CASE j \in 1 .. i
      <4>1. j # 0 /\ j \in 0 .. i /\ j - 1 \in 0 .. i
        BY <3>2
      <4>2. g[j - 1] = f[j - 1] /\ g[j] = f[j] /\ Hop(list, pid, f, j)
        BY <2>1, <4>1
      <4>3. QED  BY <4>1, <4>2 DEF Hop
    <3>3. CASE j = 0
      BY <2>1, <3>3 DEF Hop
    <3>4. QED  BY <3>1, <3>2, <3>3
  <2>4. QED  BY <2>2, <2>3, ClimbsEach
<1>3. \A i \in Nat : i \in T => i + 1 \in T
  BY <1>2
<1>4. Nat \subseteq T
  <2> HIDE DEF T
  <2>1. QED  BY <1>1, <1>3, Climb
<1>5. QED  BY <1>4

LEMMA ChainIs == ASSUME NEW list, NEW pid PROVE \A i \in 0 .. Hops : Hop(list, pid, Chain(list, pid), i)
<1> DEFINE g == CHOOSE f : Climbs(list, pid, Hops, f)
<1>1. Hops \in Nat
  BY ListAssumption
<1>2. Climbs(list, pid, Hops, g)
  BY <1>1, ClimbExists
<1>3. Chain(list, pid) = g
  BY DEF Chain, Climbs
<1>4. QED  BY <1>2, <1>3, ClimbsEach

\* The chain of a parent is one hop ahead of its child's, and neither leaves the list.
LEMMA ChainOfParent ==
  ASSUME NEW list, NEW pid \in DOMAIN list
  PROVE  /\ RootOf(list, Up(list, pid)) = Up(list, RootOf(list, pid))
         /\ RootOf(list, pid) \in DOMAIN list
<1> DEFINE f == Chain(list, pid)
           g == Chain(list, Up(list, pid))
           T == {i \in Nat : i <= Hops => g[i] = Up(list, f[i]) /\ f[i] \in DOMAIN list}
<1>0. Hops \in Nat
  BY ListAssumption
<1>1. \A i \in 0 .. Hops : Hop(list, pid, f, i) /\ Hop(list, Up(list, pid), g, i)
  BY ChainIs
<1> HIDE DEF f, g
<1>2. 0 \in T
  BY <1>0, <1>1 DEF Hop
<1>3. ASSUME NEW i \in Nat, i \in T PROVE i + 1 \in T
  <2> SUFFICES ASSUME i + 1 <= Hops PROVE g[i + 1] = Up(list, f[i + 1]) /\ f[i + 1] \in DOMAIN list
    OBVIOUS
  <2>1. g[i] = Up(list, f[i]) /\ f[i] \in DOMAIN list
    BY <1>0, <1>3
  <2>2. i + 1 \in 0 .. Hops /\ i + 1 # 0 /\ (i + 1) - 1 = i
    BY <1>0
  <2>3. f[i + 1] = Up(list, f[i]) /\ g[i + 1] = Up(list, g[i])
    BY <1>1, <2>2 DEF Hop
  <2>4. QED  BY <2>1, <2>3, UpStays
<1>4. Nat \subseteq T
  <2> HIDE DEF T
  <2>1. QED  BY <1>2, <1>3, Climb
<1>5. g[Hops] = Up(list, f[Hops]) /\ f[Hops] \in DOMAIN list
  BY <1>0, <1>4
<1>6. QED  BY <1>5 DEF RootOf, f, g

\* A root that has no parent in the list is its own.
LEMMA RootStays ==
  ASSUME NEW list, NEW root \in DOMAIN list, Up(list, root) = root PROVE RootOf(list, root) = root
<1> DEFINE f == Chain(list, root)
           T == {i \in Nat : i <= Hops => f[i] = root}
<1>0. Hops \in Nat
  BY ListAssumption
<1>1. \A i \in 0 .. Hops : Hop(list, root, f, i)
  BY ChainIs
<1> HIDE DEF f
<1>2. 0 \in T
  BY <1>0, <1>1 DEF Hop
<1>3. ASSUME NEW i \in Nat, i \in T PROVE i + 1 \in T
  <2> SUFFICES ASSUME i + 1 <= Hops PROVE f[i + 1] = root
    OBVIOUS
  <2>1. i + 1 \in 0 .. Hops /\ i + 1 # 0 /\ (i + 1) - 1 = i /\ f[i] = root
    BY <1>0, <1>3
  <2>2. QED  BY <1>1, <2>1 DEF Hop
<1>4. Nat \subseteq T
  <2> HIDE DEF T
  <2>1. QED  BY <1>2, <1>3, Climb
<1>5. QED  BY <1>0, <1>4 DEF RootOf, f

\* A group has used no less than any of its members.
LEMMA GroupHasMember ==
  ASSUME NEW list \in Readings, NEW root, NEW pid \in Members(list, root)
  PROVE  list[pid].cpu \in Nat /\ GroupCpu(list, root) \in Nat /\ list[pid].cpu <= GroupCpu(list, root)
<1> DEFINE cpu == [p \in DOMAIN list |-> list[p].cpu]
           M == Members(list, root)
           rest == M \ {pid}
<1>1. pid \in DOMAIN list /\ M \subseteq DOMAIN list
  BY DEF Members
<1>2. IsFiniteSet(M) /\ IsFiniteSet(rest)
  BY <1>1, ReadingsAre, FS_Subset
<1>3. (\A p \in M : cpu[p] \in Nat) /\ \A p \in rest : cpu[p] \in Nat
  BY <1>1, ReadingsAre
<1>4. cpu[pid] = list[pid].cpu /\ GroupCpu(list, root) = SumFunctionOnSet(cpu, M)
  BY <1>1 DEF GroupCpu
<1>5. pid \in M
  OBVIOUS
<1> HIDE DEF cpu, M
<1>6. SumFunctionOnSet(cpu, M) = cpu[pid] + SumFunctionOnSet(cpu, M \ {pid})
  BY <1>2, <1>3, <1>5, SumSplit
<1>7. SumFunctionOnSet(cpu, M \ {pid}) \in Nat /\ cpu[pid] \in Nat
  <2> DEFINE few == M \ {pid}
  <2>1. IsFiniteSet(few) /\ \A p \in few : cpu[p] \in Nat
    BY <1>2, <1>3
  <2> HIDE DEF few
  <2>2. SumFunctionOnSet(cpu, few) \in Nat
    BY <2>1, SumNat
  <2>3. QED  BY <1>3, <1>5, <2>2 DEF few
<1>8. QED  BY <1>4, <1>6, <1>7

\* What is shown has been made of what was read, all of it at once.
ShownOf(list, kept) ==
  [list |-> list, found |-> Cardinality(Roots(list)),
   groups |-> [root \in kept |-> [members |-> Members(list, root), cpu |-> GroupCpu(list, root)]]]

ShownInv == \E list \in Readings : \E kept \in SUBSET Roots(list) : Kept(list, kept) /\ shown = ShownOf(list, kept)

LEMMA ShownBegins == ListInit => ShownInv
<1> SUFFICES ASSUME ListInit PROVE ShownInv
  OBVIOUS
<1>1. Nothing \in Readings /\ Roots(Nothing) = {}
  <2>1. Nothing \in [{} -> Reading] /\ DOMAIN Nothing = {}
    BY DEF Nothing
  <2>2. QED  BY <2>1 DEF Readings, Roots
<1>2. Cardinality({}) = 0 /\ Min({Cut, 0}) = 0
  BY FS_EmptySet, MinOfTwo, ListAssumption
<1>3. Kept(Nothing, {})
  BY <1>1, <1>2 DEF Kept
<1>4. shown = ShownOf(Nothing, {})
  <2>1. [root \in {} |-> [members |-> Members(Nothing, root), cpu |-> GroupCpu(Nothing, root)]] = Nothing
    BY DEF Nothing
  <2>2. QED  BY <1>1, <1>2, <2>1 DEF ListInit, ShownOf
<1>5. QED  BY <1>1, <1>3, <1>4 DEF ShownInv

LEMMA ShownStep == ListInv /\ ShownInv /\ [ListNext]_listVars => ShownInv'
<1> SUFFICES ASSUME ListInv, ShownInv, [ListNext]_listVars PROVE ShownInv'
  OBVIOUS
<1>1. CASE Publish
  <2>1. PICK kept \in SUBSET Roots(raw) : Kept(raw, kept) /\ shown' = ShownOf(raw, kept)
    BY <1>1 DEF Publish, ShownOf
  <2>2. raw \in Readings
    BY DEF ListInv, ListTypeOK, Readings
  <2>3. QED  BY <2>1, <2>2 DEF ShownInv
<1>2. CASE shown' = shown
  BY <1>2 DEF ShownInv
<1>3. QED
  BY <1>1, <1>2 DEF ListNext, Fork, Run, Exit, BeginScan, Read, listVars

LEMMA GroupsOfShown == ShownInv => GroupsAreWhole
<1> SUFFICES ASSUME ShownInv PROVE GroupsAreWhole
  OBVIOUS
<1>1. PICK list \in Readings : \E kept \in SUBSET Roots(list) : Kept(list, kept) /\ shown = ShownOf(list, kept)
  BY DEF ShownInv
<1>2. PICK kept \in SUBSET Roots(list) : Kept(list, kept) /\ shown = ShownOf(list, kept)
  BY <1>1
<1>3. /\ shown.list = list /\ shown.found = Cardinality(Roots(list)) /\ DOMAIN shown.groups = kept
      /\ \A root \in kept : shown.groups[root].members = Members(list, root)
                            /\ shown.groups[root].cpu = GroupCpu(list, root)
  BY <1>2 DEF ShownOf
<1>4. ASSUME \A pid \in DOMAIN list : ~Endless(list, pid), NEW root \in kept
      PROVE  /\ root \in Members(list, root)
             /\ \A pid \in DOMAIN list : pid \in Members(list, root) <=> Up(list, pid) \in Members(list, root)
  <2>1. ASSUME NEW pid \in DOMAIN list
        PROVE  /\ RootOf(list, pid) \in DOMAIN list /\ Up(list, RootOf(list, pid)) = RootOf(list, pid)
               /\ RootOf(list, Up(list, pid)) = RootOf(list, pid)
    BY <1>4, ChainOfParent DEF Endless, RootOf
  <2>2. PICK first \in DOMAIN list : root = RootOf(list, first)
    BY DEF Roots
  <2>3. root \in DOMAIN list /\ RootOf(list, root) = root
    BY <2>1, <2>2, RootStays
  <2>4. QED  BY <2>1, <2>3, UpStays DEF Members
<1>5. ASSUME NEW root \in kept, NEW pid \in DOMAIN list, \A r \in kept : pid \notin Members(list, r)
      PROVE  Cardinality(Roots(list)) > Cardinality(kept) /\ list[pid].cpu <= GroupCpu(list, root)
  <2> DEFINE mine == RootOf(list, pid)
  <2>1. pid \in Members(list, mine) /\ mine \in Roots(list)
    BY DEF Members, Roots
  <2>2. mine \in Roots(list) \ kept
    BY <1>5, <2>1
  <2>3. IsFiniteSet(Roots(list))
    <3> DEFINE f == [p \in DOMAIN list |-> RootOf(list, p)]
    <3>1. f \in Surjection(DOMAIN list, Roots(list))
      BY DEF Surjection, Roots
    <3>2. QED  BY <3>1, ReadingsAre, FS_Surjection
  <2>4. /\ IsFiniteSet(kept) /\ Cardinality(kept) <= Cardinality(Roots(list))
        /\ kept # Roots(list) => Cardinality(kept) < Cardinality(Roots(list))
        /\ Cardinality(kept) \in Nat /\ Cardinality(Roots(list)) \in Nat
    BY <2>3, FS_Subset, FS_CardinalityType
  <2>5. GroupCpu(list, root) >= GroupCpu(list, mine)
    BY <1>2, <2>2 DEF Kept
  <2>6. list[pid].cpu \in Nat /\ GroupCpu(list, mine) \in Nat /\ list[pid].cpu <= GroupCpu(list, mine)
    BY <2>1, GroupHasMember
  <2>7. GroupCpu(list, root) \in Nat
    <3>1. PICK first \in DOMAIN list : root = RootOf(list, first)
      BY DEF Roots
    <3>2. first \in Members(list, root)
      BY <3>1 DEF Members
    <3>3. QED  BY <3>2, GroupHasMember
  <2> HIDE DEF mine
  <2>8. QED  BY <2>2, <2>4, <2>5, <2>6, <2>7
<1>6. QED  BY <1>3, <1>4, <1>5 DEF GroupsAreWhole

\* While no chain of parents is endless, a process is in the group of its parent
\* if both run the same program, and a group has its root; and nobody left out of
\* the list is busier than a group that is in it (group_processes).
THEOREM GroupsAreTogether == ListSpec => []GroupsAreWhole
<1>1. ListSpec => []ListInv
  BY ListBegins, ListStep, PTL DEF ListSpec
<1>2. QED  BY <1>1, ShownBegins, ShownStep, GroupsOfShown, PTL DEF ListSpec

-----------------------------------------------------------------------------
(* Lists of lines, the newest first *)

Stamp(i) == index[i].ts

\* Lines that are stored, each once, none before a newer one.
Falling(s) ==
  /\ s \in Seq(Stored) /\ \A i, j \in DOMAIN s : s[i] = s[j] => i = j
  /\ \A i, j \in DOMAIN s : i < j => Stamp(s[i]) >= Stamp(s[j])

\* A list that has the newest of another.
Tops(f, s) == Range(f) \subseteq Range(s) /\ \A i \in Range(s) \ Range(f) : \A j \in Range(f) : Stamp(i) <= Stamp(j)

StoredLine == [container : Own, stream : {"stdout", "stderr"}, text : DOMAIN Texts, word : BOOLEAN, ts : Seconds]
LinesOK == index \in Seq(StoredLine)

LEMMA StoredAre ==
  ASSUME LinesOK PROVE Stored = 1 .. Len(index) /\ IsFiniteSet(Stored) /\ \A i \in Stored : Stamp(i) \in Nat /\ index[i] \in StoredLine
<1>1. Stored = 1 .. Len(index) /\ Len(index) \in Nat /\ \A i \in Stored : index[i] \in StoredLine
  BY DEF LinesOK, Stored
<1>2. \A i \in Stored : Stamp(i) \in Seconds
  BY <1>1 DEF StoredLine, Stamp
<1>3. \A i \in Stored : Stamp(i) \in Nat
  BY <1>2, LogSearchAssumption
<1>4. IsFiniteSet(1 .. Len(index))
  BY <1>1, FS_Interval
<1>5. QED  BY <1>1, <1>3, <1>4

\* The first lines of a list are the newest of it.
LEMMA FirstAreNewest ==
  ASSUME LinesOK, NEW s, Falling(s), NEW m \in Nat
  PROVE  /\ Falling(FirstOf(s, m)) /\ Tops(FirstOf(s, m), s)
         /\ Len(FirstOf(s, m)) \in Nat /\ Len(s) \in Nat /\ Len(FirstOf(s, m)) <= Len(s)
         /\ Len(s) <= m => FirstOf(s, m) = s
         /\ Len(s) > m => Len(FirstOf(s, m)) = m
<1> DEFINE f == FirstOf(s, m)
<1>0. s \in Seq(Stored) /\ DOMAIN s = 1 .. Len(s)
  BY DEF Falling
<1>2. /\ f \in Seq(Stored) /\ Len(f) \in Nat /\ Len(f) <= Len(s) /\ Len(s) \in Nat
      /\ Len(s) <= m => f = s
      /\ Len(s) > m => Len(f) = m
      /\ \A i \in 1 .. Len(f) : f[i] = s[i]
  BY <1>0, FirstOfHas
<1> HIDE DEF f
<1>3. DOMAIN f = 1 .. Len(f) /\ \A i \in 1 .. Len(f) : i \in 1 .. Len(s)
  BY <1>2
<1>5. Falling(f)
  BY <1>0, <1>2, <1>3 DEF Falling
<1>6. Tops(f, s)
  <2>1. Range(f) \subseteq Range(s)
    BY <1>0, <1>2, <1>3 DEF Range
  <2>2. ASSUME NEW i \in Range(s) \ Range(f), NEW j \in Range(f) PROVE Stamp(i) <= Stamp(j)
    <3>1. PICK a \in 1 .. Len(s) : i = s[a]
      BY <1>0 DEF Range
    <3>2. PICK b \in 1 .. Len(f) : j = f[b]
      BY <1>3 DEF Range
    <3>3. a \notin 1 .. Len(f)
      BY <1>2, <1>3, <3>1 DEF Range
    <3>0. b < a
      <4>1. PICK k \in Nat, n \in Nat : k = Len(f) /\ n = Len(s)
        BY <1>2
      <4>2. a \in 1 .. n /\ b \in 1 .. k /\ a \notin 1 .. k
        BY <3>1, <3>2, <3>3, <4>1
      <4>3. QED  BY <4>2
    <3>4. b < a /\ b \in DOMAIN s /\ a \in DOMAIN s /\ j = s[b]
      BY <1>0, <1>2, <1>3, <3>0, <3>1, <3>2
    <3>5. Stamp(j) >= Stamp(i) /\ i \in Stored /\ j \in Stored
      BY <1>0, <3>1, <3>4 DEF Falling
    <3>6. QED  BY <3>5, StoredAre
  <2>3. QED  BY <2>1, <2>2 DEF Tops
<1>7. QED  BY <1>2, <1>5, <1>6 DEF f

\* A list with one more at its end falls if the list did, and that is its oldest.
LEMMA FallsOn ==
  ASSUME NEW s \in Seq(Stored), NEW x \in Stored
  PROVE  Falling(Append(s, x)) <=> Falling(s) /\ x \notin Range(s) /\ \A y \in Range(s) : Stamp(y) >= Stamp(x)
<1> DEFINE t == Append(s, x)
<1>1. /\ t \in Seq(Stored) /\ DOMAIN t = 1 .. Len(s) + 1 /\ DOMAIN s = 1 .. Len(s) /\ Len(s) \in Nat
      /\ t[Len(s) + 1] = x /\ \A i \in 1 .. Len(s) : t[i] = s[i] /\ i \in 1 .. Len(s) + 1
      /\ Len(s) + 1 \in 1 .. Len(s) + 1
      /\ \A i \in 1 .. Len(s) + 1 : i \in 1 .. Len(s) \/ i = Len(s) + 1
  OBVIOUS
<1> HIDE DEF t
<1>2. ASSUME Falling(t) PROVE Falling(s) /\ x \notin Range(s) /\ \A y \in Range(s) : Stamp(y) >= Stamp(x)
  <2>1. Falling(s)
    BY <1>1, <1>2 DEF Falling
  <2>2. ASSUME NEW y \in Range(s) PROVE y # x /\ Stamp(y) >= Stamp(x)
    <3>1. PICK i \in 1 .. Len(s) : y = s[i]
      BY <1>1 DEF Range
    <3>2. y = t[i] /\ i \in DOMAIN t /\ Len(s) + 1 \in DOMAIN t /\ i < Len(s) + 1 /\ t[Len(s) + 1] = x
      BY <1>1, <3>1
    <3>3. QED  BY <1>2, <3>2 DEF Falling
  <2>3. QED  BY <2>1, <2>2
<1>3. ASSUME Falling(s), x \notin Range(s), \A y \in Range(s) : Stamp(y) >= Stamp(x) PROVE Falling(t)
  <2>0. \A i \in 1 .. Len(s) : t[i] \in Range(s) /\ t[i] # x /\ Stamp(t[i]) >= Stamp(x)
    BY <1>1, <1>3 DEF Range
  <2>1. ASSUME NEW i \in DOMAIN t, NEW j \in DOMAIN t, t[i] = t[j] PROVE i = j
    <3>1. CASE i \in 1 .. Len(s) /\ j \in 1 .. Len(s)
      BY <1>1, <1>3, <2>1, <3>1 DEF Falling
    <3>2. CASE i = Len(s) + 1 \/ j = Len(s) + 1
      BY <1>1, <2>0, <2>1, <3>2
    <3>3. QED  BY <1>1, <3>1, <3>2
  <2>2. ASSUME NEW i \in DOMAIN t, NEW j \in DOMAIN t, i < j PROVE Stamp(t[i]) >= Stamp(t[j])
    <3>1. i \in 1 .. Len(s)
      BY <1>1, <2>2
    <3>2. CASE j \in 1 .. Len(s)
      BY <1>1, <1>3, <2>2, <3>1, <3>2 DEF Falling
    <3>3. CASE j = Len(s) + 1
      BY <1>1, <2>0, <3>1, <3>3
    <3>4. QED  BY <1>1, <3>2, <3>3
  <2>3. QED  BY <1>1, <2>1, <2>2 DEF Falling
<1>4. QED  BY <1>2, <1>3 DEF t

\* A list filtered falls as it did.
LEMMA OnlyFalls == ASSUME NEW s, Falling(s), NEW S PROVE Falling(Only(s, S)) /\ Range(Only(s, S)) = Range(s) \cap S
<1> DEFINE T == {t \in Seq(Stored) : Falling(t) => Falling(Only(t, S))}
<1>1. <<>> \in T
  <2>1. <<>> \in Seq(Stored)
    OBVIOUS
  <2>2. QED  BY <2>1, OnlyOfNone
<1>2. ASSUME NEW t \in Seq(Stored), NEW x \in Stored, t \in T PROVE Append(t, x) \in T
  <2>1. Append(t, x) \in Seq(Stored)
    OBVIOUS
  <2>2. ASSUME Falling(Append(t, x)) PROVE Falling(Only(Append(t, x), S))
    <3>1. Falling(t) /\ x \notin Range(t) /\ \A y \in Range(t) : Stamp(y) >= Stamp(x)
      BY <2>2, FallsOn
    <3>2. Falling(Only(t, S)) /\ Only(t, S) \in Seq(Stored)
      BY <1>2, <3>1 DEF Falling
    <3>3. Range(Only(t, S)) \subseteq Range(t)
      BY RangeOfOnly
    <3>4. CASE x \in S
      <4>1. Only(Append(t, x), S) = Append(Only(t, S), x)
        BY <3>4, OnlyOfMore
      <4>2. Falling(Append(Only(t, S), x))
        BY <3>1, <3>2, <3>3, FallsOn
      <4>3. QED  BY <4>1, <4>2
    <3>5. CASE x \notin S
      BY <3>2, <3>5, OnlyOfMore
    <3>6. QED  BY <3>4, <3>5
  <2>3. QED  BY <2>1, <2>2
<1>3. Seq(Stored) \subseteq T
  <2> HIDE DEF T
  <2>1. QED  BY <1>1, <1>2, Grow
<1>4. s \in Seq(Stored)
  BY DEF Falling
<1>5. QED  BY <1>3, <1>4, RangeOfOnly

\* As many lines as places.
LEMMA RangeCounts ==
  ASSUME LinesOK, NEW s, Falling(s)
  PROVE  IsFiniteSet(Range(s)) /\ Cardinality(Range(s)) = Len(s) /\ Len(s) \in Nat /\ s \in NewestFirst(Range(s))
<1>1. s \in Seq(Stored) /\ Len(s) \in Nat /\ DOMAIN s = 1 .. Len(s)
  BY DEF Falling
<1>2. IsFiniteSet(1 .. Len(s)) /\ Cardinality(1 .. Len(s)) = Len(s)
  BY <1>1, FS_Interval
<1>3. s \in Bijection(1 .. Len(s), Range(s))
  <2>1. s \in [1 .. Len(s) -> Range(s)]
    BY <1>1 DEF Range
  <2>2. s \in Injection(1 .. Len(s), Range(s))
    BY <1>1, <2>1 DEF Injection, Falling, IsInjective
  <2>3. s \in Surjection(1 .. Len(s), Range(s))
    BY <1>1, <2>1 DEF Surjection, Range
  <2>4. QED  BY <2>2, <2>3 DEF Bijection
<1>4. IsFiniteSet(Range(s)) /\ Cardinality(Range(s)) = Cardinality(1 .. Len(s))
  BY <1>2, <1>3, FS_Bijection DEF ExistsBijection
<1>5. s \in SetToSeqs(Range(s))
  <2>1. Cardinality(Range(s)) = Len(s) /\ s \in [1 .. Len(s) -> Range(s)]
    BY <1>1, <1>2, <1>4 DEF Range
  <2>2. \A i, j \in 1 .. Len(s) : i # j => s[i] # s[j]
    BY <1>1 DEF Falling
  <2>3. QED  BY <2>1, <2>2 DEF SetToSeqs
<1>6. QED  BY <1>1, <1>2, <1>4, <1>5 DEF NewestFirst, Falling, Stamp

\* An order of some lines has all of them.
LEMMA OrderHas ==
  ASSUME LinesOK, NEW S \in SUBSET Stored, NEW order \in NewestFirst(S)
  PROVE  Falling(order) /\ Range(order) = S
<1>1. IsFiniteSet(S) /\ Cardinality(S) \in Nat
  BY StoredAre, FS_Subset, FS_CardinalityType
<1> DEFINE n == Cardinality(S)
<1>2. /\ order \in [1 .. n -> S] /\ \A i, j \in 1 .. n : i # j => order[i] # order[j]
      /\ \A i, j \in 1 .. n : i < j => Stamp(order[i]) >= Stamp(order[j])
  BY DEF NewestFirst, SetToSeqs, Stamp
<1> HIDE DEF n
<1>3. n \in Nat /\ order \in Seq(S) /\ DOMAIN order = 1 .. n
  BY <1>1, <1>2 DEF n
<1>4. order \in Seq(Stored)
  BY <1>3
<1>5. Falling(order)
  BY <1>2, <1>3, <1>4 DEF Falling
<1>6. order \in Surjection(1 .. n, S)
  <2>1. order \in Injection(1 .. n, S)
    BY <1>2 DEF Injection, IsInjective
  <2>2. Cardinality(1 .. n) = Cardinality(S)
    BY <1>3, FS_Interval DEF n
  <2>3. QED  BY <1>1, <2>1, <2>2, FS_Injection
<1>7. Range(order) = S
  BY <1>3, <1>6 DEF Surjection, Range
<1>8. QED  BY <1>5, <1>7

Levels == {"info", "warn", "error"}

LEMMA LevelsFinite == IsFiniteSet(Levels)
<1>1. IsFiniteSet({"info"})
  BY FS_Singleton
<1>2. IsFiniteSet({"info"} \cup {"warn"})
  BY <1>1, FS_AddElement
<1>3. IsFiniteSet(({"info"} \cup {"warn"}) \cup {"error"})
  BY <1>2, FS_AddElement
<1>4. Levels = ({"info"} \cup {"warn"}) \cup {"error"}
  BY DEF Levels
<1>5. QED  BY <1>3, <1>4

\* Every line has a level the counts know.
LEMMA LevelsAre == ASSUME LinesOK PROVE \A i \in Stored : LevelShown(index[i]) \in Levels
<1> SUFFICES ASSUME NEW i \in Stored PROVE LevelShown(index[i]) \in Levels
  OBVIOUS
<1> DEFINE line == Texts[index[i].text]
<1>1. index[i].text \in DOMAIN Texts
  BY StoredAre DEF StoredLine
<1>2. LevelDeclared(line) \in {"none", "info"}
  <2>1. DOMAIN Texts = {"plain", "warning", "failed", "retried"}
    BY DEF Texts
  <2>2. /\ Texts["plain"].form = "plain" /\ Texts["plain"].word = "none"
        /\ Texts["warning"].form = "plain" /\ Texts["warning"].word = "none"
        /\ Texts["failed"].form = "plain" /\ Texts["failed"].word = "none"
        /\ Texts["retried"].form = "ruby" /\ Texts["retried"].word = "INFO"
    BY DEF Texts, Line
  <2>3. Declared["plain"]["none"] = "none" /\ Declared["ruby"]["INFO"] = "info"
    BY DEF Declared
  <2>4. QED  BY <1>1, <2>1, <2>2, <2>3 DEF LevelDeclared
<1>3. LevelOf(line, index[i].stream) \in Levels
  BY <1>2 DEF LevelOf, Levels
<1>4. QED  BY <1>3 DEF LevelShown

-----------------------------------------------------------------------------
(* A search and its answer *)

\* What the caller leaves of a scan: the lines of the stream.
Left(q, scan) == IF q.stream = "any" THEN scan ELSE Only(scan, {i \in Stored : index[i].stream = q.stream})

Answer(q, scan) ==
  [answered |-> TRUE, asked |-> q, full |-> Len(scan) = ScanLimit, counts |-> Counted(Left(q, scan)),
   hours |-> Histogram(Left(q, scan)), page |-> Page(Left(q, scan), q)]

SearchInv ==
  /\ LinesOK
  /\ search = NoSearch \/ \E q \in Asked : \E scan \in Scans(q) : search = Answer(q, scan)

Found(q) == {i \in Stored : Matches(index[i], q)}
OfLevel(q) == {i \in Stored : q.level \in {"any", LevelShown(index[i])}}
OfStream(q) == {i \in Stored : q.stream \in {"any", index[i].stream}}

\* A scan is the newest of what is found, all of it unless it is full; what is left
\* of it is what is of the stream.
LEMMA ScanIs ==
  ASSUME LinesOK, NEW q \in Asked, NEW scan \in Scans(q)
  PROVE  /\ Falling(scan) /\ Range(scan) \subseteq Found(q) /\ Len(scan) \in Nat
         /\ Len(scan) # ScanLimit => Range(scan) = Found(q)
         /\ \A i \in Found(q) \ Range(scan) : \A j \in Range(scan) : Stamp(i) <= Stamp(j)
<1>1. PICK order \in NewestFirst(Found(q)) : scan = FirstOf(order, ScanLimit)
  BY DEF Scans, Found, FirstOf
<1>2. Falling(order) /\ Range(order) = Found(q)
  BY OrderHas DEF Found
<1>3. ScanLimit \in Nat
  BY LogSearchAssumption
<1>4. /\ Falling(scan) /\ Tops(scan, order) /\ Len(scan) \in Nat /\ Len(order) \in Nat
      /\ Len(order) <= ScanLimit => scan = order
      /\ Len(order) > ScanLimit => Len(scan) = ScanLimit
  BY <1>1, <1>2, <1>3, FirstAreNewest
<1>5. Len(scan) # ScanLimit => scan = order
  BY <1>3, <1>4
<1>6. QED  BY <1>2, <1>4, <1>5 DEF Tops

LEMMA LeftIs ==
  ASSUME LinesOK, NEW q \in Asked, NEW scan \in Scans(q)
  PROVE  Falling(Left(q, scan)) /\ Range(Left(q, scan)) = Range(scan) \cap OfStream(q)
<1>1. Falling(scan) /\ Range(scan) \subseteq Stored
  BY ScanIs DEF Found
<1>2. CASE q.stream = "any"
  BY <1>1, <1>2 DEF Left, OfStream
<1>3. CASE q.stream # "any"
  <2>1. {i \in Stored : index[i].stream = q.stream} = OfStream(q)
    BY <1>3 DEF OfStream
  <2>2. Left(q, scan) = Only(scan, OfStream(q))
    BY <1>3, <2>1 DEF Left
  <2>3. QED  BY <1>1, <2>2, OnlyFalls
<1>4. QED  BY <1>2, <1>3

LEMMA WantedAre == ASSUME NEW q PROVE Wanted(q) = Found(q) \cap OfStream(q) \cap OfLevel(q)
BY DEF Wanted, Found, OfStream, OfLevel

\* What is left of the level asked for: the page is the first of it.
Filtered(q, scan) == Only(Left(q, scan), OfLevel(q))

LEMMA FilteredAre ==
  ASSUME LinesOK, NEW q \in Asked, NEW scan \in Scans(q)
  PROVE  /\ Falling(Filtered(q, scan)) /\ Range(Filtered(q, scan)) = Range(scan) \cap OfStream(q) \cap OfLevel(q)
         /\ Page(Left(q, scan), q) = FirstOf(Filtered(q, scan), q.limit) /\ q.limit \in Nat
<1>1. Falling(Filtered(q, scan)) /\ Range(Filtered(q, scan)) = Range(scan) \cap OfStream(q) \cap OfLevel(q)
  <2>1. Falling(Left(q, scan)) /\ Range(Left(q, scan)) = Range(scan) \cap OfStream(q)
    BY LeftIs
  <2>2. Falling(Filtered(q, scan)) /\ Range(Filtered(q, scan)) = Range(Left(q, scan)) \cap OfLevel(q)
    BY <2>1, OnlyFalls DEF Filtered
  <2>3. QED  BY <2>1, <2>2
<1>2. Page(Left(q, scan), q) = FirstOf(Filtered(q, scan), q.limit)
  BY DEF Page, FirstOf, Filtered, OfLevel
<1>3. q.limit \in Nat
  <2>1. q.limit \in Limits
    BY DEF Asked
  <2>2. q.limit \in 1 .. ScanLimit /\ ScanLimit \in Nat
    BY <2>1, LogSearchAssumption
  <2>3. QED  BY <2>2
<1>4. QED  BY <1>1, <1>2, <1>3

LEMMA PageIs ==
  ASSUME LinesOK, NEW q \in Asked, NEW scan \in Scans(q), search = Answer(q, scan) PROVE PageIsTheNewest
<1> DEFINE page == search.page
           kept == Filtered(q, scan)
           onPage == Range(page)
<1>0. /\ search.asked = q /\ search.full = (Len(scan) = ScanLimit)
      /\ page = FirstOf(kept, q.limit) /\ q.limit \in Nat
      /\ Falling(kept) /\ Range(kept) = Range(scan) \cap OfStream(q) \cap OfLevel(q)
  <2>1. search.asked = q /\ search.full = (Len(scan) = ScanLimit) /\ page = Page(Left(q, scan), q)
    BY DEF Answer
  <2>2. QED  BY <2>1, FilteredAre
<1> HIDE DEF page, kept
<1>1. /\ Falling(page) /\ Tops(page, kept) /\ Len(page) \in Nat /\ Len(kept) \in Nat
      /\ Len(kept) <= q.limit => page = kept
      /\ Len(kept) > q.limit => Len(page) = q.limit
  BY <1>0, FirstAreNewest
<1>2. /\ Falling(scan) /\ Range(scan) \subseteq Found(q) /\ (Len(scan) # ScanLimit => Range(scan) = Found(q))
      /\ \A i \in Found(q) \ Range(scan) : \A j \in Range(scan) : Stamp(i) <= Stamp(j)
  BY ScanIs
<1>3. Wanted(q) = Found(q) \cap OfStream(q) \cap OfLevel(q)
  BY WantedAre
<1>4. onPage \subseteq Range(kept) /\ \A i \in Range(kept) \ onPage : \A j \in onPage : Stamp(i) <= Stamp(j)
  BY <1>1 DEF Tops
<1>5. Cardinality(onPage) = Len(page) /\ page \in NewestFirst(onPage)
  BY <1>1, RangeCounts
<1>6. onPage \subseteq Wanted(q)
  BY <1>0, <1>2, <1>3, <1>4
<1>7. IsInjective(page)
  BY <1>1 DEF Falling, IsInjective
<1>8. ASSUME NEW i \in Wanted(q) \ onPage
      PROVE  /\ Cardinality(onPage) < q.limit => search.full
             /\ \A j \in onPage : index[i].ts <= index[j].ts
  <2>1. CASE i \in Range(kept)
    <3>1. page # kept
      BY <1>8, <2>1
    <3>2. PICK n \in Nat, k \in Nat : n = Len(kept) /\ k = q.limit
      BY <1>0, <1>1
    <3>3. ~(n <= k)
      BY <1>1, <3>1, <3>2
    <3>4. Len(page) = k
      BY <1>1, <3>2, <3>3
    <3>5. ~(Cardinality(onPage) < q.limit)
      BY <1>5, <3>2, <3>4
    <3>6. \A j \in onPage : Stamp(i) <= Stamp(j)
      BY <1>4, <1>8, <2>1
    <3>7. QED  BY <3>5, <3>6 DEF Stamp
  <2>2. CASE i \notin Range(kept)
    <3>1. i \in Found(q) \ Range(scan)
      BY <1>0, <1>3, <1>8, <2>2
    <3>2. search.full
      BY <1>0, <1>2, <3>1
    <3>3. \A j \in onPage : Stamp(i) <= Stamp(j)
      BY <1>0, <1>2, <1>4, <3>1
    <3>4. QED  BY <3>2, <3>3 DEF Stamp
  <2>3. QED  BY <2>1, <2>2
<1>9. QED  BY <1>0, <1>5, <1>6, <1>7, <1>8 DEF PageIsTheNewest, page

LEMMA CountsAre ==
  ASSUME LinesOK, NEW q \in Asked, NEW scan \in Scans(q), search = Answer(q, scan) PROVE CountsAreOfThePage
<1> DEFINE left == Left(q, scan)
           kept == Filtered(q, scan)
           D == DOMAIN left
           level == [i \in D |-> LevelShown(index[left[i]])]
           hour == [i \in D |-> index[left[i]].ts]
           counts == search.counts
           hours == search.hours
           asked == IF q.level = "any" THEN Levels ELSE {q.level}
           mine == SumFunctionOnSet(counts, asked)
<1>1. /\ search.asked = q /\ search.full = (Len(scan) = ScanLimit) /\ search.page = FirstOf(kept, q.limit)
      /\ counts = Counted(left) /\ hours = Histogram(left)
  BY FilteredAre DEF Answer
<1>2. Falling(left) /\ left \in Seq(Stored) /\ D = 1 .. Len(left) /\ Len(left) \in Nat /\ IsFiniteSet(D)
  <2>1. Falling(left)
    BY LeftIs
  <2>2. left \in Seq(Stored)
    BY <2>1 DEF Falling
  <2>3. D = 1 .. Len(left) /\ Len(left) \in Nat
    BY <2>2
  <2>4. QED  BY <2>1, <2>2, <2>3, FS_Interval
<1>3. /\ DOMAIN counts = Levels
      /\ \A v \in Levels : counts[v] = Cardinality(Keyed(D, level, {v}))
  <2>1. counts = [v \in Levels |-> Cardinality({i \in D : LevelShown(index[left[i]]) = v})]
    BY <1>1 DEF Counted, Levels
  <2>2. \A v : {i \in D : LevelShown(index[left[i]]) = v} = Keyed(D, level, {v})
    BY DEF Keyed
  <2>3. QED  BY <2>1, <2>2
<1>4. /\ DOMAIN hours = {hour[i] : i \in D}
      /\ \A v \in DOMAIN hours : hours[v] = Cardinality(Keyed(D, hour, {v}))
  <2>1. hours = [v \in {index[left[i]].ts : i \in D} |-> Cardinality({i \in D : index[left[i]].ts = v})]
    BY <1>1 DEF Histogram
  <2>2. \A v : {i \in D : index[left[i]].ts = v} = Keyed(D, hour, {v})
    BY DEF Keyed
  <2>3. {index[left[i]].ts : i \in D} = {hour[i] : i \in D}
    OBVIOUS
  <2>4. QED  BY <2>1, <2>2, <2>3
<1>5. \A i \in D : level[i] \in Levels
  BY <1>2, LevelsAre
<1>6. IsFiniteSet(DOMAIN hours)
  <2>1. hour \in Seq({index[i].ts : i \in Stored})
    BY <1>2
  <2>2. IsFiniteSet(Range(hour))
    BY <2>1, RangeFinite
  <2>3. Range(hour) = {hour[i] : i \in D}
    BY DEF Range
  <2>4. QED  BY <1>4, <2>2, <2>3
<1> HIDE DEF left, kept, D, level, hour, counts, hours, asked, mine
<1>7. /\ SumFunctionOnSet(counts, Levels) = Cardinality(Keyed(D, level, Levels))
      /\ SumFunctionOnSet(hours, DOMAIN hours) = Cardinality(Keyed(D, hour, DOMAIN hours))
  <2>1. IsFiniteSet(Levels)
    BY LevelsFinite
  <2>2. SumFunctionOnSet(counts, Levels) = Cardinality(Keyed(D, level, Levels))
    <3>1. \A v \in Levels : counts[v] = Cardinality(Keyed(D, level, {v}))
      BY <1>3
    <3>2. IsFiniteSet(D)
      BY <1>2
    <3>3. QED  BY <2>1, <3>1, <3>2, CountsAddUp
  <2> DEFINE V == DOMAIN hours
  <2>3. IsFiniteSet(V) /\ \A v \in V : hours[v] = Cardinality(Keyed(D, hour, {v}))
    BY <1>4, <1>6
  <2> HIDE DEF V
  <2>4. SumFunctionOnSet(hours, V) = Cardinality(Keyed(D, hour, V))
    <3>1. IsFiniteSet(D)
      BY <1>2
    <3>2. QED  BY <2>3, <3>1, CountsAddUp
  <2>5. QED  BY <2>2, <2>4 DEF V
<1>8. SumFunctionOnSet(counts, DOMAIN counts) = SumFunction(hours)
  <2>1. Keyed(D, level, Levels) = D
    BY <1>5 DEF Keyed
  <2>2. Keyed(D, hour, DOMAIN hours) = D
    BY <1>4 DEF Keyed
  <2>3. QED  BY <1>3, <1>7, <2>1, <2>2 DEF SumFunction
<1>9. mine = Len(kept) /\ Len(kept) \in Nat
  <2>1. asked \subseteq Levels /\ IsFiniteSet(asked)
    <3>1. q.level \in {"any", "error"}
      BY DEF Asked
    <3>2. IsFiniteSet(Levels)
      BY LevelsFinite
    <3>3. asked \subseteq Levels
      BY <3>1 DEF Levels, asked
    <3>4. QED  BY <3>2, <3>3, FS_Subset
  <2>2. mine = Cardinality(Keyed(D, level, asked))
    <3>1. \A v \in asked : counts[v] = Cardinality(Keyed(D, level, {v}))
      BY <1>3, <2>1
    <3>2. QED  BY <1>2, <2>1, <3>1, CountsAddUp DEF mine
  <2>3. Len(kept) = Cardinality({i \in D : i \in D /\ left[i] \in OfLevel(q)})
    <3>1. Len(kept) = Where(left, OfLevel(q), D)
      BY <1>2, LenOfOnly DEF kept, Filtered, left, D
    <3>2. QED  BY <3>1 DEF Where, D
  <2>4. ASSUME NEW i \in D PROVE level[i] \in asked <=> left[i] \in OfLevel(q)
    <3>1. left[i] \in Stored /\ level[i] = LevelShown(index[left[i]])
      BY <1>2 DEF level
    <3>2. left[i] \in OfLevel(q) <=> q.level = "any" \/ q.level = level[i]
      BY <3>1 DEF OfLevel
    <3>3. QED  BY <1>5, <3>2 DEF asked
  <2>5. Keyed(D, level, asked) = {i \in D : i \in D /\ left[i] \in OfLevel(q)}
    BY <2>4 DEF Keyed
  <2>6. Falling(kept)
    BY FilteredAre DEF kept
  <2>7. Len(kept) \in Nat
    BY <2>6, RangeCounts
  <2>8. QED  BY <2>2, <2>3, <2>5, <2>7
<1>10. /\ Len(search.page) \in Nat /\ Len(search.page) <= Len(kept) /\ q.limit \in Nat
       /\ Len(search.page) < q.limit => Len(search.page) = Len(kept)
  <2>1. Falling(kept) /\ q.limit \in Nat
    BY FilteredAre DEF kept
  <2> DEFINE page == search.page
  <2>2. page = FirstOf(kept, q.limit)
    BY <1>1
  <2> HIDE DEF page
  <2>3. /\ Len(page) \in Nat /\ Len(kept) \in Nat /\ Len(page) <= Len(kept)
        /\ Len(kept) <= q.limit => page = kept
        /\ Len(kept) > q.limit => Len(page) = q.limit
    BY <2>1, <2>2, FirstAreNewest
  <2>4. QED  BY <2>1, <2>3 DEF page
<1>11. search.full \/ Len(kept) = Cardinality(Wanted(q))
  <2>1. ASSUME ~search.full PROVE Len(kept) = Cardinality(Wanted(q))
    <3>1. Range(scan) = Found(q)
      BY <1>1, <2>1, ScanIs
    <3>2. Falling(kept) /\ Range(kept) = Wanted(q)
      BY <3>1, FilteredAre, WantedAre DEF kept
    <3>3. QED  BY <3>2, RangeCounts
  <2>2. QED  BY <2>1
<1>12. \A n, k \in Nat : k <= n => n >= k
  OBVIOUS
<1>13. mine = SumFunctionOnSet(search.counts, IF q.level = "any" THEN DOMAIN search.counts ELSE {q.level})
  BY <1>3 DEF counts, asked, mine
<1>14. mine >= Len(search.page) /\ (Len(search.page) < q.limit => mine = Len(search.page))
  BY <1>9, <1>10, <1>12
<1>15. search.full \/ mine = Cardinality(Wanted(q))
  BY <1>9, <1>11
<1>16. QED  BY <1>1, <1>8, <1>13, <1>14, <1>15 DEF CountsAreOfThePage, counts, hours

\* A line stored has an index that holds lines.
LEMMA StoreKeepsLines == ASSUME LinesOK, Store PROVE LinesOK'
<1>1. PICK kind \in Samples, ts \in Seconds :
        index' = Append(index, [container |-> kind.container, stream |-> kind.stream, text |-> kind.text,
                                word |-> kind.word, ts |-> ts])
  BY DEF Store
<1> DEFINE line == [container |-> kind.container, stream |-> kind.stream, text |-> kind.text,
                    word |-> kind.word, ts |-> ts]
<1>2. kind \in LineKinds
  BY SamplesAssumption
<1>3. line \in StoredLine
  BY <1>2 DEF LineKinds, StoredLine
<1> HIDE DEF line
<1>4. Append(index, line) \in Seq(StoredLine)
  BY <1>3 DEF LinesOK
<1>5. QED  BY <1>1, <1>4 DEF LinesOK, line

\* An answer to what is asked is one as long as the lines stay.
LEMMA AnswerStays ==
  ASSUME LinesOK, NEW q \in Asked, NEW scan \in Scans(q), index' = index, search' = Answer(q, scan)
  PROVE  SearchInv'
<1>1. LinesOK'
  BY DEF LinesOK
<1>2. Scans(q)' = Scans(q)
  <2>1. {i \in Stored : Matches(index[i], q)}' = {i \in Stored : Matches(index[i], q)}
    BY DEF Stored, Matches
  <2>2. ASSUME NEW S PROVE NewestFirst(S)' = NewestFirst(S)
    BY DEF NewestFirst
  <2>3. QED  BY <2>1, <2>2 DEF Scans
<1>3. Left(q, scan)' = Left(q, scan)
  BY DEF Left, Stored
<1>4. ASSUME NEW lines PROVE (/\ Counted(lines)' = Counted(lines) /\ Histogram(lines)' = Histogram(lines)
                              /\ Page(lines, q)' = Page(lines, q))
  BY DEF Counted, Histogram, Page, Stored, LevelShown
<1>5. Answer(q, scan)' = Answer(q, scan)
  BY <1>3, <1>4 DEF Answer
<1>6. Asked' = Asked
  BY DEF Asked
<1>7. QED  BY <1>1, <1>2, <1>5, <1>6 DEF SearchInv

\* The invariant: the answer is the one of a scan of the lines as they still are.
LEMMA SearchStep == SearchInv /\ [SearchNext]_searchVars => SearchInv'
<1> SUFFICES ASSUME SearchInv, [SearchNext]_searchVars PROVE SearchInv'
  OBVIOUS
<1>1. LinesOK
  BY DEF SearchInv
<1>2. CASE PanelSearches
  <2>1. PICK q \in {a \in Asked : a.stream = "any"} : \E scan \in Scans(q) : Shows(q, scan, scan)
    BY <1>2 DEF PanelSearches
  <2>2. PICK scan \in Scans(q) : Shows(q, scan, scan)
    BY <2>1
  <2>3. Left(q, scan) = scan
    BY <2>1 DEF Left
  <2>4. search' = Answer(q, scan) /\ index' = index
    BY <1>2, <2>2, <2>3 DEF Shows, Answer, PanelSearches
  <2>5. QED  BY <1>1, <2>1, <2>4, AnswerStays
<1>3. CASE AgentSearches
  <2>1. PICK q \in {a \in Asked : a.stream # "any"} : \E scan \in Scans(q) :
          Shows(q, scan, Only(scan, {i \in Stored : index[i].stream = q.stream}))
    BY <1>3 DEF AgentSearches
  <2>2. PICK scan \in Scans(q) : Shows(q, scan, Only(scan, {i \in Stored : index[i].stream = q.stream}))
    BY <2>1
  <2>3. Left(q, scan) = Only(scan, {i \in Stored : index[i].stream = q.stream})
    BY <2>1 DEF Left
  <2>4. search' = Answer(q, scan) /\ index' = index
    BY <1>3, <2>2, <2>3 DEF Shows, Answer, AgentSearches
  <2>5. QED  BY <1>1, <2>1, <2>4, AnswerStays
<1>4. CASE Store
  <2>1. LinesOK' /\ search' = NoSearch
    BY <1>1, <1>4, StoreKeepsLines DEF Store
  <2>2. NoSearch' = NoSearch
    BY DEF NoSearch
  <2>3. QED  BY <2>1, <2>2 DEF SearchInv
<1>5. CASE UNCHANGED searchVars
  <2>1. index' = index /\ search' = search
    BY <1>5 DEF searchVars
  <2>2. CASE search = NoSearch
    BY <1>1, <2>1, <2>2 DEF SearchInv, LinesOK, NoSearch
  <2>3. CASE search # NoSearch
    <3>1. PICK q \in Asked : \E scan \in Scans(q) : search = Answer(q, scan)
      BY <2>3 DEF SearchInv
    <3>2. PICK scan \in Scans(q) : search = Answer(q, scan)
      BY <3>1
    <3>3. QED  BY <1>1, <2>1, <3>2, AnswerStays
  <2>4. QED  BY <2>2, <2>3
<1>6. QED  BY <1>2, <1>3, <1>4, <1>5 DEF SearchNext

-----------------------------------------------------------------------------
(* Searches are true *)

\* Every answer, whoever asks and whatever for, is a page of the newest lines asked
\* for with counts that agree with it and with each other, except where the scan
\* came back full (project_logs, search_logs).
THEOREM SearchesAreTrue == SearchSpec => []SearchIsTrue
<1>1. SearchInit => SearchInv
  <2>1. <<>> \in Seq(StoredLine)
    OBVIOUS
  <2>2. QED  BY <2>1 DEF SearchInit, SearchInv, LinesOK
<1>2. SearchInv /\ [SearchNext]_searchVars => SearchInv'
  BY SearchStep
<1>3. SearchInv => SearchIsTrue
  <2> SUFFICES ASSUME SearchInv PROVE PageIsTheNewest /\ CountsAreOfThePage
    BY DEF SearchIsTrue
  <2>1. CASE search = NoSearch
    BY <2>1 DEF NoSearch, PageIsTheNewest, CountsAreOfThePage
  <2>2. CASE search # NoSearch
    <3>1. PICK q \in Asked : \E scan \in Scans(q) : search = Answer(q, scan)
      BY <2>2 DEF SearchInv
    <3>2. PICK scan \in Scans(q) : search = Answer(q, scan)
      BY <3>1
    <3>3. LinesOK
      BY DEF SearchInv
    <3>4. QED  BY <3>2, <3>3, PageIs, CountsAre
  <2>3. QED  BY <2>1, <2>2
<1>4. QED  BY <1>1, <1>2, <1>3, PTL DEF SearchSpec

-----------------------------------------------------------------------------
(* The charts *)

LEMMA ChartsConstants ==
  /\ SampleSecs \in Nat /\ SampleSecs > 0 /\ PersistSecs \in Nat /\ PersistSecs > 0 /\ KeepSecs \in Nat
  /\ ProjectCap \in Nat /\ ProjectCap > 0 /\ Limit \in Nat /\ Limit > 0
  /\ Day \in Nat /\ Day >= PersistSecs + SampleSecs
  /\ HistoryCap \in Nat /\ HistoryCap > 0 /\ HistoryCap * SampleSecs = Day
<1>1. /\ SampleSecs \in Nat /\ SampleSecs > 0 /\ PersistSecs \in Nat /\ PersistSecs > 0 /\ KeepSecs \in Nat
      /\ ProjectCap \in Nat /\ ProjectCap > 0 /\ Limit \in Nat /\ Limit > 0
      /\ Day \in Nat /\ Day >= PersistSecs + SampleSecs
  BY ChartsAssumption
<1>2. HistoryCap * SampleSecs = Day
  BY ChartsAssumption DEF HistoryCap
<1>3. HistoryCap \in Nat
  <2>1. SampleSecs \in Nat \ {0} /\ Day \in Nat
    BY <1>1
  <2>2. Day \div SampleSecs \in Nat
    BY <2>1
  <2>3. QED  BY <2>2 DEF HistoryCap
<1>4. HistoryCap # 0
  <2>1. CASE HistoryCap = 0
    <3>1. 0 * SampleSecs = 0
      BY <1>1
    <3>2. QED  BY <1>1, <1>2, <2>1, <3>1
  <2>2. QED  BY <2>1
<1>5. QED  BY <1>1, <1>2, <1>3, <1>4

Point == [scope : Scopes, ts : Nat \ {0}, of : SUBSET Nat]

ChartsTypeOK ==
  /\ now \in Nat \ {0} /\ due \in [Timers -> Nat] /\ snapshot \in Nat /\ lastPass \in Nat
  /\ history \in Seq(Nat) /\ sampled \subseteq Nat /\ samples \subseteq Point /\ punctual \in BOOLEAN
  /\ DOMAIN live \subseteq Slugs /\ \A s \in DOMAIN live : live[s] \in Seq(Nat)
  /\ listing.ts \in Nat /\ listing.slugs \subseteq Slugs

\* No timer fires twice in a period, so a sample is a period after the one before.
Clocks ==
  /\ snapshot <= now /\ lastPass <= now /\ due["persist"] = lastPass + PersistSecs
  /\ snapshot # 0 => snapshot + SampleSecs <= due["machine"]

\* Each sample of the ring is as many periods old as there are newer ones, and one
\* that it lost as many as the ring is long.
Ring ==
  /\ Len(history) <= HistoryCap /\ Range(history) \subseteq sampled
  /\ history # <<>> => history[Len(history)] = snapshot
  /\ history = <<>> => snapshot = 0 /\ sampled = {}
  /\ snapshot = 0 => history = <<>>
  /\ \A i \in DOMAIN history : history[i] # 0 /\ history[i] + (Len(history) - i) * SampleSecs <= snapshot
  /\ \A ts \in sampled \ Range(history) : ts + HistoryCap * SampleSecs <= snapshot

\* A list that has one more at its end, and has lost its oldest if it was full.
LEMMA PushedIs ==
  ASSUME NEW s \in Seq(Nat), NEW ts \in Nat, NEW cap \in Nat, cap > 0, Len(s) <= cap
  PROVE  /\ Pushed(s, ts, cap) \in Seq(Nat) /\ ts \in Range(Pushed(s, ts, cap))
         /\ Range(Pushed(s, ts, cap)) \subseteq Range(s) \cup {ts} /\ Len(Pushed(s, ts, cap)) <= cap
         /\ Len(Pushed(s, ts, cap)) \in Nat /\ Pushed(s, ts, cap) # <<>>
         /\ Pushed(s, ts, cap)[Len(Pushed(s, ts, cap))] = ts
<1> DEFINE t == IF s # <<>> /\ Len(s) = cap THEN Tail(s) ELSE s
           p == Append(t, ts)
<1>1. Pushed(s, ts, cap) = p
  BY DEF Pushed
<1>2. t \in Seq(Nat) /\ Len(t) \in Nat /\ Len(t) + 1 <= cap /\ \A i \in 1 .. Len(t) : t[i] \in Range(s)
  <2>1. CASE s # <<>> /\ Len(s) = cap
    <3>1. t = Tail(s)
      BY <2>1
    <3>2. Tail(s) \in Seq(Nat) /\ Len(Tail(s)) = Len(s) - 1 /\ \A i \in 1 .. Len(s) - 1 : Tail(s)[i] = s[i + 1] /\ i + 1 \in DOMAIN s
      BY <2>1
    <3>3. QED  BY <2>1, <3>1, <3>2 DEF Range
  <2>2. CASE ~(s # <<>> /\ Len(s) = cap)
    <3>1. t = s
      BY <2>2
    <3>2. Len(s) \in Nat /\ DOMAIN s = 1 .. Len(s) /\ (s = <<>> => Len(s) = 0)
      OBVIOUS
    <3>3. Len(s) + 1 <= cap
      <4>1. PICK k \in Nat : k = Len(s)
        BY <3>2
      <4>2. s = <<>> => k = 0
        BY <3>2, <4>1
      <4>3. k # cap
        BY <2>2, <4>1, <4>2
      <4>4. k <= cap
        BY <4>1
      <4>5. k + 1 <= cap
        BY <4>3, <4>4
      <4>6. QED  BY <4>1, <4>5
    <3>4. \A i \in 1 .. Len(s) : s[i] \in Range(s)
      BY <3>2 DEF Range
    <3>5. QED  BY <3>1, <3>2, <3>3, <3>4
  <2>3. QED  BY <2>1, <2>2
<1> HIDE DEF t
<1>3. /\ p \in Seq(Nat) /\ Len(p) = Len(t) + 1 /\ p[Len(t) + 1] = ts /\ DOMAIN p = 1 .. Len(t) + 1
      /\ \A i \in 1 .. Len(t) : p[i] = t[i]
  BY <1>2
<1> HIDE DEF p
<1>4. Range(p) \subseteq Range(s) \cup {ts}
  <2>1. ASSUME NEW i \in 1 .. Len(t) + 1 PROVE p[i] \in Range(s) \cup {ts}
    <3>1. i \in 1 .. Len(t) \/ i = Len(t) + 1
      BY <1>2
    <3>2. QED  BY <1>2, <1>3, <3>1
  <2>2. QED  BY <1>3, <2>1 DEF Range
<1>5. ts \in Range(p)
  BY <1>2, <1>3 DEF Range
<1>6. p # <<>>
  BY <1>2, <1>3
<1>7. QED  BY <1>1, <1>2, <1>3, <1>4, <1>5, <1>6

LEMMA TimersAre == {"machine", "projects", "persist"} = Timers
BY DEF Timers

\* What a timer that fires leaves of them.
LEMMA FiresIs ==
  ASSUME ChartsTypeOK, NEW timer \in Timers, NEW period \in Nat, Fires(timer, period)
  PROVE  /\ due' \in [Timers -> Nat] /\ now >= due[timer] /\ due'[timer] = now + period
         /\ \A other \in Timers \ {timer} : due'[other] = due[other]
BY DEF ChartsTypeOK, Fires

\* A sample pushed on the ring.
LEMMA SampleKeepsRing ==
  ASSUME ChartsTypeOK, Clocks, Ring, Sample PROVE Ring'
<1>0. /\ history \in Seq(Nat) /\ now \in Nat /\ now # 0 /\ snapshot \in Nat /\ sampled \subseteq Nat
      /\ Len(history) <= HistoryCap
  BY DEF ChartsTypeOK, Ring
<1>a. PICK n \in Nat : n = Len(history)
  BY <1>0
<1>1. /\ history \in Seq(Nat) /\ n \in Nat /\ DOMAIN history = 1 .. n
      /\ now \in Nat /\ now # 0 /\ snapshot \in Nat /\ sampled \subseteq Nat
      /\ SampleSecs \in Nat /\ HistoryCap \in Nat /\ HistoryCap > 0 /\ n <= HistoryCap
  BY <1>0, <1>a, ChartsConstants
<1>2. history' = Pushed(history, now, HistoryCap) /\ snapshot' = now /\ sampled' = sampled \cup {now}
  BY DEF Sample
<1>3. snapshot # 0 => snapshot + SampleSecs <= now
  <2>1. now >= due["machine"] /\ due["machine"] \in Nat
    BY ChartsConstants, FiresIs, TimersAre DEF Sample, ChartsTypeOK
  <2>2. snapshot # 0 => snapshot + SampleSecs <= due["machine"]
    BY DEF Clocks
  <2>3. QED  BY <1>1, <2>1, <2>2
<1>4. /\ history' \in Seq(Nat) /\ now \in Range(history') /\ Range(history') \subseteq Range(history) \cup {now}
      /\ Len(history') <= HistoryCap /\ Len(history') \in Nat /\ history' # <<>> /\ history'[Len(history')] = now
  <2> DEFINE p == Pushed(history, now, HistoryCap)
  <2>1. /\ p \in Seq(Nat) /\ now \in Range(p) /\ Range(p) \subseteq Range(history) \cup {now}
        /\ Len(p) <= HistoryCap /\ Len(p) \in Nat /\ p # <<>> /\ p[Len(p)] = now
    <3>1. Len(history) <= HistoryCap
      BY <1>0
    <3>2. history \in Seq(Nat) /\ now \in Nat /\ HistoryCap \in Nat /\ HistoryCap > 0
      BY <1>1
    <3>3. QED  BY <3>1, <3>2, PushedIs
  <2> HIDE DEF p
  <2>2. history' = p
    BY <1>2 DEF p
  <2>3. QED  BY <2>1, <2>2
<1>5. Range(history) \subseteq sampled
  BY DEF Ring
<1>6. CASE history = <<>>
  <2>1. history' = <<now>> /\ sampled' = {now}
    BY <1>2, <1>6 DEF Pushed, Ring
  <2>2. Range(history') = {now}
    BY <1>4, <1>6, RangeOfNone
  <2>3. Len(history') = 1 /\ DOMAIN history' = {1} /\ history'[1] = now
    BY <2>1
  <2>4. now + (1 - 1) * SampleSecs <= now
    BY <1>1
  <2>5. sampled' \ Range(history') = {}
    BY <2>1, <2>2
  <2>6. QED  BY <1>1, <1>2, <1>4, <2>1, <2>2, <2>3, <2>4, <2>5 DEF Ring
<1>7. CASE history # <<>>
  <2>1. snapshot + SampleSecs <= now
    BY <1>3, <1>7 DEF Ring
  <2>2. \A i \in 1 .. n : history[i] \in Nat /\ history[i] # 0 /\ history[i] + (n - i) * SampleSecs <= snapshot
    <3>1. \A i \in DOMAIN history : history[i] # 0 /\ history[i] + (Len(history) - i) * SampleSecs <= snapshot
      BY DEF Ring
    <3>2. \A i \in 1 .. n : history[i] # 0 /\ history[i] + (n - i) * SampleSecs <= snapshot
      BY <1>1, <1>a, <3>1
    <3>3. \A i \in 1 .. n : history[i] \in Nat
      BY <1>1
    <3>4. QED  BY <3>2, <3>3
  <2>3. \A i \in 1 .. n : history[i] + (n + 1 - i) * SampleSecs <= now
    <3>1. SUFFICES ASSUME NEW i \in 1 .. n PROVE history[i] + (n + 1 - i) * SampleSecs <= now
      OBVIOUS
    <3>0. history[i] \in Nat /\ n - i \in Nat
      BY <1>1, <2>2
    <3>2. PICK x \in Nat, k \in Nat : x = history[i] /\ k = n - i
      BY <3>0
    <3>3. (k + 1) * SampleSecs = k * SampleSecs + SampleSecs /\ k * SampleSecs \in Nat
      BY <1>1
    <3>4. x + k * SampleSecs <= snapshot /\ n + 1 - i = k + 1
      BY <1>1, <2>2, <3>2
    <3>5. x + (k + 1) * SampleSecs <= now
      BY <1>1, <2>1, <3>3, <3>4
    <3>6. QED  BY <3>2, <3>4, <3>5
  <2>4. \A ts \in sampled \ Range(history) : ts + HistoryCap * SampleSecs <= now
    <3>1. \A ts \in sampled \ Range(history) : ts \in Nat /\ ts + HistoryCap * SampleSecs <= snapshot
      BY <1>1 DEF Ring
    <3>2. HistoryCap * SampleSecs \in Nat
      BY <1>1
    <3>3. QED  BY <1>1, <2>1, <3>1, <3>2
  <2>5. CASE n = HistoryCap
    <3>1. history' = Append(Tail(history), now)
      BY <1>2, <1>7, <1>a, <2>5 DEF Pushed
    <3>2. /\ Len(history') = n /\ DOMAIN history' = 1 .. n
          /\ \A i \in 1 .. n : history'[i] = IF i = n THEN now ELSE history[i + 1]
      <4> DEFINE t == Tail(history)
      <4>1. t \in Seq(Nat) /\ Len(t) = n - 1 /\ n >= 1 /\ \A i \in 1 .. n - 1 : t[i] = history[i + 1]
        BY <1>1, <1>7, <1>a
      <4> HIDE DEF t
      <4>2. /\ Len(Append(t, now)) = Len(t) + 1 /\ DOMAIN Append(t, now) = 1 .. Len(t) + 1
            /\ \A i \in 1 .. Len(t) : Append(t, now)[i] = t[i]
            /\ Append(t, now)[Len(t) + 1] = now
        BY <1>1, <4>1
      <4>3. Len(t) + 1 = n /\ \A i \in 1 .. n : i = n \/ i \in 1 .. n - 1
        BY <1>1, <4>1
      <4>4. history' = Append(t, now)
        BY <3>1 DEF t
      <4>5. QED  BY <4>1, <4>2, <4>3, <4>4
    <3>3. ASSUME NEW i \in 1 .. n PROVE history'[i] # 0 /\ history'[i] + (n - i) * SampleSecs <= now
      <4>1. CASE i = n
        <5>1. (n - n) * SampleSecs = 0 /\ now + 0 = now
          BY <1>1
        <5>2. history'[n] = now /\ now <= now
          BY <1>1, <3>2, <4>1
        <5>3. QED  BY <1>1, <4>1, <5>1, <5>2
      <4>2. CASE i # n
        <5>1. i + 1 \in 1 .. n /\ n + 1 - (i + 1) = n - i
          <6>1. PICK k \in Nat : k = n
            BY <1>1
          <6>2. i \in 1 .. k /\ i # k
            BY <4>2, <6>1
          <6>3. i + 1 \in 1 .. k /\ k + 1 - (i + 1) = k - i
            BY <6>2
          <6>4. QED  BY <6>1, <6>3
        <5>2. history[i + 1] + (n + 1 - (i + 1)) * SampleSecs <= now /\ history[i + 1] # 0
          BY <2>2, <2>3, <5>1
        <5>3. QED  BY <3>2, <4>2, <5>1, <5>2
      <4>3. QED  BY <4>1, <4>2
    <3>4. ASSUME NEW ts \in sampled' \ Range(history') PROVE ts + HistoryCap * SampleSecs <= now
      <4>1. ts \in sampled /\ ts # now
        BY <1>2, <1>4, <3>4
      <4>2. CASE ts \in Range(history)
        <5>1. PICK i \in 1 .. n : ts = history[i]
          BY <1>1, <4>2 DEF Range
        <5>2. i = 1
          <6>1. CASE i # 1
            <7>1. i - 1 \in 1 .. n /\ i - 1 # n /\ (i - 1) + 1 = i
              BY <1>1, <6>1
            <7>2. history'[i - 1] = ts
              BY <3>2, <5>1, <7>1
            <7>3. ts \in Range(history')
              BY <3>2, <7>1, <7>2 DEF Range
            <7>4. QED  BY <3>4, <7>3
          <6>2. QED  BY <6>1
        <5>3. history[1] + (n + 1 - 1) * SampleSecs <= now
          BY <2>3, <5>1, <5>2
        <5>4. n + 1 - 1 = HistoryCap
          BY <1>1, <2>5
        <5>5. QED  BY <5>1, <5>2, <5>3, <5>4
      <4>3. CASE ts \notin Range(history)
        BY <2>4, <4>1, <4>3
      <4>4. QED  BY <4>2, <4>3
    <3>5. Range(history') \subseteq sampled'
      BY <1>2, <1>4, <1>5
    <3>6. QED  BY <1>1, <1>2, <1>4, <3>2, <3>3, <3>4, <3>5 DEF Ring
  <2>6. CASE n # HistoryCap
    <3>1. history' = Append(history, now)
      BY <1>2, <1>a, <2>6 DEF Pushed
    <3>2. /\ Len(history') = n + 1 /\ DOMAIN history' = 1 .. n + 1
          /\ \A i \in 1 .. n + 1 : history'[i] = IF i = n + 1 THEN now ELSE history[i]
      BY <1>1, <1>a, <3>1
    <3>3. ASSUME NEW i \in 1 .. n + 1 PROVE history'[i] # 0 /\ history'[i] + (n + 1 - i) * SampleSecs <= now
      <4>1. CASE i = n + 1
        <5>1. ((n + 1) - (n + 1)) * SampleSecs = 0
          BY <1>1
        <5>2. QED  BY <1>1, <3>2, <4>1, <5>1
      <4>2. CASE i # n + 1
        <5>1. i \in 1 .. n
          BY <1>1, <4>2
        <5>2. QED  BY <2>2, <2>3, <3>2, <4>2, <5>1
      <4>3. QED  BY <4>1, <4>2
    <3>4. Range(history') = Range(history) \cup {now}
      BY <1>1, <3>1, RangeOfMore
    <3>5. \A ts \in sampled' \ Range(history') : ts + HistoryCap * SampleSecs <= now
      BY <1>2, <2>4, <3>4
    <3>6. Range(history') \subseteq sampled'
      BY <1>2, <1>4, <1>5
    <3>7. \A i \in DOMAIN history' : history'[i] # 0 /\ history'[i] + (Len(history') - i) * SampleSecs <= snapshot'
      BY <1>2, <3>2, <3>3
    <3>8. snapshot' # 0
      BY <1>1, <1>2
    <3>9. history'[Len(history')] = snapshot'
      BY <1>2, <1>4
    <3>10. QED  BY <1>2, <1>4, <3>5, <3>6, <3>7, <3>8, <3>9 DEF Ring
  <2>7. QED  BY <2>5, <2>6
<1>8. QED  BY <1>6, <1>7

\* What a ring has lost is a day old.
LEMMA RingHasTheDay ==
  ASSUME ChartsTypeOK, Ring
  PROVE  /\ \A ts \in sampled : ts \in Nat /\ ts <= snapshot /\ (ts > snapshot - Day => ts \in Range(history))
         /\ \A ts \in Range(history) : ts \in Nat /\ ts # 0 /\ ts <= snapshot
         /\ snapshot # 0 => snapshot \in Range(history)
<1>0. /\ history \in Seq(Nat) /\ snapshot \in Nat /\ sampled \subseteq Nat
  BY DEF ChartsTypeOK
<1>1. PICK n \in Nat : n = Len(history)
  BY <1>0
<1>2. DOMAIN history = 1 .. n /\ \A i \in 1 .. n : history[i] \in Nat
  BY <1>0, <1>1
<1>3. \A ts \in Range(history) : ts \in Nat /\ ts # 0 /\ ts <= snapshot
  <2>1. SUFFICES ASSUME NEW i \in 1 .. n PROVE history[i] # 0 /\ history[i] <= snapshot
    BY <1>2 DEF Range
  <2>2. history[i] # 0 /\ history[i] + (n - i) * SampleSecs <= snapshot
    BY <1>1, <1>2 DEF Ring
  <2>3. PICK x \in Nat, k \in Nat : x = history[i] /\ k = n - i
    <3>1. n - i \in Nat
      OBVIOUS
    <3>2. QED  BY <1>2, <3>1
  <2>4. k * SampleSecs \in Nat
    BY ChartsConstants
  <2>5. x + k * SampleSecs <= snapshot
    BY <2>2, <2>3
  <2>6. x <= snapshot
    BY <1>0, <2>4, <2>5
  <2>7. QED  BY <2>2, <2>3, <2>6
<1>4. \A ts \in sampled \ Range(history) : ts + Day <= snapshot
  BY ChartsConstants DEF Ring
<1>5. \A ts \in sampled : ts \in Nat /\ ts <= snapshot /\ (ts > snapshot - Day => ts \in Range(history))
  <2>1. SUFFICES ASSUME NEW ts \in sampled
                 PROVE  ts \in Nat /\ ts <= snapshot /\ (ts > snapshot - Day => ts \in Range(history))
    OBVIOUS
  <2>2. ts \in Nat
    BY <1>0
  <2>3. CASE ts \in Range(history)
    BY <1>3, <2>2, <2>3
  <2>4. CASE ts \notin Range(history)
    <3>1. ts + Day <= snapshot /\ Day \in Nat
      BY <1>4, <2>4, ChartsConstants
    <3>2. QED  BY <1>0, <2>2, <3>1
  <2>5. QED  BY <2>3, <2>4
<1>6. ASSUME snapshot # 0 PROVE snapshot \in Range(history)
  <2>1. history # <<>> /\ history[Len(history)] = snapshot
    BY <1>6 DEF Ring
  <2>2. n \in 1 .. n
    <3>1. n # 0
      BY <1>0, <1>1, <2>1
    <3>2. QED  BY <3>1
  <2>3. QED  BY <1>1, <1>2, <2>1, <2>2 DEF Range
<1>7. QED  BY <1>3, <1>5, <1>6

-----------------------------------------------------------------------------
(* The points of the week *)

LEMMA SinceIs == ASSUME NEW s, NEW since PROVE Since(s, since) = {ts \in Range(s) : ts >= since}
BY DEF Since, ToSet, Range

\* Histories and the listing on its way are of seconds before the next listing.
Listed ==
  /\ listing # NoListing => listing.ts # 0 /\ listing.ts <= now /\ listing.ts < due["projects"]
  /\ \A s \in DOMAIN live :
       /\ Len(live[s]) <= ProjectCap
       /\ \A ts \in Range(live[s]) : /\ ts # 0 /\ ts <= now /\ ts < due["projects"]
                                     /\ listing # NoListing => ts < listing.ts

\* A point has the samples of its window up to the second it is of; averaged again
\* it would have no other, unless its series has a newer sample.
Points ==
  \A p \in samples :
    /\ p.ts <= now /\ \A ts \in p.of : ts <= p.ts
    /\ p.scope = "server" => p.ts < due["machine"] /\ (p.ts = snapshot => p.of = Since(history, Window))
    /\ p.scope # "server" => p.ts < due["projects"] /\ (listing # NoListing => p.ts < listing.ts)
    /\ (\A ts \in Range(Series(p.scope)) : ts <= p.ts) => Since(Series(p.scope), Window) \subseteq p.of

\* Points from a moment on are no more than the passes since.
Times(scope, since) == {p.ts : p \in {q \in samples : q.scope = scope /\ q.ts >= since}}
FewIn(scope, since) ==
  /\ IsFiniteSet(Times(scope, since))
  /\ Times(scope, since) # {} => (Cardinality(Times(scope, since)) - 1) * PersistSecs + since <= lastPass
Few == \A scope \in Scopes, since \in Int : FewIn(scope, since)

ChartsInv == ChartsTypeOK /\ Clocks /\ Ring /\ Listed /\ Points /\ NoSampleIsLeftOut /\ Few

\* Nothing is sampled or averaged, and time goes on.
LEMMA TimePasses ==
  ASSUME ChartsInv, ChartsTypeOK', Clocks', UNCHANGED <<history, snapshot, live, samples, sampled, lastPass, punctual>>,
         now <= now', due["machine"] <= due'["machine"], due["projects"] <= due'["projects"],
         \/ listing' \in {listing, NoListing}
         \/ listing'.ts = now /\ due["projects"] <= now /\ now < due'["projects"] /\ now' = now
  PROVE  ChartsInv'
<1>1. Ring' /\ NoSampleIsLeftOut' /\ Few'
  <2>1. Ring'
    BY DEF ChartsInv, Ring
  <2>2. NoSampleIsLeftOut'
    BY DEF ChartsInv, NoSampleIsLeftOut
  <2>3. \A scope, since : Times(scope, since)' = Times(scope, since)
    BY DEF Times
  <2>4. Few'
    BY <2>3 DEF ChartsInv, Few, FewIn, Scopes
  <2>5. QED  BY <2>1, <2>2, <2>4
<1>2. /\ due["machine"] \in Nat /\ due'["machine"] \in Nat /\ due["projects"] \in Nat /\ due'["projects"] \in Nat
      /\ now \in Nat /\ now' \in Nat /\ now # 0 /\ listing.ts \in Nat /\ listing'.ts \in Nat
  BY DEF ChartsInv, ChartsTypeOK, Timers
<1>3. NoListing' = NoListing
  BY DEF NoListing
<1>4. Listed'
  <2>1. listing' # NoListing => listing'.ts # 0 /\ listing'.ts <= now' /\ listing'.ts < due'["projects"]
    BY <1>2 DEF ChartsInv, Listed
  <2>2. ASSUME NEW s \in DOMAIN live
        PROVE  /\ Len(live[s]) <= ProjectCap
               /\ \A ts \in Range(live[s]) : /\ ts # 0 /\ ts <= now' /\ ts < due'["projects"]
                                             /\ listing' # NoListing => ts < listing'.ts
    <3>1. Range(live[s]) \subseteq Nat
      BY DEF ChartsInv, ChartsTypeOK, Range
    <3>2. QED  BY <1>2, <3>1 DEF ChartsInv, Listed
  <2>3. QED  BY <1>3, <2>1, <2>2 DEF Listed
<1>5. Points'
  <2>1. Window' = Window /\ \A x : Series(x)' = Series(x)
    BY DEF Window, Series
  <2>2. ASSUME NEW p \in samples
        PROVE  /\ p.ts <= now' /\ \A ts \in p.of : ts <= p.ts
               /\ p.scope = "server" => p.ts < due'["machine"] /\ (p.ts = snapshot => p.of = Since(history, Window))
               /\ p.scope # "server" => p.ts < due'["projects"] /\ (listing' # NoListing => p.ts < listing'.ts)
               /\ (\A ts \in Range(Series(p.scope)) : ts <= p.ts) => Since(Series(p.scope), Window) \subseteq p.of
    <3>1. p.ts \in Nat
      BY DEF ChartsInv, ChartsTypeOK, Point
    <3>2. /\ p.ts <= now /\ \A ts \in p.of : ts <= p.ts
          /\ p.scope = "server" => p.ts < due["machine"] /\ (p.ts = snapshot => p.of = Since(history, Window))
          /\ p.scope # "server" => p.ts < due["projects"] /\ (listing # NoListing => p.ts < listing.ts)
          /\ (\A ts \in Range(Series(p.scope)) : ts <= p.ts) => Since(Series(p.scope), Window) \subseteq p.of
      BY DEF ChartsInv, Points
    <3>3. p.ts <= now'
      BY <1>2, <3>1, <3>2
    <3>4. p.scope = "server" => p.ts < due'["machine"]
      BY <1>2, <3>1, <3>2
    <3>5. p.scope # "server" => p.ts < due'["projects"] /\ (listing' # NoListing => p.ts < listing'.ts)
      BY <1>2, <3>1, <3>2
    <3>6. QED  BY <3>2, <3>3, <3>4, <3>5
  <2>3. QED  BY <1>3, <2>1, <2>2 DEF Points, Since
<1>6. QED  BY <1>1, <1>4, <1>5 DEF ChartsInv

\* A sample.
LEMMA SampleStays == ASSUME ChartsInv, Sample PROVE ChartsInv'
<1>0. /\ now \in Nat /\ now # 0 /\ snapshot \in Nat /\ lastPass \in Nat /\ due \in [Timers -> Nat] /\ snapshot <= now
      /\ SampleSecs \in Nat /\ SampleSecs > 0 /\ PersistSecs \in Nat /\ KeepSecs \in Nat
  BY ChartsConstants DEF ChartsInv, ChartsTypeOK, Clocks
<1>1. /\ history' = Pushed(history, now, HistoryCap) /\ snapshot' = now /\ sampled' = sampled \cup {now}
      /\ UNCHANGED <<now, live, listing, samples, lastPass, punctual, restarts>>
  BY DEF Sample
<1>2. /\ due' \in [Timers -> Nat] /\ now >= due["machine"] /\ due'["machine"] = now + SampleSecs
      /\ due'["projects"] = due["projects"] /\ due'["persist"] = due["persist"]
  <2>1. Fires("machine", SampleSecs) /\ ChartsTypeOK /\ "machine" \in Timers /\ "projects" \in Timers /\ "persist" \in Timers
    BY DEF Sample, ChartsInv, Timers
  <2>2. QED  BY <1>0, <2>1, FiresIs
<1>3. history' \in Seq(Nat) /\ now \in Range(history')
  <2>1. history \in Seq(Nat) /\ HistoryCap \in Nat /\ HistoryCap > 0 /\ Len(history) <= HistoryCap
    BY ChartsConstants DEF ChartsInv, ChartsTypeOK, Ring
  <2>2. Pushed(history, now, HistoryCap) \in Seq(Nat) /\ now \in Range(Pushed(history, now, HistoryCap))
    BY <1>0, <2>1, PushedIs
  <2>3. QED  BY <1>1, <2>2
<1>4. ChartsTypeOK'
  <2>1. sampled' \subseteq Nat /\ snapshot' \in Nat /\ now' \in Nat \ {0}
    BY <1>0, <1>1 DEF ChartsInv, ChartsTypeOK
  <2>2. Point' = Point
    BY DEF Point, Scopes
  <2>3. QED  BY <1>1, <1>2, <1>3, <2>1, <2>2 DEF ChartsInv, ChartsTypeOK
<1>5. Clocks'
  <2>1. now' = now /\ lastPass' = lastPass /\ snapshot' = now /\ snapshot' + SampleSecs <= due'["machine"]
    BY <1>0, <1>1, <1>2
  <2>2. QED  BY <1>0, <1>2, <2>1 DEF ChartsInv, Clocks
<1>6. Ring'
  BY SampleKeepsRing DEF ChartsInv
<1>7. Listed'
  <2>1. NoListing' = NoListing
    BY DEF NoListing
  <2>2. QED  BY <1>1, <1>2, <2>1 DEF ChartsInv, Listed
<1>8. Points'
  <2>1. Window = snapshot - PersistSecs /\ Window' = now - PersistSecs
    BY <1>1 DEF Window
  <2>2. ASSUME NEW p \in samples
        PROVE  /\ p.ts <= now' /\ \A ts \in p.of : ts <= p.ts
               /\ p.scope = "server" => p.ts < due'["machine"] /\ (p.ts = snapshot' => p.of = Since(history, Window)')
               /\ p.scope # "server" => p.ts < due'["projects"] /\ (listing' # NoListing => p.ts < listing'.ts)
               /\ (\A ts \in Range(Series(p.scope)') : ts <= p.ts) => Since(Series(p.scope)', Window') \subseteq p.of
    <3>1. p.ts \in Nat
      BY DEF ChartsInv, ChartsTypeOK, Point
    <3>2. /\ p.ts <= now /\ \A ts \in p.of : ts <= p.ts
          /\ p.scope = "server" => p.ts < due["machine"]
          /\ p.scope # "server" => p.ts < due["projects"] /\ (listing # NoListing => p.ts < listing.ts)
          /\ (\A ts \in Range(Series(p.scope)) : ts <= p.ts) => Since(Series(p.scope), Window) \subseteq p.of
      BY DEF ChartsInv, Points
    <3>3. CASE p.scope = "server"
      <4>1. p.ts < now /\ p.ts # snapshot'
        <5>1. due["machine"] \in Nat /\ p.ts < due["machine"]
          BY <1>0, <3>2, <3>3 DEF Timers
        <5>2. QED  BY <1>0, <1>1, <1>2, <3>1, <5>1
      <4>2. p.ts < due'["machine"]
        BY <1>0, <1>2, <3>1, <4>1
      <4>3. now \in Range(Series(p.scope)') /\ ~(now <= p.ts)
        BY <1>0, <1>3, <3>1, <3>3, <4>1 DEF Series
      <4>4. QED  BY <1>1, <3>2, <3>3, <4>1, <4>2, <4>3
    <3>4. CASE p.scope # "server"
      <4>1. Series(p.scope)' = Series(p.scope)
        BY <1>1, <3>4 DEF Series
      <4>2. Since(Series(p.scope), Window') \subseteq Since(Series(p.scope), Window)
        <5> DEFINE R == Range(Series(p.scope))
        <5>1. R \subseteq Nat
          <6>1. Series(p.scope) \in Seq(Nat)
            BY EmptySeq DEF Series, ChartsInv, ChartsTypeOK
          <6>2. QED  BY <6>1, RangeIn
        <5> HIDE DEF R
        <5>2. \A ts \in R : ts >= now - PersistSecs => ts >= snapshot - PersistSecs
          BY <1>0, <5>1
        <5>3. QED  BY <2>1, <5>2, SinceIs DEF R
      <4>3. QED  BY <1>1, <1>2, <3>2, <3>4, <4>1, <4>2
    <3>5. QED  BY <3>3, <3>4
  <2>3. NoListing' = NoListing
    BY DEF NoListing
  <2>4. ASSUME NEW p \in samples PROVE /\ Since(Series(p.scope), Window)' = Since(Series(p.scope)', Window')
    BY DEF Since
  <2>5. QED  BY <1>1, <2>2, <2>3, <2>4 DEF Points
<1>9. NoSampleIsLeftOut'
  <2>1. SUFFICES ASSUME punctual', NEW ts \in sampled', ts < lastPass', ts >= snapshot' - KeepSecs
                 PROVE  \E p \in samples' : p.scope = "server" /\ ts \in p.of
    BY <1>1 DEF NoSampleIsLeftOut
  <2>2. ts # now
    BY <1>0, <1>1, <2>1 DEF ChartsInv, Clocks
  <2>3. ts \in sampled /\ ts \in Nat
    BY <1>1, <2>2 DEF ChartsInv, ChartsTypeOK
  <2>4. ts >= snapshot - KeepSecs
    BY <1>0, <1>1, <2>1, <2>3
  <2>5. QED  BY <1>1, <2>1, <2>3, <2>4 DEF ChartsInv, NoSampleIsLeftOut
<1>10. Few'
  <2>1. \A scope, since : Times(scope, since)' = Times(scope, since)
    BY <1>1 DEF Times
  <2>2. QED  BY <1>1, <2>1 DEF ChartsInv, Few, FewIn, Scopes
<1>11. QED  BY <1>4, <1>5, <1>6, <1>7, <1>8, <1>9, <1>10 DEF ChartsInv

\* A listing merged.
LEMMA MergeStays == ASSUME ChartsInv, Merge PROVE ChartsInv'
<1>0. /\ now \in Nat /\ now # 0 /\ listing.ts \in Nat /\ listing.ts # 0 /\ listing.slugs \subseteq Slugs
      /\ listing.ts <= now /\ listing.ts < due["projects"] /\ due["projects"] \in Nat
  BY DEF ChartsInv, ChartsTypeOK, Listed, Merge, Timers
<1> DEFINE old(s) == IF s \in DOMAIN live THEN live[s] ELSE <<>>
<1>1. /\ listing # NoListing /\ listing' = NoListing
      /\ live' = [s \in listing.slugs |-> Pushed(old(s), listing.ts, ProjectCap)]
      /\ UNCHANGED <<now, due, history, snapshot, samples, sampled, lastPass, punctual, restarts>>
  BY DEF Merge
<1>2. NoListing' = NoListing /\ NoListing.ts = 0 /\ NoListing.slugs = {}
  BY DEF NoListing
<1>3. ASSUME NEW s PROVE old(s) \in Seq(Nat) /\ Len(old(s)) <= ProjectCap /\ \A ts \in Range(old(s)) : ts \in Nat /\ ts # 0 /\ ts < listing.ts
  <2>1. CASE s \in DOMAIN live
    <3>1. old(s) = live[s] /\ live[s] \in Seq(Nat)
      BY <2>1 DEF ChartsInv, ChartsTypeOK
    <3>2. Len(live[s]) <= ProjectCap /\ \A ts \in Range(live[s]) : ts # 0 /\ ts < listing.ts
      BY <1>1, <2>1 DEF ChartsInv, Listed
    <3>3. Range(live[s]) \subseteq Nat
      BY <3>1, RangeIn
    <3>4. QED  BY <3>1, <3>2, <3>3
  <2>2. CASE s \notin DOMAIN live
    <3>1. old(s) = <<>>
      BY <2>2
    <3>2. <<>> \in Seq(Nat) /\ Len(<<>>) = 0 /\ 0 <= ProjectCap
      BY ChartsConstants
    <3>3. QED  BY <3>1, <3>2, RangeOfNone
  <2>3. QED  BY <2>1, <2>2
<1> HIDE DEF old
<1>4. DOMAIN live' = listing.slugs
  BY <1>1
<1>5. ASSUME NEW s \in listing.slugs
      PROVE  /\ live'[s] \in Seq(Nat) /\ listing.ts \in Range(live'[s]) /\ Len(live'[s]) <= ProjectCap
             /\ \A ts \in Range(live'[s]) : ts # 0 /\ ts <= now /\ ts < due["projects"]
  <2> DEFINE p == Pushed(old(s), listing.ts, ProjectCap)
  <2>1. live'[s] = p
    BY <1>1
  <2>2. p \in Seq(Nat) /\ listing.ts \in Range(p) /\ Range(p) \subseteq Range(old(s)) \cup {listing.ts} /\ Len(p) <= ProjectCap
    <3>1. old(s) \in Seq(Nat) /\ Len(old(s)) <= ProjectCap
      BY <1>3
    <3>2. ProjectCap \in Nat /\ ProjectCap > 0 /\ listing.ts \in Nat
      BY <1>0, ChartsConstants
    <3>3. QED  BY <3>1, <3>2, PushedIs
  <2> HIDE DEF p
  <2>3. \A ts \in Range(p) : ts \in Nat /\ ts # 0 /\ ts <= listing.ts
    BY <1>0, <1>3, <2>2
  <2>4. \A ts \in Range(p) : ts # 0 /\ ts <= now /\ ts < due["projects"]
    BY <1>0, <2>3
  <2>5. QED  BY <2>1, <2>2, <2>4
<1>6. ChartsTypeOK'
  <2>1. Point' = Point
    BY DEF Point, Scopes
  <2>2. listing'.ts \in Nat /\ listing'.slugs \subseteq Slugs
    BY <1>1, <1>2
  <2>3. DOMAIN live' \subseteq Slugs /\ \A s \in DOMAIN live' : live'[s] \in Seq(Nat)
    BY <1>0, <1>4, <1>5
  <2>4. QED  BY <1>1, <2>1, <2>2, <2>3 DEF ChartsInv, ChartsTypeOK
<1>7. Clocks' /\ Ring' /\ NoSampleIsLeftOut'
  BY <1>1 DEF ChartsInv, Clocks, Ring, NoSampleIsLeftOut
<1>8. Listed'
  BY <1>1, <1>2, <1>4, <1>5 DEF Listed
<1>9. Points'
  <2>1. Window' = Window
    BY <1>1 DEF Window
  <2>2. ASSUME NEW p \in samples
        PROVE  (\A ts \in Range(Series(p.scope)') : ts <= p.ts) => Since(Series(p.scope)', Window) \subseteq p.of
    <3>0. p.ts \in Nat
      BY DEF ChartsInv, ChartsTypeOK, Point
    <3>1. CASE p.scope = "server"
      <4>1. Series(p.scope)' = Series(p.scope)
        BY <1>1, <3>1 DEF Series
      <4>2. QED  BY <4>1 DEF ChartsInv, Points
    <3>2. CASE p.scope # "server" /\ p.scope \in listing.slugs
      <4>1. Series(p.scope)' = live'[p.scope]
        BY <1>4, <3>2 DEF Series
      <4>2. listing.ts \in Range(Series(p.scope)')
        BY <1>5, <3>2, <4>1
      <4>3. p.ts < listing.ts
        BY <1>1, <3>2 DEF ChartsInv, Points
      <4>4. ~(listing.ts <= p.ts)
        BY <1>0, <3>0, <4>3
      <4>5. QED  BY <4>2, <4>4
    <3>3. CASE p.scope # "server" /\ p.scope \notin listing.slugs
      <4>1. Series(p.scope)' = <<>>
        BY <1>4, <3>3 DEF Series
      <4>2. Since(Series(p.scope)', Window) = {}
        BY <4>1, SinceIs, RangeOfNone
      <4>3. QED  BY <4>2
    <3>4. QED  BY <3>1, <3>2, <3>3
  <2>3. ASSUME NEW p \in samples PROVE Since(Series(p.scope), Window)' = Since(Series(p.scope)', Window)
    BY <2>1 DEF Since
  <2>4. Since(history, Window)' = Since(history, Window)
    BY <1>1, <2>1 DEF Since
  <2>5. QED  BY <1>1, <1>2, <2>1, <2>2, <2>3, <2>4 DEF ChartsInv, Points
<1>10. Few'
  <2>1. \A scope, since : Times(scope, since)' = Times(scope, since)
    BY <1>1 DEF Times
  <2>2. QED  BY <1>1, <2>1 DEF ChartsInv, Few, FewIn, Scopes
<1>11. QED  BY <1>6, <1>7, <1>8, <1>9, <1>10 DEF ChartsInv

\* The newest of some seconds.
LEMMA NewestIs ==
  ASSUME NEW S, IsFiniteSet(S), S # {}, S \subseteq Nat
  PROVE  Newest(S) \in S /\ \A ts \in S : ts <= Newest(S)
<1>1. Max(S) \in S /\ \A y \in S : Max(S) >= y
  <2>1. S \subseteq Int
    OBVIOUS
  <2>2. QED  BY <2>1, MaxIs
<1>2. \E ts \in S : \A other \in S : other <= ts
  BY <1>1
<1>3. QED  BY <1>2 DEF Newest

\* A row of the table by its key.
Key(p) == <<p.scope, p.ts>>
Average(scope) == [scope |-> scope, ts |-> Newest(Since(Series(scope), Window)), of |-> Since(Series(scope), Window)]

LEMMA SeriesAre ==
  ASSUME ChartsInv, NEW scope
  PROVE  /\ Series(scope) \in Seq(Nat) /\ Range(Series(scope)) \subseteq Nat
         /\ IsFiniteSet(Since(Series(scope), Window)) /\ Since(Series(scope), Window) \subseteq Nat
         /\ Since(Series(scope), Window) = {ts \in Range(Series(scope)) : ts >= Window}
<1>1. Series(scope) \in Seq(Nat)
  BY EmptySeq DEF Series, ChartsInv, ChartsTypeOK
<1>2. Range(Series(scope)) \subseteq Nat /\ IsFiniteSet(Range(Series(scope)))
  BY <1>1, RangeIn, RangeFinite
<1>3. Since(Series(scope), Window) = {ts \in Range(Series(scope)) : ts >= Window}
  BY SinceIs
<1>4. Since(Series(scope), Window) \subseteq Range(Series(scope))
  BY <1>3
<1>5. QED  BY <1>1, <1>2, <1>3, <1>4, FS_Subset

\* What one pass averages: of each scope with samples in the window, those.
LEMMA AveragesAre ==
  ASSUME ChartsInv
  PROVE  /\ \A p \in Averages(Window) :
              /\ p.scope \in Scopes /\ p = Average(p.scope) /\ p.of = Since(Series(p.scope), Window)
              /\ p.of # {} /\ p.of \subseteq Nat /\ p.ts \in p.of
              /\ p.ts \in Nat /\ \A ts \in Range(Series(p.scope)) : ts <= p.ts
         /\ \A scope \in Scopes : Since(Series(scope), Window) # {} => Average(scope) \in Averages(Window)
<1>1. Averages(Window) = {Average(scope) : scope \in {x \in Scopes : Since(Series(x), Window) # {}}}
  BY DEF Averages, Average
<1>2. ASSUME NEW scope \in Scopes, Since(Series(scope), Window) # {}
      PROVE  LET p == Average(scope)
             IN /\ p.scope = scope /\ p.of = Since(Series(scope), Window) /\ p.of \subseteq Nat /\ p.ts \in p.of
                /\ p.ts \in Nat /\ \A ts \in Range(Series(scope)) : ts <= p.ts
  <2> DEFINE W == Since(Series(scope), Window)
             R == Range(Series(scope))
  <2>1. W = {ts \in R : ts >= Window} /\ IsFiniteSet(W) /\ W \subseteq Nat /\ R \subseteq Nat /\ W # {}
    BY <1>2, SeriesAre
  <2>2. Average(scope).scope = scope /\ Average(scope).of = W /\ Average(scope).ts = Newest(W)
    BY DEF Average
  <2>3. Window \in Int
    BY ChartsConstants DEF Window, ChartsInv, ChartsTypeOK
  <2> HIDE DEF W, R
  <2>4. Newest(W) \in W /\ \A ts \in W : ts <= Newest(W)
    BY <2>1, NewestIs
  <2>5. \A ts \in R : ts <= Newest(W)
    <3>1. SUFFICES ASSUME NEW ts \in R, ts \notin W PROVE ts <= Newest(W)
      BY <2>4
    <3>2. ts \in Nat /\ ~(ts >= Window) /\ Newest(W) \in Nat /\ Newest(W) >= Window
      BY <2>1, <2>4, <3>1
    <3>3. QED  BY <2>3, <3>2
  <2>6. QED  BY <2>1, <2>2, <2>4, <2>5 DEF W, R
<1>3. ASSUME NEW p \in Averages(Window)
      PROVE  /\ p.scope \in Scopes /\ p = Average(p.scope) /\ p.of = Since(Series(p.scope), Window)
             /\ p.of # {} /\ p.of \subseteq Nat /\ p.ts \in p.of
             /\ p.ts \in Nat /\ \A ts \in Range(Series(p.scope)) : ts <= p.ts
  <2>1. PICK scope \in Scopes : Since(Series(scope), Window) # {} /\ p = Average(scope)
    BY <1>1
  <2>2. p.scope = scope
    BY <2>1 DEF Average
  <2>3. QED  BY <1>2, <2>1, <2>2
<1>4. ASSUME NEW scope \in Scopes, Since(Series(scope), Window) # {} PROVE Average(scope) \in Averages(Window)
  BY <1>1, <1>4
<1>5. QED  BY <1>3, <1>4

\* The machine's is of the newest sample there is.
LEMMA MachineIs ==
  ASSUME ChartsInv, snapshot # 0
  PROVE  Average("server") \in Averages(Window) /\ Average("server").ts = snapshot /\ Average("server").scope = "server"
         /\ Average("server").of = Since(history, Window)
         /\ \A p \in Averages(Window) : p.scope = "server" => p.ts = snapshot
<1>0. snapshot \in Nat /\ PersistSecs \in Nat /\ PersistSecs > 0
  BY ChartsConstants DEF ChartsInv, ChartsTypeOK
<1>1. snapshot \in Range(history) /\ \A ts \in Range(history) : ts \in Nat /\ ts <= snapshot
  BY RingHasTheDay DEF ChartsInv
<1>2. "server" \in Scopes /\ Series("server") = history
  BY DEF Scopes, Series
<1>3. snapshot >= Window
  BY <1>0 DEF Window
<1>4. snapshot \in Since(history, Window)
  BY <1>1, <1>3, SinceIs
<1>5. Average("server") \in Averages(Window)
  BY <1>2, <1>4, AveragesAre
<1>6. ASSUME NEW p \in Averages(Window), p.scope = "server" PROVE p.ts = snapshot
  <2>1. /\ p.of = Since(history, Window) /\ p.ts \in p.of /\ p.ts \in Nat
        /\ \A ts \in Range(history) : ts <= p.ts
    BY <1>2, <1>6, AveragesAre
  <2>2. snapshot <= p.ts
    BY <1>1, <2>1
  <2>3. p.ts \in Range(history)
    BY <2>1, SinceIs
  <2>4. p.ts <= snapshot
    BY <1>1, <2>3
  <2>5. QED  BY <1>0, <2>1, <2>2, <2>4
<1>7. Average("server").scope = "server" /\ Average("server").of = Since(history, Window)
  BY <1>2 DEF Average
<1>8. QED  BY <1>5, <1>6, <1>7

\* A pass writes the averages over rows of their keys, and prunes.
LEMMA PersistIs ==
  ASSUME ChartsInv, Persist, snapshot # 0
  PROVE  \A p : p \in samples' <=> /\ p.ts >= snapshot - KeepSecs
                                   /\ \/ p \in Averages(Window)
                                      \/ p \in samples /\ \A q \in Averages(Window) : Key(p) # Key(q)
BY DEF Persist, Pruned, Inserted, Key

\* A row whose key is averaged again has only samples of before.
LEMMA AgainIsLess ==
  ASSUME ChartsInv, snapshot # 0, NEW p \in samples, NEW q \in Averages(Window), Key(p) = Key(q)
  PROVE  q.scope = p.scope /\ q.ts = p.ts /\ q.of \subseteq p.of /\ (p.scope = "server" => q.of = p.of)
<1>1. q.scope = p.scope /\ q.ts = p.ts
  BY DEF Key
<1>2. q.of = Since(Series(p.scope), Window) /\ \A ts \in Range(Series(p.scope)) : ts <= p.ts
  BY <1>1, AveragesAre
<1>3. q.of \subseteq p.of
  BY <1>2 DEF ChartsInv, Points
<1>4. ASSUME p.scope = "server" PROVE q.of = p.of
  <2>1. p.ts = snapshot
    BY <1>1, <1>4, MachineIs
  <2>2. p.of = Since(history, Window)
    BY <1>4, <2>1 DEF ChartsInv, Points
  <2>3. Series(p.scope) = history
    BY <1>4 DEF Series
  <2>4. QED  BY <1>2, <2>2, <2>3
<1>5. QED  BY <1>1, <1>3, <1>4

\* What a pass leaves of each point, and what it adds.
LEMMA PersistPoints == ASSUME ChartsInv, Persist PROVE samples' \subseteq Point /\ Points'
<1>0. /\ now \in Nat /\ now # 0 /\ snapshot \in Nat /\ snapshot <= now /\ KeepSecs \in Nat
      /\ UNCHANGED <<now, history, snapshot, live, listing, sampled, restarts>>
  BY ChartsConstants DEF ChartsInv, ChartsTypeOK, Clocks, Persist
<1>1. due' \in [Timers -> Nat] /\ due'["machine"] = due["machine"] /\ due'["projects"] = due["projects"]
  <2>1. Fires("persist", PersistSecs) /\ PersistSecs \in Nat /\ "persist" \in Timers /\ "machine" \in Timers /\ "projects" \in Timers
    BY ChartsConstants DEF Persist, Timers
  <2>2. QED  BY <2>1, FiresIs DEF ChartsInv
<1>2. NoListing' = NoListing /\ Window' = Window /\ \A x : Series(x)' = Series(x)
  BY <1>0 DEF NoListing, Window, Series
<1>3. ASSUME NEW p \in samples
      PROVE  /\ p \in Point /\ p.ts <= now /\ \A ts \in p.of : ts <= p.ts
             /\ p.scope = "server" => p.ts < due["machine"] /\ (p.ts = snapshot => p.of = Since(history, Window))
             /\ p.scope # "server" => p.ts < due["projects"] /\ (listing # NoListing => p.ts < listing.ts)
             /\ (\A ts \in Range(Series(p.scope)) : ts <= p.ts) => Since(Series(p.scope), Window) \subseteq p.of
  BY DEF ChartsInv, ChartsTypeOK, Points
<1>4. ASSUME NEW p \in Averages(Window), snapshot # 0
      PROVE  /\ p \in Point /\ p.ts <= now /\ \A ts \in p.of : ts <= p.ts
             /\ p.scope = "server" => p.ts < due["machine"] /\ (p.ts = snapshot => p.of = Since(history, Window))
             /\ p.scope # "server" => p.ts < due["projects"] /\ (listing # NoListing => p.ts < listing.ts)
             /\ (\A ts \in Range(Series(p.scope)) : ts <= p.ts) => Since(Series(p.scope), Window) \subseteq p.of
  <2>1. /\ p.scope \in Scopes /\ p = Average(p.scope) /\ p.of = Since(Series(p.scope), Window)
        /\ p.of # {} /\ p.of \subseteq Nat /\ p.ts \in p.of
        /\ p.ts \in Nat /\ \A ts \in Range(Series(p.scope)) : ts <= p.ts
    BY AveragesAre
  <2>2. p.of \subseteq Range(Series(p.scope)) /\ p.ts \in Range(Series(p.scope))
    BY <2>1, SinceIs
  <2>3. CASE p.scope = "server"
    <3>1. p.ts = snapshot /\ Series(p.scope) = history
      BY <1>4, <2>3, MachineIs DEF Series
    <3>2. snapshot < due["machine"]
      <4>1. snapshot + SampleSecs <= due["machine"] /\ due["machine"] \in Nat
        BY <1>4 DEF ChartsInv, Clocks, ChartsTypeOK, Timers
      <4>2. QED  BY <1>0, <4>1, ChartsConstants
    <3>3. p \in Point
      BY <1>4, <2>1, <3>1 DEF Point, Average
    <3>4. QED  BY <1>0, <2>1, <2>2, <2>3, <3>1, <3>2, <3>3
  <2>4. CASE p.scope # "server"
    <3>1. p.scope \in DOMAIN live /\ Series(p.scope) = live[p.scope]
      <4>1. p.scope \notin DOMAIN live => Series(p.scope) = <<>>
        BY <2>4 DEF Series
      <4>2. p.scope \in DOMAIN live
        BY <2>2, <4>1, RangeOfNone
      <4>3. QED  BY <2>4, <4>2 DEF Series
    <3>2. p.ts # 0 /\ p.ts <= now /\ p.ts < due["projects"] /\ (listing # NoListing => p.ts < listing.ts)
      BY <2>2, <3>1 DEF ChartsInv, Listed
    <3>3. p \in Point
      BY <2>1, <3>2 DEF Point, Average
    <3>4. QED  BY <2>1, <2>2, <2>4, <3>2, <3>3
  <2>5. QED  BY <2>3, <2>4
<1>5. ASSUME NEW p \in samples'
      PROVE  /\ p \in Point /\ p.ts <= now /\ \A ts \in p.of : ts <= p.ts
             /\ p.scope = "server" => p.ts < due["machine"] /\ (p.ts = snapshot => p.of = Since(history, Window))
             /\ p.scope # "server" => p.ts < due["projects"] /\ (listing # NoListing => p.ts < listing.ts)
             /\ (\A ts \in Range(Series(p.scope)) : ts <= p.ts) => Since(Series(p.scope), Window) \subseteq p.of
  <2>1. CASE snapshot = 0
    <3>1. p \in samples
      BY <2>1 DEF Persist
    <3>2. QED  BY <1>3, <3>1
  <2>2. CASE snapshot # 0
    <3>1. p \in Averages(Window) \/ p \in samples
      BY <2>2, PersistIs
    <3>2. QED  BY <1>3, <1>4, <2>2, <3>1
  <2>3. QED  BY <2>1, <2>2
<1>6. samples' \subseteq Point
  BY <1>5
<1>7. Since(history, Window)' = Since(history, Window) /\ \A x : Since(Series(x), Window)' = Since(Series(x), Window)
  BY <1>0, <1>2 DEF Since
<1>8. Points'
  BY <1>0, <1>1, <1>2, <1>5, <1>7 DEF Points
<1>9. QED  BY <1>6, <1>8

\* No sample falls between two passes that are on time.
LEMMA PersistCovers == ASSUME ChartsInv, Persist PROVE NoSampleIsLeftOut'
<1>0. /\ now \in Nat /\ now # 0 /\ snapshot \in Nat /\ snapshot <= now /\ KeepSecs \in Nat /\ PersistSecs \in Nat
      /\ lastPass \in Nat /\ Day \in Nat /\ Day >= PersistSecs + SampleSecs /\ SampleSecs \in Nat /\ SampleSecs > 0
      /\ UNCHANGED <<now, history, snapshot, live, listing, sampled, restarts>>
      /\ punctual' = (punctual /\ now - lastPass <= PersistSecs) /\ lastPass' = now
  BY ChartsConstants DEF ChartsInv, ChartsTypeOK, Clocks, Persist
<1>1. SUFFICES ASSUME punctual', NEW ts \in sampled, ts < now, ts >= snapshot - KeepSecs
               PROVE  \E p \in samples' : p.scope = "server" /\ ts \in p.of
  BY <1>0 DEF NoSampleIsLeftOut
<1>2. punctual /\ now - lastPass <= PersistSecs
  BY <1>0, <1>1
<1>3. ts \in Nat /\ ts <= snapshot /\ (ts > snapshot - Day => ts \in Range(history))
  BY RingHasTheDay DEF ChartsInv
<1>4. snapshot # 0
  BY DEF ChartsInv, Ring
<1>5. CASE ts >= Window
  <2>1. ts > snapshot - Day
    BY <1>0, <1>3, <1>5 DEF Window
  <2>2. ts \in Since(history, Window)
    BY <1>3, <1>5, <2>1, SinceIs
  <2> DEFINE p == Average("server")
  <2>3. p \in Averages(Window) /\ p.ts = snapshot /\ p.scope = "server" /\ p.of = Since(history, Window)
    BY <1>4, MachineIs
  <2> HIDE DEF p
  <2>4. p.ts >= snapshot - KeepSecs
    BY <1>0, <2>3
  <2>5. p \in samples'
    BY <1>4, <2>3, <2>4, PersistIs
  <2>6. QED  BY <2>2, <2>3, <2>5
<1>6. CASE ~(ts >= Window)
  <2>1. ts < lastPass
    BY <1>0, <1>2, <1>3, <1>6 DEF Window
  <2>2. PICK p \in samples : p.scope = "server" /\ ts \in p.of
    BY <1>1, <1>2, <2>1 DEF ChartsInv, NoSampleIsLeftOut
  <2>3. p.ts \in Nat /\ ts <= p.ts
    BY <2>2 DEF ChartsInv, ChartsTypeOK, Point, Points
  <2>4. p.ts >= snapshot - KeepSecs
    BY <1>0, <1>1, <1>3, <2>3
  <2>5. CASE \A q \in Averages(Window) : Key(p) # Key(q)
    <3>1. p \in samples'
      BY <1>4, <2>4, <2>5, PersistIs
    <3>2. QED  BY <2>2, <3>1
  <2>6. CASE ~(\A q \in Averages(Window) : Key(p) # Key(q))
    <3>1. PICK q \in Averages(Window) : Key(p) = Key(q)
      BY <2>6
    <3>2. q.scope = p.scope /\ q.ts = p.ts /\ q.of = p.of
      BY <1>4, <2>2, <3>1, AgainIsLess
    <3>3. q \in samples'
      BY <1>4, <2>4, <3>2, PersistIs
    <3>4. QED  BY <2>2, <3>2, <3>3
  <2>7. QED  BY <2>5, <2>6
<1>7. QED  BY <1>5, <1>6

\* A pass adds one point to a scope, a period after the pass before.
LEMMA PersistAddsOne == ASSUME ChartsInv, Persist PROVE Few'
<1>0. /\ now \in Nat /\ lastPass \in Nat /\ PersistSecs \in Nat /\ PersistSecs > 0
      /\ lastPass' = now /\ snapshot \in Nat
  BY ChartsConstants DEF ChartsInv, ChartsTypeOK, Persist
<1>1. lastPass + PersistSecs <= now
  <2>1. Fires("persist", PersistSecs) /\ due["persist"] = lastPass + PersistSecs /\ due["persist"] \in Nat
    BY DEF Persist, ChartsInv, Clocks, ChartsTypeOK, Timers
  <2>2. QED  BY <1>0, <2>1 DEF Fires
<1>2. Scopes' = Scopes
  BY DEF Scopes
<1>3. ASSUME NEW scope \in Scopes, NEW since \in Int PROVE FewIn(scope, since)'
  <2> DEFINE T == Times(scope, since)
             U == Times(scope, since)'
  <2>1. IsFiniteSet(T) /\ (T # {} => (Cardinality(T) - 1) * PersistSecs + since <= lastPass)
    BY DEF ChartsInv, Few, FewIn
  <2>2. \E ts : U \subseteq T \cup {ts} /\ (U \subseteq T \/ (ts \in U /\ ts \in Int /\ since <= ts /\ ts <= now))
    <3>1. CASE snapshot = 0
      <4>1. samples' = samples
        BY <3>1 DEF Persist
      <4>2. U = T
        BY <4>1 DEF Times
      <4>3. QED  BY <4>2
    <3>2. CASE snapshot # 0
      <4> DEFINE ts == Average(scope).ts
      <4>1. ASSUME NEW u \in U
            PROVE  u \in T \/ (u = ts /\ u \in Int /\ since <= u /\ u <= now)
        <5>1. PICK p \in samples' : p.scope = scope /\ p.ts >= since /\ u = p.ts
          BY <4>1 DEF Times
        <5>2. CASE p \in samples
          BY <5>1, <5>2 DEF Times
        <5>3. CASE p \in Averages(Window)
          <6>1. p = Average(scope) /\ p.ts \in Nat
            BY <5>1, <5>3, AveragesAre
          <6>2. p.ts <= now'
            BY PersistPoints DEF Points
          <6>3. now' = now
            BY DEF Persist
          <6>4. QED  BY <5>1, <6>1, <6>2, <6>3
        <5>4. QED  BY <3>2, <5>1, <5>2, <5>3, PersistIs
      <4> HIDE DEF T, U, ts
      <4>2. CASE ts \in T
        BY <4>1, <4>2
      <4>3. CASE ts \notin T /\ ts \in U
        BY <4>1, <4>3
      <4>4. CASE ts \notin U
        BY <4>1, <4>4
      <4>5. QED  BY <4>2, <4>3, <4>4
    <3>3. QED  BY <3>1, <3>2
  <2>3. PICK ts : U \subseteq T \cup {ts} /\ (U \subseteq T \/ (ts \in U /\ ts \in Int /\ since <= ts /\ ts <= now))
    BY <2>2
  <2> HIDE DEF T, U
  <2>4. IsFiniteSet(T \cup {ts}) /\ Cardinality(T) \in Nat
    BY <2>1, FS_AddElement, FS_CardinalityType
  <2>5. IsFiniteSet(U) /\ Cardinality(U) \in Nat
    BY <2>3, <2>4, FS_Subset, FS_CardinalityType
  <2>6. ASSUME U # {} PROVE (Cardinality(U) - 1) * PersistSecs + since <= now
    <3>1. CASE U \subseteq T
      <4>1. Cardinality(U) <= Cardinality(T) /\ T # {}
        BY <2>1, <2>6, <3>1, FS_Subset
      <4>2. PICK c \in Nat, d \in Nat : c = Cardinality(U) /\ d = Cardinality(T)
        BY <2>4, <2>5
      <4>3. (d - 1) * PersistSecs + since <= lastPass /\ c <= d
        BY <2>1, <4>1, <4>2
      <4>4. (c - 1) * PersistSecs <= (d - 1) * PersistSecs
        <5>1. PICK e \in Nat : d = c + e
          <6>1. d - c \in Nat /\ d = c + (d - c)
            BY <4>3
          <6>2. QED  BY <6>1
        <5>2. (d - 1) * PersistSecs = (c - 1) * PersistSecs + e * PersistSecs /\ e * PersistSecs \in Nat
          BY <1>0, <5>1
        <5>3. (c - 1) * PersistSecs \in Int
          BY <1>0
        <5>4. QED  BY <5>2, <5>3
      <4>5. (c - 1) * PersistSecs \in Int /\ (d - 1) * PersistSecs \in Int
        BY <1>0
      <4>6. (c - 1) * PersistSecs + since <= now
        BY <1>0, <1>1, <4>3, <4>4, <4>5
      <4>7. QED  BY <4>2, <4>6
    <3>2. CASE ~(U \subseteq T) /\ T = {}
      <4>1. U = {ts}
        BY <2>3, <2>6, <3>2
      <4>2. Cardinality(U) = 1
        BY <4>1, FS_Singleton
      <4>3. (1 - 1) * PersistSecs + since <= now
        BY <1>0, <2>3, <3>2
      <4>4. QED  BY <4>2, <4>3
    <3>3. CASE ~(U \subseteq T) /\ T # {}
      <4>1. Cardinality(U) <= Cardinality(T \cup {ts})
        BY <2>3, <2>4, FS_Subset
      <4>2. Cardinality(T \cup {ts}) <= Cardinality(T) + 1 /\ Cardinality(T \cup {ts}) \in Nat
        <5>1. ts \notin T
          BY <2>3, <3>3
        <5>2. Cardinality(T \cup {ts}) = Cardinality(T) + 1
          BY <2>1, <5>1, FS_AddElement
        <5>3. QED  BY <2>4, <5>2
      <4>3. PICK c \in Nat, d \in Nat : c = Cardinality(U) /\ d = Cardinality(T)
        BY <2>4, <2>5
      <4>4. (d - 1) * PersistSecs + since <= lastPass /\ c <= d + 1
        BY <2>1, <3>3, <4>1, <4>2, <4>3
      <4>5. (c - 1) * PersistSecs <= (d - 1) * PersistSecs + PersistSecs
        <5>1. PICK e \in Nat : d + 1 = c + e
          <6>1. (d + 1) - c \in Nat /\ d + 1 = c + ((d + 1) - c)
            BY <4>4
          <6>2. QED  BY <6>1
        <5>2. d * PersistSecs = (c - 1) * PersistSecs + e * PersistSecs /\ e * PersistSecs \in Nat
          <6>1. d = (c - 1) + e
            BY <5>1
          <6>2. QED  BY <1>0, <6>1
        <5>3. (c - 1) * PersistSecs \in Int /\ d * PersistSecs = (d - 1) * PersistSecs + PersistSecs
          BY <1>0
        <5>4. QED  BY <5>2, <5>3
      <4>6. (c - 1) * PersistSecs \in Int /\ (d - 1) * PersistSecs \in Int
        BY <1>0
      <4>7. (c - 1) * PersistSecs + since <= now
        BY <1>0, <1>1, <4>4, <4>5, <4>6
      <4>8. QED  BY <4>3, <4>7
    <3>4. QED  BY <3>1, <3>2, <3>3
  <2>7. QED  BY <1>0, <2>5, <2>6 DEF FewIn, U
<1>4. QED  BY <1>2, <1>3 DEF Few

\* A pass over the week.
LEMMA PersistStays == ASSUME ChartsInv, Persist PROVE ChartsInv'
<1>0. /\ now \in Nat /\ now # 0 /\ snapshot \in Nat /\ snapshot <= now /\ lastPass \in Nat
      /\ UNCHANGED <<now, history, snapshot, live, listing, sampled, restarts>>
      /\ punctual' = (punctual /\ now - lastPass <= PersistSecs) /\ lastPass' = now
  BY DEF ChartsInv, ChartsTypeOK, Clocks, Persist
<1>1. /\ due' \in [Timers -> Nat] /\ due'["machine"] = due["machine"] /\ due'["projects"] = due["projects"]
      /\ due'["persist"] = now + PersistSecs
  <2>1. Fires("persist", PersistSecs) /\ PersistSecs \in Nat /\ "persist" \in Timers /\ "machine" \in Timers /\ "projects" \in Timers
    BY ChartsConstants DEF Persist, Timers
  <2>2. QED  BY <2>1, FiresIs DEF ChartsInv
<1>2. samples' \subseteq Point /\ Points' /\ NoSampleIsLeftOut' /\ Few'
  BY PersistPoints, PersistCovers, PersistAddsOne
<1>3. NoListing' = NoListing /\ Point' = Point
  BY DEF NoListing, Point, Scopes
<1>4. ChartsTypeOK'
  <2>1. punctual' \in BOOLEAN
    BY <1>0
  <2>2. QED  BY <1>0, <1>1, <1>2, <1>3, <2>1 DEF ChartsInv, ChartsTypeOK
<1>5. Clocks'
  BY <1>0, <1>1 DEF ChartsInv, Clocks
<1>6. Ring'
  BY <1>0 DEF ChartsInv, Ring
<1>7. Listed'
  BY <1>0, <1>1, <1>3 DEF ChartsInv, Listed
<1>8. QED  BY <1>2, <1>4, <1>5, <1>6, <1>7 DEF ChartsInv

\* What is in memory of a webo that begins.
LEMMA Begun ==
  ASSUME history = <<>>, snapshot = 0, live = [s \in {} |-> <<>>], listing = NoListing, sampled = {}
  PROVE  /\ Ring /\ Listed /\ NoSampleIsLeftOut /\ history \in Seq(Nat)
         /\ DOMAIN live = {} /\ listing.ts = 0 /\ listing.slugs = {}
         /\ \A scope : Range(Series(scope)) = {}
<1>1. DOMAIN live = {}
  OBVIOUS
<1>2. history \in Seq(Nat) /\ Len(history) = 0 /\ DOMAIN history = {} /\ Range(history) = {}
  BY EmptySeq, RangeOfNone
<1>3. Ring
  BY <1>2, ChartsConstants DEF Ring
<1>4. Listed
  BY <1>1 DEF Listed
<1>5. NoSampleIsLeftOut
  BY DEF NoSampleIsLeftOut
<1>6. \A scope : Range(Series(scope)) = {}
  BY <1>1, RangeOfNone DEF Series
<1>7. QED  BY <1>1, <1>2, <1>3, <1>4, <1>5, <1>6 DEF NoListing

LEMMA NextWeboStays == ASSUME ChartsInv, WeboRestarts PROVE ChartsInv'
<1>0. /\ now \in Nat /\ now # 0 /\ lastPass \in Nat /\ lastPass <= now /\ now' = now + 1 /\ now' \in Nat /\ samples' = samples
      /\ PersistSecs \in Nat
  BY ChartsConstants DEF ChartsInv, ChartsTypeOK, Clocks, WeboRestarts
<1>1. /\ due' = [timer \in Timers |-> IF timer = "persist" THEN now' + PersistSecs ELSE now']
      /\ history' = <<>> /\ snapshot' = 0 /\ live' = [s \in {} |-> <<>>] /\ listing' = NoListing
      /\ sampled' = {} /\ lastPass' = now' /\ punctual' = TRUE
  BY DEF WeboRestarts
<1>2. NoListing' = NoListing /\ Point' = Point
  BY DEF NoListing, Point, Scopes
<1>3. due' \in [Timers -> Nat] /\ due'["machine"] = now' /\ due'["projects"] = now' /\ due'["persist"] = now' + PersistSecs
  <2>1. now' + PersistSecs \in Nat /\ "machine" \in Timers /\ "projects" \in Timers /\ "persist" \in Timers
    BY <1>0 DEF Timers
  <2>2. QED  BY <1>0, <1>1, <2>1
<1>4. /\ Ring' /\ Listed' /\ NoSampleIsLeftOut' /\ history' \in Seq(Nat)
      /\ DOMAIN live' = {} /\ listing'.ts = 0 /\ listing'.slugs = {}
      /\ \A scope : Range(Series(scope)') = {}
  <2>1. DOMAIN live' = {}
    BY <1>1
  <2>2. history' \in Seq(Nat) /\ Len(history') = 0 /\ DOMAIN history' = {} /\ Range(history') = {}
    BY <1>1, EmptySeq, RangeOfNone
  <2>3. Ring'
    BY <1>1, <2>2, ChartsConstants DEF Ring
  <2>4. Listed'
    BY <1>1, <1>2, <2>1 DEF Listed
  <2>5. NoSampleIsLeftOut'
    BY <1>1 DEF NoSampleIsLeftOut
  <2>6. \A scope : Range(Series(scope)') = {}
    BY <1>1, <2>1, RangeOfNone DEF Series
  <2>7. QED  BY <1>1, <2>1, <2>2, <2>3, <2>4, <2>5, <2>6 DEF NoListing
<1>5. ChartsTypeOK'
  BY <1>0, <1>1, <1>2, <1>3, <1>4 DEF ChartsInv, ChartsTypeOK
<1>6. Clocks'
  BY <1>0, <1>1, <1>3 DEF Clocks
<1>7. Points'
  <2>1. ASSUME NEW p \in samples
        PROVE  /\ p.ts <= now' /\ \A ts \in p.of : ts <= p.ts
               /\ p.ts < now' /\ p.ts # 0 /\ \A x : Since(Series(p.scope)', x) = {}
    <3>1. p.ts \in Nat /\ p.ts # 0
      BY DEF ChartsInv, ChartsTypeOK, Point
    <3>2. p.ts <= now /\ \A ts \in p.of : ts <= p.ts
      BY DEF ChartsInv, Points
    <3>3. \A x : Since(Series(p.scope)', x) = {}
      BY <1>4, SinceIs
    <3>4. QED  BY <1>0, <3>1, <3>2, <3>3
  <2>2. ASSUME NEW p \in samples PROVE Since(Series(p.scope), Window)' = {}
    BY <2>1 DEF Since
  <2>3. QED  BY <1>0, <1>1, <1>2, <1>3, <2>1, <2>2 DEF Points
<1>8. Few'
  <2>1. \A scope, since : Times(scope, since)' = Times(scope, since)
    BY <1>0 DEF Times
  <2>2. ASSUME NEW scope \in Scopes, NEW since \in Int PROVE FewIn(scope, since)'
    <3>1. FewIn(scope, since)
      BY DEF ChartsInv, Few
    <3>2. IsFiniteSet(Times(scope, since)) /\ Cardinality(Times(scope, since)) \in Nat
      BY <3>1, FS_CardinalityType DEF FewIn
    <3>3. PICK c \in Nat : c = Cardinality(Times(scope, since))
      BY <3>2
    <3>4. (c - 1) * PersistSecs \in Int
      BY <1>0
    <3>5. Times(scope, since) # {} => (c - 1) * PersistSecs + since <= lastPass'
      BY <1>0, <1>1, <3>1, <3>3, <3>4 DEF FewIn
    <3>6. QED  BY <2>1, <3>2, <3>3, <3>5 DEF FewIn
  <2>3. QED  BY <2>2 DEF Few, Scopes
<1>9. QED  BY <1>4, <1>5, <1>6, <1>7, <1>8 DEF ChartsInv

LEMMA ChartsBegin == ChartsInit => ChartsInv
<1> SUFFICES ASSUME ChartsInit PROVE ChartsInv
  OBVIOUS
<1>1. /\ now = 1 /\ due = [timer \in Timers |-> IF timer = "persist" THEN now + PersistSecs ELSE now]
      /\ history = <<>> /\ snapshot = 0 /\ live = [s \in {} |-> <<>>] /\ listing = NoListing
      /\ samples = {} /\ sampled = {} /\ lastPass = now /\ punctual = TRUE
  BY DEF ChartsInit
<1>2. due \in [Timers -> Nat] /\ due["machine"] = 1 /\ due["projects"] = 1 /\ due["persist"] = 1 + PersistSecs
  <2>1. 1 + PersistSecs \in Nat /\ "machine" \in Timers /\ "projects" \in Timers /\ "persist" \in Timers
    BY ChartsConstants DEF Timers
  <2>2. QED  BY <1>1, <2>1
<1>3. /\ Ring /\ Listed /\ NoSampleIsLeftOut /\ history \in Seq(Nat)
      /\ DOMAIN live = {} /\ listing.ts = 0 /\ listing.slugs = {}
  BY <1>1, Begun
<1>4. ChartsTypeOK
  BY <1>1, <1>2, <1>3 DEF ChartsTypeOK
<1>5. Clocks
  BY <1>1, <1>2 DEF Clocks
<1>6. Points
  BY <1>1 DEF Points
<1>7. Few
  <2>1. \A scope, since : Times(scope, since) = {}
    BY <1>1 DEF Times
  <2>2. QED  BY <2>1, FS_EmptySet DEF Few, FewIn
<1>8. QED  BY <1>3, <1>4, <1>5, <1>6, <1>7 DEF ChartsInv

\* The timer of a listing, and a second.
LEMMA ListingStays == ASSUME ChartsInv, ListingFails \/ List PROVE ChartsInv'
<1>0. /\ now \in Nat /\ now # 0 /\ due \in [Timers -> Nat] /\ SampleSecs \in Nat /\ SampleSecs > 0
      /\ UNCHANGED <<now, history, snapshot, live, samples, sampled, lastPass, punctual, restarts>>
      /\ Fires("projects", SampleSecs)
      /\ listing' = listing \/ \E slugs \in SUBSET Slugs : listing' = [ts |-> now, slugs |-> slugs]
  BY ChartsConstants DEF ChartsInv, ChartsTypeOK, ListingFails, List
<1>1. /\ due' \in [Timers -> Nat] /\ due'["machine"] = due["machine"] /\ due'["persist"] = due["persist"]
      /\ due["projects"] <= now /\ due'["projects"] = now + SampleSecs /\ due["projects"] \in Nat /\ due["machine"] \in Nat
  <2>1. "persist" \in Timers /\ "machine" \in Timers /\ "projects" \in Timers /\ ChartsTypeOK
    BY DEF Timers, ChartsInv
  <2>2. QED  BY <1>0, <2>1, FiresIs
<1>2. listing'.ts \in Nat /\ listing'.slugs \subseteq Slugs /\ (listing' = listing \/ listing'.ts = now)
  BY <1>0 DEF ChartsInv, ChartsTypeOK
<1>3. Point' = Point
  BY DEF Point, Scopes
<1>4. ChartsTypeOK'
  BY <1>0, <1>1, <1>2, <1>3 DEF ChartsInv, ChartsTypeOK
<1>5. Clocks'
  BY <1>0, <1>1 DEF ChartsInv, Clocks
<1>6. due["projects"] <= due'["projects"] /\ now < due'["projects"] /\ due["machine"] <= due'["machine"] /\ now <= now'
  BY <1>0, <1>1
<1>7. QED  BY <1>0, <1>1, <1>2, <1>4, <1>5, <1>6, TimePasses

LEMMA TickStays == ASSUME ChartsInv, Tick \/ UNCHANGED chartsVars PROVE ChartsInv'
<1>1. /\ now \in Nat /\ now # 0 /\ due \in [Timers -> Nat] /\ snapshot \in Nat /\ lastPass \in Nat /\ snapshot <= now /\ lastPass <= now
      /\ UNCHANGED <<due, history, snapshot, live, listing, samples, sampled, lastPass, punctual>>
      /\ now' = now \/ now' = now + 1
  BY DEF ChartsInv, ChartsTypeOK, Clocks, Tick, chartsVars
<1>2. now' \in Nat /\ now' # 0 /\ now <= now' /\ due["machine"] <= due'["machine"] /\ due["projects"] <= due'["projects"]
  BY <1>1 DEF Timers
<1>3. Point' = Point
  BY DEF Point, Scopes
<1>4. ChartsTypeOK'
  BY <1>1, <1>2, <1>3 DEF ChartsInv, ChartsTypeOK
<1>5. Clocks'
  BY <1>1, <1>2 DEF ChartsInv, Clocks
<1>6. QED  BY <1>1, <1>2, <1>4, <1>5, TimePasses

LEMMA ChartsStep == ChartsInv /\ [ChartsNext]_chartsVars => ChartsInv'
BY SampleStays, ListingStays, MergeStays, PersistStays, TickStays, NextWeboStays DEF ChartsNext

LEMMA ChartsInvariance == ChartsSpec => []ChartsInv
BY ChartsBegin, ChartsStep, PTL DEF ChartsSpec

\* The charts of memory and table, from the invariant.
LEMMA WholeCharts == ASSUME ChartsInv PROVE ChartsAreWhole
<1>0. /\ now \in Nat /\ snapshot \in Nat /\ lastPass \in Nat /\ lastPass <= now /\ KeepSecs \in Nat /\ PersistSecs \in Nat \ {0}
      /\ Day \in Nat /\ Limit \in Nat /\ Limit > KeepSecs \div PersistSecs
  BY ChartsConstants, ChartsAssumption DEF ChartsInv, ChartsTypeOK, Clocks
<1>1. ASSUME NEW ts \in sampled, ts > snapshot - Day PROVE ts \in LiveChart(Day)
  <2>1. ts \in Nat /\ ts \in Range(history)
    BY <1>1, RingHasTheDay DEF ChartsInv
  <2>2. ts >= snapshot - Day
    BY <1>0, <1>1, <2>1
  <2>3. QED  BY <2>1, <2>2, SinceIs DEF LiveChart
<1>2. ASSUME NEW p \in samples, p.ts >= now - KeepSecs PROVE p.ts \in StoredChart(p.scope, now - KeepSecs)
  <2> DEFINE since == now - KeepSecs
             T == Times(p.scope, since)
             earlier == {other \in T : other < p.ts}
  <2>1. p.scope \in Scopes /\ since \in Int /\ p.ts \in Nat /\ p.ts \in T
    BY <1>0, <1>2 DEF ChartsInv, ChartsTypeOK, Point, Times
  <2>2. IsFiniteSet(T) /\ (Cardinality(T) - 1) * PersistSecs + since <= lastPass
    BY <2>1 DEF ChartsInv, Few, FewIn
  <2>3. StoredChart(p.scope, since) = {ts \in T : Cardinality({other \in T : other < ts}) < Limit}
    BY DEF StoredChart, Times
  <2>4. earlier \subseteq T \ {p.ts}
    BY <2>1
  <2> HIDE DEF T, earlier
  <2>5. IsFiniteSet(T \ {p.ts}) /\ Cardinality(T \ {p.ts}) = Cardinality(T) - 1 /\ Cardinality(T \ {p.ts}) \in Nat
    BY <2>1, <2>2, OneLess
  <2>6. Cardinality(earlier) <= Cardinality(T \ {p.ts}) /\ Cardinality(earlier) \in Nat
    BY <2>4, <2>5, FS_Subset, FS_CardinalityType
  <2>7. PICK d \in Nat : d = Cardinality(T \ {p.ts}) /\ d = Cardinality(T) - 1
    BY <2>5
  <2>8. d * PersistSecs <= KeepSecs
    <3>1. d * PersistSecs + since <= lastPass /\ d * PersistSecs \in Nat
      BY <1>0, <2>2, <2>7
    <3>2. QED  BY <1>0, <3>1
  <2>9. d < Limit
    <3> DEFINE k == KeepSecs \div PersistSecs
    <3>1. k \in Nat /\ KeepSecs < PersistSecs * k + PersistSecs
      BY <1>0
    <3>2. k < Limit
      BY <1>0
    <3> HIDE DEF k
    <3>3. CASE d <= k
      BY <1>0, <3>1, <3>2, <3>3
    <3>4. CASE d > k
      <4>1. PICK e \in Nat : d = k + 1 + e
        <5>1. d - (k + 1) \in Nat /\ d = k + 1 + (d - (k + 1))
          BY <3>1, <3>4
        <5>2. QED  BY <5>1
      <4>2. d * PersistSecs = PersistSecs * k + PersistSecs + e * PersistSecs /\ e * PersistSecs \in Nat
        BY <1>0, <3>1, <4>1
      <4>3. PersistSecs * k \in Nat
        BY <1>0, <3>1
      <4>4. QED  BY <1>0, <2>8, <3>1, <4>2, <4>3
    <3>5. QED  BY <3>1, <3>3, <3>4
  <2>10. Cardinality(earlier) < Limit
    BY <1>0, <2>6, <2>7, <2>9
  <2>11. QED  BY <2>1, <2>3, <2>10 DEF earlier
<1>3. NoSampleIsLeftOut
  BY DEF ChartsInv
<1>4. QED  BY <1>1, <1>2, <1>3 DEF ChartsAreWhole, DayIsShown

LEMMA PointsKept == ASSUME ChartsInv, [ChartsNext]_chartsVars PROVE [KeepsPoints]_chartsVars
<1>1. CASE samples' = samples
  <2>1. KeepsPoints
    <3>1. ASSUME NEW p \in samples PROVE \E q \in samples' : /\ <<q.scope, q.ts>> = <<p.scope, p.ts>>
                                                              /\ IF p.scope = "server" THEN q.of = p.of ELSE q.of \subseteq p.of
      BY <1>1
    <3>2. QED  BY <3>1 DEF KeepsPoints
  <2>2. QED  BY <2>1
<1>2. CASE samples' # samples
  <2>1. Persist
    BY <1>2 DEF ChartsNext, Sample, ListingFails, List, Merge, Tick, WeboRestarts, chartsVars
  <2>2. snapshot # 0
    BY <1>2, <2>1 DEF Persist
  <2>3. now \in Nat /\ snapshot \in Nat /\ snapshot <= now /\ KeepSecs \in Nat
    BY ChartsConstants DEF ChartsInv, ChartsTypeOK, Clocks
  <2>4. ASSUME NEW p \in samples, p.ts >= now - KeepSecs
        PROVE \E q \in samples' : /\ <<q.scope, q.ts>> = <<p.scope, p.ts>>
                                  /\ IF p.scope = "server" THEN q.of = p.of ELSE q.of \subseteq p.of
    <3>1. p.ts \in Nat
      BY DEF ChartsInv, ChartsTypeOK, Point
    <3>2. p.ts >= snapshot - KeepSecs
      BY <2>3, <2>4, <3>1
    <3>3. CASE \A q \in Averages(Window) : Key(p) # Key(q)
      <4>1. p \in samples'
        BY <2>1, <2>2, <3>2, <3>3, PersistIs
      <4>2. QED  BY <4>1
    <3>4. CASE ~(\A q \in Averages(Window) : Key(p) # Key(q))
      <4>1. PICK q \in Averages(Window) : Key(p) = Key(q)
        BY <3>4
      <4>2. q.scope = p.scope /\ q.ts = p.ts /\ q.of \subseteq p.of /\ (p.scope = "server" => q.of = p.of)
        BY <2>2, <4>1, AgainIsLess
      <4>3. q \in samples'
        BY <2>1, <2>2, <3>2, <4>2, PersistIs
      <4>4. QED  BY <4>2, <4>3
    <3>5. QED  BY <3>3, <3>4
  <2>5. QED  BY <2>4 DEF KeepsPoints
<1>3. QED  BY <1>1, <1>2

\* For any periods that keep the proportions, and however late the timers: the day's
\* chart and the week's have no hole (push, persist_once, samples).
THEOREM ChartsStayWhole == ChartsSpec => []ChartsAreWhole
<1>1. ChartsInv => ChartsAreWhole
  BY WholeCharts
<1>2. QED  BY <1>1, ChartsInvariance, PTL

\* A stored point stands for its week, however often webo restarts
\* (insert_sample, prune_samples).
THEOREM StoredPointsStand == ChartsSpec => PointsStand
<1>1. ChartsInv /\ [ChartsNext]_chartsVars => [KeepsPoints]_chartsVars
  BY PointsKept
<1>2. QED  BY <1>1, ChartsInvariance, PTL DEF ChartsSpec, PointsStand

-----------------------------------------------------------------------------
(* Bugs and their issues *)

\* What the lines and titles here are made of, what of it tells one bug from another,
\* and what that is for a slot of a bug that is no data.
Vocabulary == Slots \cup Surroundings \cup Classes \cup {"", "[app]", "timed out", "context canceled"}
Words == [kind : {"word", "phrase", "number", "id", "path", "name"}, text : Vocabulary]
Telling == {w \in Words : w.kind \in {"word", "phrase"} /\ w.text \notin Surroundings}
Said == Slots \ DataSlots
Spoken(slot) ==
  IF slot = "timeout" THEN [kind |-> "phrase", text |-> "timed out"]
  ELSE IF slot = "cancel" THEN [kind |-> "phrase", text |-> "context canceled"]
  ELSE Word(slot)
Heard(s) == [i \in DOMAIN s |-> Spoken(s[i])]

LEMMA SlotsAre ==
  /\ \A slot \in DataSlots : slot \in DOMAIN Fills
  /\ DOMAIN Fills = DataSlots \cup {"timeout", "cancel"}
BY DEF Fills, DataSlots

\* Data is no telling word; anything else has one form, which is.
LEMMA SurfaceIs ==
  ASSUME NEW slot \in Slots, NEW w \in Surfaces(slot)
  PROVE  /\ w \in Words /\ w.text \notin Tags /\ (w.text \in Classes <=> slot \in Classes)
         /\ slot \in DataSlots => w \notin Telling
         /\ slot \notin DataSlots => w = Spoken(slot) /\ w \in Telling
<1>0. Slots \cap Surroundings = {}
  BY GroupingAssumption
<1> USE DEF Surroundings, Tags, Classes, ReportKinds, LooseIds, LoosePaths, Words, Vocabulary, Word, Datum
<1>1. CASE slot = "number"
  <2>1. w = Datum("number")
    BY <1>1 DEF Surfaces, Fills
  <2>2. QED  BY <1>1, <2>1 DEF Telling, DataSlots
<1>2. CASE slot = "id"
  <2>1. w \in {Datum("id"), Datum("number")} \cup {Word(text) : text \in LooseIds}
    BY <1>2 DEF Surfaces, Fills
  <2>2. CASE w = Datum("id") \/ w = Datum("number")
    <3>1. CASE w = Datum("id")
      BY <1>2, <3>1 DEF Telling, DataSlots
    <3>2. CASE w = Datum("number")
      BY <1>2, <3>2 DEF Telling, DataSlots
    <3>3. QED  BY <2>2, <3>1, <3>2
  <2>3. CASE \E text \in LooseIds : w = Word(text)
    <3>1. PICK text \in LooseIds : w = Word(text)
      BY <2>3
    <3>2. text \in Surroundings /\ text \notin Tags
      OBVIOUS
    <3>3. w \in Words /\ w.text = text
      BY <3>1
    <3>4. QED  BY <1>2, <3>2, <3>3 DEF Telling, DataSlots
  <2>4. QED  BY <2>1, <2>2, <2>3
<1>3. CASE slot = "path"
  <2>1. w \in {Datum("path")} \cup {Word(text) : text \in LoosePaths}
    BY <1>3 DEF Surfaces, Fills
  <2>2. CASE w = Datum("path")
    BY <1>3, <2>2 DEF Telling, DataSlots
  <2>3. CASE \E text \in LoosePaths : w = Word(text)
    <3>1. PICK text \in LoosePaths : w = Word(text)
      BY <2>3
    <3>2. text \in Surroundings /\ text \notin Tags
      OBVIOUS
    <3>3. w \in Words /\ w.text = text
      BY <3>1
    <3>4. QED  BY <1>3, <3>2, <3>3 DEF Telling, DataSlots
  <2>4. QED  BY <2>1, <2>2, <2>3
<1>4. CASE slot = "name"
  <2>1. w = Datum("name")
    BY <1>4 DEF Surfaces, Fills
  <2>2. QED  BY <1>4, <2>1 DEF Telling, DataSlots
<1>5. CASE slot = "timeout"
  <2>1. w = [kind |-> "phrase", text |-> "timed out"]
    BY <1>5 DEF Surfaces, Fills
  <2>2. QED  BY <1>5, <2>1 DEF Telling, DataSlots, Spoken
<1>6. CASE slot = "cancel"
  <2>1. w = [kind |-> "phrase", text |-> "context canceled"]
    BY <1>6 DEF Surfaces, Fills
  <2>2. QED  BY <1>6, <2>1 DEF Telling, DataSlots, Spoken
<1>7. CASE slot \notin DataSlots \cup {"timeout", "cancel"}
  <2>1. w = Word(slot)
    BY <1>7, SlotsAre DEF Surfaces
  <2>2. QED  BY <1>0, <1>7, <2>1 DEF Telling, DataSlots, Spoken
<1>8. QED  BY <1>1, <1>2, <1>3, <1>4, <1>5, <1>6, <1>7 DEF DataSlots

\* Words that say a bug.
Says(words, bug) ==
  words \in Seq(Words) /\ Len(words) = Len(bug) /\ \A i \in 1 .. Len(bug) : words[i] \in Surfaces(bug[i])

LEMMA PhrasingsSay ==
  ASSUME NEW bug \in Seq(Slots), NEW words \in Phrasings(bug)
  PROVE  Says(words, bug)
<1>1. /\ DOMAIN words = DOMAIN bug /\ words = [i \in DOMAIN words |-> words[i]]
      /\ \A i \in DOMAIN bug : words[i] \in Surfaces(bug[i])
  BY DEF Phrasings
<1>2. \A i \in 1 .. Len(bug) : bug[i] \in Slots
  OBVIOUS
<1>3. PICK n \in Nat : n = Len(bug) /\ DOMAIN bug = 1 .. n
  OBVIOUS
<1>4. \A i \in 1 .. n : words[i] \in Words
  BY <1>1, <1>2, <1>3, SurfaceIs
<1>5. words \in Seq(Words) /\ Len(words) = n
  BY <1>1, <1>3, <1>4
<1>6. QED  BY <1>1, <1>3, <1>5 DEF Says

\* A word says as much as its placeholder.
LEMMA CollapsedIs ==
  ASSUME NEW w \in Words
  PROVE  /\ Collapsed(w) \in Words /\ (Collapsed(w) \in Telling <=> w \in Telling)
         /\ w \in Telling => Collapsed(w) = w
BY DEF Collapsed, Words, Vocabulary, Telling, Datum

LEMMA FingerprintOfMore ==
  ASSUME NEW s \in Seq(Words), NEW w \in Words
  PROVE  Fingerprint(Append(s, w)) = Append(Fingerprint(s), Collapsed(w)) /\ Fingerprint(s) \in Seq(Words)
<1>1. \A i \in 1 .. Len(s) : s[i] \in Words /\ Collapsed(s[i]) \in Words
  BY CollapsedIs
<1>2. Fingerprint(s) \in Seq(Words) /\ Len(Fingerprint(s)) = Len(s) /\ \A i \in 1 .. Len(s) : Fingerprint(s)[i] = Collapsed(s[i])
  BY <1>1 DEF Fingerprint
<1> DEFINE t == Append(s, w)
<1>3. DOMAIN t = 1 .. Len(s) + 1 /\ t[Len(s) + 1] = w /\ \A i \in 1 .. Len(s) : t[i] = s[i]
  OBVIOUS
<1>4. Fingerprint(t) = [i \in 1 .. Len(s) + 1 |-> Collapsed(t[i])]
  BY <1>3 DEF Fingerprint
<1> HIDE DEF t
<1> DEFINE u == Append(Fingerprint(s), Collapsed(w))
<1>5. u = [i \in 1 .. Len(s) + 1 |-> u[i]] /\ u[Len(s) + 1] = Collapsed(w) /\ \A i \in 1 .. Len(s) : u[i] = Fingerprint(s)[i]
  <2>1. Collapsed(w) \in Words
    BY CollapsedIs
  <2>2. u \in Seq(Words) /\ Len(u) = Len(s) + 1 /\ u[Len(s) + 1] = Collapsed(w)
    BY <1>2, <2>1
  <2>3. \A i \in 1 .. Len(s) : u[i] = Fingerprint(s)[i]
    BY <1>2, <2>1
  <2> HIDE DEF u
  <2>4. QED  BY <2>2, <2>3
<1> HIDE DEF u
<1>6. \A i \in 1 .. Len(s) + 1 : Collapsed(t[i]) = u[i]
  <2> SUFFICES ASSUME NEW i \in 1 .. Len(s) + 1 PROVE Collapsed(t[i]) = u[i]
    OBVIOUS
  <2>1. CASE i \in 1 .. Len(s)
    BY <1>2, <1>3, <1>5, <2>1
  <2>2. CASE i = Len(s) + 1
    BY <1>3, <1>5, <2>2
  <2>3. QED  BY <2>1, <2>2
<1>7. QED  BY <1>2, <1>4, <1>5, <1>6 DEF t, u

\* A fingerprint tells what its title tells.
LEMMA FingerprintTells ==
  ASSUME NEW s \in Seq(Words)
  PROVE  Only(Fingerprint(s), Telling) = Only(s, Telling)
<1> DEFINE T == {t \in Seq(Words) : Only(Fingerprint(t), Telling) = Only(t, Telling)}
<1>1. <<>> \in T
  BY OnlyOfNone DEF Fingerprint
<1>2. ASSUME NEW t \in Seq(Words), NEW w \in Words, t \in T PROVE Append(t, w) \in T
  <2>1. Fingerprint(Append(t, w)) = Append(Fingerprint(t), Collapsed(w)) /\ Fingerprint(t) \in Seq(Words)
    BY FingerprintOfMore
  <2>2. Collapsed(w) \in Words /\ (Collapsed(w) \in Telling <=> w \in Telling) /\ (w \in Telling => Collapsed(w) = w)
    BY CollapsedIs
  <2>3. Only(Append(Fingerprint(t), Collapsed(w)), Telling) =
          IF Collapsed(w) \in Telling THEN Append(Only(Fingerprint(t), Telling), Collapsed(w)) ELSE Only(Fingerprint(t), Telling)
    BY <2>1, <2>2, OnlyOfMore
  <2>4. Only(Append(t, w), Telling) = IF w \in Telling THEN Append(Only(t, Telling), w) ELSE Only(t, Telling)
    BY OnlyOfMore
  <2>5. Append(t, w) \in Seq(Words)
    OBVIOUS
  <2>6. QED  BY <1>2, <2>1, <2>2, <2>3, <2>4, <2>5
<1>3. Seq(Words) \subseteq T
  <2> HIDE DEF T
  <2>1. QED  BY <1>1, <1>2, Grow
<1>4. QED  BY <1>3

LEMMA HeardOfMore ==
  ASSUME NEW s \in Seq(Slots), NEW slot \in Slots
  PROVE  Heard(Append(s, slot)) = Append(Heard(s), Spoken(slot)) /\ Heard(s) \in Seq(Words) /\ Spoken(slot) \in Words
<1>1. \A x \in Slots : Spoken(x) \in Words
  BY DEF Spoken, Words, Vocabulary, Word
<1>2. /\ Heard(s) \in Seq(Words) /\ Len(Heard(s)) = Len(s)
      /\ \A i \in 1 .. Len(s) : Heard(s)[i] = Spoken(s[i])
  BY <1>1 DEF Heard
<1> DEFINE t == Append(s, slot)
<1> DEFINE u == Append(Heard(s), Spoken(slot))
<1>3. DOMAIN t = 1 .. Len(s) + 1 /\ t[Len(s) + 1] = slot /\ \A i \in 1 .. Len(s) : t[i] = s[i]
  OBVIOUS
<1>4. u = [i \in 1 .. Len(s) + 1 |-> u[i]] /\ u[Len(s) + 1] = Spoken(slot) /\ \A i \in 1 .. Len(s) : u[i] = Heard(s)[i]
  <2>1. Spoken(slot) \in Words
    BY <1>1
  <2>2. u \in Seq(Words) /\ Len(u) = Len(s) + 1 /\ u[Len(s) + 1] = Spoken(slot)
    BY <1>2, <2>1
  <2>3. \A i \in 1 .. Len(s) : u[i] = Heard(s)[i]
    BY <1>2, <2>1
  <2> HIDE DEF u
  <2>4. QED  BY <2>2, <2>3
<1>5. Heard(t) = [i \in 1 .. Len(s) + 1 |-> Spoken(t[i])]
  BY <1>3 DEF Heard
<1> HIDE DEF t, u
<1>6. \A i \in 1 .. Len(s) + 1 : Spoken(t[i]) = u[i]
  <2> SUFFICES ASSUME NEW i \in 1 .. Len(s) + 1 PROVE Spoken(t[i]) = u[i]
    OBVIOUS
  <2>1. CASE i \in 1 .. Len(s)
    BY <1>2, <1>3, <1>4, <2>1
  <2>2. CASE i = Len(s) + 1
    BY <1>3, <1>4, <2>2
  <2>3. QED  BY <2>1, <2>2
<1>7. Heard(t) = u
  BY <1>4, <1>5, <1>6
<1>8. QED  BY <1>1, <1>2, <1>7 DEF t, u

\* Two bugs that are heard alike say the same.
LEMMA HeardApart ==
  ASSUME NEW s \in Seq(Slots), NEW t \in Seq(Slots), Heard(s) = Heard(t)
  PROVE  s = t
<1>1. \A x, y \in Slots : Spoken(x) = Spoken(y) => x = y
  BY DEF Spoken, Word
<1>2. DOMAIN s = DOMAIN t /\ \A i \in DOMAIN s : Spoken(s[i]) = Spoken(t[i])
  BY DEF Heard
<1>3. \A i \in DOMAIN s : s[i] = t[i]
  BY <1>1, <1>2
<1>4. QED  BY <1>2, <1>3

\* Of the words that say a bug, the telling ones are what it says beside its data.
Tells(bug) == \A words : Says(words, bug) => Only(words, Telling) = Heard(Only(bug, Said))

LEMMA BugsTell == ASSUME NEW bug \in Seq(Slots) PROVE Tells(bug)
<1> DEFINE T == {b \in Seq(Slots) : Tells(b)}
<1>1. <<>> \in T
  <2>1. \A words : Says(words, <<>>) => words = <<>>
    BY DEF Says
  <2>2. Only(<<>>, Telling) = <<>> /\ Only(<<>>, Said) = <<>> /\ Heard(<<>>) = <<>>
    BY OnlyOfNone DEF Heard
  <2>3. QED  BY <2>1, <2>2 DEF Tells
<1>2. ASSUME NEW b \in Seq(Slots), NEW slot \in Slots, b \in T PROVE Append(b, slot) \in T
  <2> DEFINE c == Append(b, slot)
  <2>1. PICK n \in Nat : n = Len(b)
    OBVIOUS
  <2>2. c \in Seq(Slots) /\ Len(c) = n + 1 /\ c[n + 1] = slot /\ \A i \in 1 .. n : c[i] = b[i]
    BY <2>1
  <2> HIDE DEF c
  <2>3. ASSUME NEW words, Says(words, c) PROVE Only(words, Telling) = Heard(Only(c, Said))
    <3>1. words \in Seq(Words) /\ Len(words) = n + 1 /\ \A i \in 1 .. n + 1 : words[i] \in Surfaces(c[i])
      BY <2>2, <2>3 DEF Says
    <3> DEFINE front == SubSeq(words, 1, n)
               w == words[n + 1]
    <3>2. /\ front \in Seq(Words) /\ Len(front) = n /\ w \in Words /\ words = Append(front, w)
          /\ \A i \in 1 .. n : front[i] = words[i]
      BY <3>1
    <3>3. w \in Surfaces(slot)
      BY <2>2, <3>1
    <3> HIDE DEF front, w
    <3>4. Says(front, b)
      BY <2>1, <2>2, <3>1, <3>2 DEF Says
    <3>5. Only(front, Telling) = Heard(Only(b, Said))
      BY <1>2, <3>4 DEF Tells
    <3>6. Only(words, Telling) = IF w \in Telling THEN Append(Only(front, Telling), w) ELSE Only(front, Telling)
      BY <3>2, OnlyOfMore
    <3>7. Only(c, Said) = IF slot \in Said THEN Append(Only(b, Said), slot) ELSE Only(b, Said)
      BY OnlyOfMore DEF c
    <3>8. Only(b, Said) \in Seq(Slots)
      <4>1. Only(b, Said) \in Seq(Slots \cap Said)
        BY OnlyPasses
      <4>2. QED  BY <4>1
    <3>9. CASE slot \in DataSlots
      BY <3>3, <3>5, <3>6, <3>7, <3>9, SurfaceIs DEF Said
    <3>10. CASE slot \notin DataSlots
      <4>1. w = Spoken(slot) /\ w \in Telling /\ slot \in Said /\ slot \in Slots
        BY <3>3, <3>10, SurfaceIs DEF Said
      <4>2. Heard(Append(Only(b, Said), slot)) = Append(Heard(Only(b, Said)), Spoken(slot))
        BY <3>8, <4>1, HeardOfMore
      <4>3. QED  BY <3>5, <3>6, <3>7, <4>1, <4>2
    <3>11. QED  BY <3>9, <3>10
  <2>4. QED  BY <2>2, <2>3 DEF Tells, c
<1>3. Seq(Slots) \subseteq T
  <2> HIDE DEF T
  <2>1. QED  BY <1>1, <1>2, Grow
<1>4. QED  BY <1>3

\* Words in which a tag is not found, and words in which none is.
Free(s, tag) == s \in Seq(Words) /\ \A i \in 1 .. Len(s) : s[i].text \notin Holding(tag)
Untagged(s) == Free(s, "ERROR:") /\ Free(s, "Error:") /\ Free(s, "error:")
\* Words that tell nothing of a bug.
Silent(s) == s \in Seq(Words) /\ \A i \in 1 .. Len(s) : s[i] \notin Telling

LEMMA TwoFree ==
  ASSUME NEW tag, NEW a, NEW b, Free(a, tag), Free(b, tag)
  PROVE  Free(a \o b, tag)
<1>1. a \in Seq(Words) /\ b \in Seq(Words)
  BY DEF Free
<1>2. PICK m \in Nat, n \in Nat : m = Len(a) /\ n = Len(b)
  BY <1>1
<1> DEFINE c == a \o b
<1>3. /\ c \in Seq(Words) /\ Len(c) = m + n /\ \A i \in 1 .. m : c[i] = a[i]
      /\ \A i \in m + 1 .. m + n : c[i] = b[i - m] /\ i - m \in 1 .. n
  BY <1>1, <1>2
<1> HIDE DEF c
<1>4. ASSUME NEW i \in 1 .. m + n PROVE c[i].text \notin Holding(tag)
  <2>1. CASE i \in 1 .. m
    BY <1>2, <1>3, <2>1 DEF Free
  <2>2. CASE i \in m + 1 .. m + n
    BY <1>2, <1>3, <2>2 DEF Free
  <2>3. QED  BY <1>2, <2>1, <2>2
<1>5. QED  BY <1>3, <1>4 DEF Free, c

LEMMA TwoUntagged ==
  ASSUME NEW a, NEW b, Untagged(a), Untagged(b)
  PROVE  Untagged(a \o b)
BY TwoFree DEF Untagged

LEMMA TwoSilent ==
  ASSUME NEW a, NEW b, Silent(a), Silent(b)
  PROVE  Silent(a \o b)
<1>1. a \in Seq(Words) /\ b \in Seq(Words)
  BY DEF Silent
<1>2. PICK m \in Nat, n \in Nat : m = Len(a) /\ n = Len(b)
  BY <1>1
<1> DEFINE c == a \o b
<1>3. /\ c \in Seq(Words) /\ Len(c) = m + n /\ \A i \in 1 .. m : c[i] = a[i]
      /\ \A i \in m + 1 .. m + n : c[i] = b[i - m] /\ i - m \in 1 .. n
  BY <1>1, <1>2
<1> HIDE DEF c
<1>4. ASSUME NEW i \in 1 .. m + n PROVE c[i] \notin Telling
  <2>1. CASE i \in 1 .. m
    BY <1>2, <1>3, <2>1 DEF Silent
  <2>2. CASE i \in m + 1 .. m + n
    BY <1>2, <1>3, <2>2 DEF Silent
  <2>3. QED  BY <1>2, <2>1, <2>2
<1>5. QED  BY <1>3, <1>4 DEF Silent, c

LEMMA SilentTellsNothing == ASSUME NEW s, Silent(s) PROVE Only(s, Telling) = <<>>
<1> DEFINE X == Words \ Telling
<1>1. s \in Seq(X)
  BY DEF Silent
<1>2. X \cap Telling = {}
  OBVIOUS
<1> HIDE DEF X
<1>3. QED  BY <1>1, <1>2, OnlyOfOthers

LEMMA LeastIs ==
  ASSUME NEW n \in Nat, NEW I, I \subseteq 1 .. n, I # {}
  PROVE  Min(I) \in I /\ Min(I) \in 1 .. n /\ \A i \in I : Min(I) <= i
<1>1. IsFiniteSet(1 .. n)
  BY FS_Interval
<1>2. I \in SUBSET (1 .. n)
  OBVIOUS
<1>3. IsFiniteSet(I)
  BY <1>1, <1>2, FS_Subset
<1>4. I \subseteq Int
  OBVIOUS
<1>5. Min(I) \in I /\ \A i \in I : Min(I) <= i
  BY <1>3, <1>4, MinIs
<1>6. QED  BY <1>2, <1>5

LEMMA TailIs ==
  ASSUME NEW X, NEW s \in Seq(X), NEW n \in Nat, n = Len(s), NEW k \in 0 .. n
  PROVE  /\ SubSeq(s, k + 1, n) \in Seq(X) /\ Len(SubSeq(s, k + 1, n)) = n - k
         /\ \A j \in 1 .. n - k : SubSeq(s, k + 1, n)[j] = s[k + j]
<1>1. \A i \in k + 1 .. n : s[i] \in X
  OBVIOUS
<1>2. k + 1 \in Int /\ n \in Int
  OBVIOUS
<1>3. /\ SubSeq(s, k + 1, n) \in Seq(X)
      /\ Len(SubSeq(s, k + 1, n)) = IF k + 1 <= n THEN n - (k + 1) + 1 ELSE 0
      /\ \A j \in 1 .. n - (k + 1) + 1 : SubSeq(s, k + 1, n)[j] = s[k + 1 + j - 1]
  BY <1>1, <1>2, SubSeqProperties
<1>4. Len(SubSeq(s, k + 1, n)) = n - k
  BY <1>3
<1>5. n - (k + 1) + 1 = n - k /\ \A j \in 1 .. n - k : k + 1 + j - 1 = k + j
  OBVIOUS
<1>6. \A j \in 1 .. n - k : SubSeq(s, k + 1, n)[j] = s[k + j]
  BY <1>3, <1>5
<1>7. QED  BY <1>3, <1>4, <1>6

LEMMA Sandwich ==
  ASSUME NEW X, NEW a \in Seq(X), NEW x \in X, NEW b \in Seq(X), NEW m \in Nat, m = Len(a), NEW n \in Nat, n = Len(b),
         NEW s, s = a \o <<x>> \o b
  PROVE  /\ s \in Seq(X) /\ Len(s) = m + 1 + n /\ s[m + 1] = x /\ \A i \in 1 .. m : s[i] = a[i]
         /\ \A i \in 1 .. n : s[m + 1 + i] = b[i]
OBVIOUS

\* What follows the first word in which a tag is found.
CutAt(s, tag, a, x, b) ==
  x \in Words /\ b \in Seq(Words) /\ Free(a, tag) /\ x.text \in Holding(tag) /\ s = a \o <<x>> \o b

LEMMA TagCuts ==
  ASSUME NEW s, NEW tag, NEW a, NEW x, NEW b, CutAt(s, tag, a, x, b)
  PROVE  s \in Seq(Words) /\ Mentions(s, Holding(tag)) /\ After(s, tag) = b
<1>1. /\ a \in Seq(Words) /\ x \in Words /\ b \in Seq(Words) /\ Free(a, tag) /\ x.text \in Holding(tag)
      /\ s = a \o <<x>> \o b
  BY DEF Free, CutAt
<1>2. PICK m \in Nat, n \in Nat : m = Len(a) /\ n = Len(b)
  BY <1>1
<1>3. /\ s \in Seq(Words) /\ Len(s) = m + 1 + n /\ s[m + 1] = x /\ \A i \in 1 .. m : s[i] = a[i]
      /\ \A i \in 1 .. n : s[m + 1 + i] = b[i]
  BY <1>1, <1>2, Sandwich
<1>4. DOMAIN s = 1 .. m + 1 + n /\ m + 1 \in 1 .. m + 1 + n
  BY <1>3
<1>5. \A i \in 1 .. m : s[i].text \notin Holding(tag)
  BY <1>1, <1>2, <1>3 DEF Free
<1>6. Mentions(s, Holding(tag))
  BY <1>1, <1>3, <1>4 DEF Mentions, Range
<1> DEFINE I == {i \in DOMAIN s : s[i].text \in Holding(tag)}
<1>7. I \subseteq 1 .. m + 1 + n /\ m + 1 \in I /\ \A i \in I : i >= m + 1
  BY <1>1, <1>3, <1>4, <1>5
<1>8. After(s, tag) = SubSeq(s, 1 + Min(I), Len(s))
  BY DEF After
<1> HIDE DEF I
<1>9. Min(I) = m + 1
  <2>1. m + 1 + n \in Nat
    BY <1>2
  <2>2. Min(I) \in I /\ Min(I) \in 1 .. m + 1 + n /\ \A i \in I : Min(I) <= i
    BY <1>7, <2>1, LeastIs
  <2>3. QED  BY <1>2, <1>7, <2>2
<1> DEFINE u == After(s, tag)
<1>10. u = SubSeq(s, (m + 1) + 1, m + 1 + n)
  <2>1. 1 + (m + 1) = (m + 1) + 1
    BY <1>2
  <2>2. QED  BY <1>3, <1>8, <1>9, <2>1
<1>11. After(s, tag) = b
  <2> HIDE DEF u
  <2>1. PICK k \in Nat, l \in Nat : k = m + 1 /\ l = m + 1 + n
    BY <1>2
  <2>2. k \in 0 .. l /\ l - k = n /\ l = Len(s) /\ s \in Seq(Words) /\ u = SubSeq(s, k + 1, l)
    BY <1>2, <1>3, <1>10, <2>1
  <2>3. u \in Seq(Words) /\ Len(u) = l - k /\ \A i \in 1 .. l - k : u[i] = s[k + i]
    BY <2>2, TailIs
  <2>4. u \in Seq(Words) /\ Len(u) = n /\ \A i \in 1 .. n : u[i] = s[m + 1 + i]
    BY <2>1, <2>2, <2>3
  <2>5. Len(u) = Len(b) /\ \A i \in 1 .. Len(u) : u[i] = b[i]
    BY <1>2, <1>3, <2>4
  <2>6. u = b
    BY <1>1, <2>4, <2>5, SeqEqual
  <2>7. QED  BY <2>6 DEF u
<1>12. QED  BY <1>3, <1>6, <1>11

\* Words in which a tag is found, up to the first, and what follows it.
LEMMA TagSplits ==
  ASSUME NEW tag, NEW s \in Seq(Words), ~Free(s, tag)
  PROVE  \E a, x : /\ Free(a, tag) /\ x \in Words /\ x.text \in Holding(tag) /\ After(s, tag) \in Seq(Words)
                   /\ s = a \o <<x>> \o After(s, tag) /\ \A i \in 1 .. Len(a) : a[i] = s[i]
                   /\ Len(a) < Len(s)
<1> DEFINE I == {i \in DOMAIN s : s[i].text \in Holding(tag)}
<1>1. I # {} /\ I \subseteq 1 .. Len(s) /\ Len(s) \in Nat
  BY DEF Free
<1>2. After(s, tag) = SubSeq(s, 1 + Min(I), Len(s))
  BY DEF After
<1>3. \A i \in 1 .. Len(s) : s[i].text \in Holding(tag) => i \in I
  OBVIOUS
<1>4. \A i \in I : s[i].text \in Holding(tag)
  OBVIOUS
<1> HIDE DEF I
<1>5. PICK k \in 1 .. Len(s) : k = Min(I) /\ s[k].text \in Holding(tag) /\ \A i \in 1 .. k - 1 : s[i].text \notin Holding(tag)
  <2>1. Min(I) \in I /\ \A i \in I : Min(I) <= i
    BY <1>1, LeastIs
  <2>2. Min(I) \in 1 .. Len(s) /\ s[Min(I)].text \in Holding(tag)
    BY <1>1, <1>4, <2>1
  <2>3. \A i \in 1 .. Min(I) - 1 : s[i].text \notin Holding(tag)
    BY <1>3, <2>1, <2>2
  <2>4. QED  BY <2>2, <2>3
<1> DEFINE a == SubSeq(s, 1, k - 1)
           x == s[k]
           b == SubSeq(s, k + 1, Len(s))
<1>6. PICK n \in Nat : n = Len(s)
  OBVIOUS
<1>7. /\ a \in Seq(Words) /\ Len(a) = k - 1 /\ \A i \in 1 .. k - 1 : a[i] = s[i]
      /\ b \in Seq(Words) /\ Len(b) = n - k /\ \A i \in 1 .. n - k : b[i] = s[k + i]
      /\ x \in Words /\ x.text \in Holding(tag) /\ x = s[k]
  <2>1. a \in Seq(Words) /\ Len(a) = k - 1 /\ \A i \in 1 .. k - 1 : a[i] = s[i]
    BY <1>5, <1>6
  <2>2. b = SubSeq(s, k + 1, n) /\ k \in 0 .. n
    BY <1>5, <1>6
  <2>3. b \in Seq(Words) /\ Len(b) = n - k /\ \A i \in 1 .. n - k : b[i] = s[k + i]
    BY <1>6, <2>2, TailIs
  <2>4. x \in Words /\ x.text \in Holding(tag) /\ x = s[k]
    BY <1>5
  <2>5. QED  BY <2>1, <2>3, <2>4
<1>8. After(s, tag) = b
  <2>1. After(s, tag) = SubSeq(s, 1 + k, Len(s))
    BY <1>2, <1>5
  <2>2. 1 + k = k + 1
    BY <1>5
  <2>3. QED  BY <2>1, <2>2
<1> HIDE DEF a, x, b
<1>9. Free(a, tag)
  BY <1>5, <1>7 DEF Free
<1>10. s = a \o <<x>> \o b
  <2> DEFINE u == a \o <<x>> \o b
  <2>0. k - 1 \in Nat /\ n - k \in Nat /\ (k - 1) + 1 + (n - k) = n /\ (k - 1) + 1 = k
    BY <1>5, <1>6
  <2>1. /\ u \in Seq(Words) /\ Len(u) = (k - 1) + 1 + (n - k) /\ u[(k - 1) + 1] = x
        /\ \A i \in 1 .. k - 1 : u[i] = a[i]
        /\ \A i \in 1 .. n - k : u[(k - 1) + 1 + i] = b[i]
    <3>1. PICK p \in Nat, q \in Nat : p = k - 1 /\ q = n - k
      BY <2>0
    <3>2. a \in Seq(Words) /\ x \in Words /\ b \in Seq(Words) /\ p = Len(a) /\ q = Len(b) /\ u = a \o <<x>> \o b
      BY <1>7, <3>1
    <3> HIDE DEF u
    <3>3. /\ u \in Seq(Words) /\ Len(u) = p + 1 + q /\ u[p + 1] = x /\ \A i \in 1 .. p : u[i] = a[i]
          /\ \A i \in 1 .. q : u[p + 1 + i] = b[i]
      BY <3>2, Sandwich
    <3>4. QED  BY <3>1, <3>3
  <2> HIDE DEF u
  <2>2. (\A i \in 1 .. k - 1 : u[i] = a[i]) /\ \A i \in 1 .. n - k : u[k + i] = b[i]
    BY <2>0, <2>1
  <2>3. u \in Seq(Words) /\ Len(u) = n /\ u[k] = x
    BY <2>0, <2>1
  <2>4. ASSUME NEW i \in 1 .. n PROVE u[i] = s[i]
    <3>1. CASE i <= k - 1
      BY <1>7, <2>2, <3>1
    <3>2. CASE i = k
      BY <1>7, <2>3, <3>2
    <3>3. CASE i >= k + 1
      <4>1. i - k \in 1 .. n - k /\ k + (i - k) = i
        BY <1>5, <1>6, <3>3
      <4>2. QED  BY <1>7, <2>2, <4>1
    <3>4. QED  BY <1>5, <3>1, <3>2, <3>3
  <2>5. u = s
    BY <1>6, <2>3, <2>4, SeqEqual
  <2>6. QED  BY <2>5 DEF u
<1>11. Len(a) < Len(s)
  BY <1>5, <1>6, <1>7
<1>12. \A i \in 1 .. Len(a) : a[i] = s[i]
  BY <1>7
<1>13. QED  BY <1>7, <1>8, <1>9, <1>10, <1>11, <1>12

LEMMA NoTagIsThere ==
  ASSUME NEW tag, NEW s, Free(s, tag)
  PROVE  ~Mentions(s, Holding(tag))
BY DEF Free, Mentions, Range

LEMMA TitlesAre ==
  ASSUME NEW line, NEW s, s = StripRequestId(line)
  PROVE  /\ Untagged(s) => TitleOf(line) = s
         /\ Mentions(s, Holding("ERROR:")) => TitleOf(line) = After(s, "ERROR:")
         /\ Free(s, "ERROR:") /\ Mentions(s, Holding("Error:")) => TitleOf(line) = After(s, "Error:")
         /\ Free(s, "ERROR:") /\ Free(s, "Error:") /\ Mentions(s, Holding("error:"))
              => TitleOf(line) = After(s, "error:")
<1>1. TitleOf(line) = IF Mentions(s, Holding("ERROR:")) THEN After(s, "ERROR:")
                      ELSE IF Mentions(s, Holding("Error:")) THEN After(s, "Error:")
                      ELSE IF Mentions(s, Holding("error:")) THEN After(s, "error:") ELSE s
  BY DEF TitleOf
<1> HIDE DEF Mentions, After, Holding
<1>2. QED  BY <1>1, NoTagIsThere DEF Untagged

\* What is left of the head of a line in its title.
HeadOf(line) ==
  IF line.form = "plain" \/ LevelDeclared(line) # "none" THEN <<>>
  ELSE <<Datum("number")>> \o (IF line.id THEN <<Datum("id")>> ELSE <<>>)

LEMMA UntaggedIs ==
  ASSUME NEW s \in Seq(Words), \A i \in 1 .. Len(s) : s[i].text \notin Tags \cup Classes
  PROVE  Untagged(s)
BY DEF Untagged, Free, Holding, Tags

LEMMA NoneIsUntagged == <<>> \in Seq(Words) /\ Untagged(<<>>) /\ Silent(<<>>)
BY DEF Untagged, Free, Silent

LEMMA OneWord ==
  ASSUME NEW w \in Words
  PROVE  /\ <<w>> \in Seq(Words) /\ (w.text \notin Tags \cup Classes => Untagged(<<w>>))
         /\ (w \notin Telling => Silent(<<w>>))
         /\ \A tag : w.text \notin Holding(tag) => Free(<<w>>, tag)
<1>1. <<w>> \in Seq(Words) /\ Len(<<w>>) = 1 /\ <<w>>[1] = w
  OBVIOUS
<1>2. ASSUME w.text \notin Tags \cup Classes PROVE Untagged(<<w>>)
  <2>1. \A i \in 1 .. Len(<<w>>) : <<w>>[i].text \notin Tags \cup Classes
    BY <1>1, <1>2
  <2>2. QED  BY <1>1, <2>1, UntaggedIs
<1>3. QED  BY <1>1, <1>2 DEF Free, Silent

LEMMA HeadsAre ==
  ASSUME NEW line, line.lead \in Seq(Words), line.words \in Seq(Words)
  PROVE  /\ HeadOf(line) \in Seq(Words) /\ Untagged(HeadOf(line)) /\ Silent(HeadOf(line))
         /\ StripRequestId(line) = HeadOf(line) \o line.lead \o line.words
         /\ line.form = "plain" \/ LevelDeclared(line) # "none" => HeadOf(line) = <<>>
<1>1. Datum("number") \in Words /\ Datum("number").text \notin Tags \cup Classes /\ Datum("number") \notin Telling
  BY DEF Datum, Words, Vocabulary, Tags, Classes, Telling
<1>2. Datum("id") \in Words /\ Datum("id").text \notin Tags \cup Classes /\ Datum("id") \notin Telling
  BY DEF Datum, Words, Vocabulary, Tags, Classes, Telling
<1> DEFINE x == Datum("number")
           y == Datum("id")
<1>3. <<>> \in Seq(Words) /\ Untagged(<<>>) /\ Silent(<<>>)
  BY NoneIsUntagged
<1>4. <<x>> \in Seq(Words) /\ Untagged(<<x>>) /\ Silent(<<x>>)
  BY <1>1, OneWord
<1>5. <<y>> \in Seq(Words) /\ Untagged(<<y>>) /\ Silent(<<y>>)
  BY <1>2, OneWord
<1> HIDE DEF x, y
<1>6. CASE line.form = "plain" \/ LevelDeclared(line) # "none"
  <2>1. HeadOf(line) = <<>> /\ StripRequestId(line) = line.lead \o line.words
    BY <1>6 DEF HeadOf, StripRequestId
  <2>2. <<>> \o line.lead = line.lead
    OBVIOUS
  <2>3. QED  BY <1>3, <2>1, <2>2
<1>7. CASE ~(line.form = "plain" \/ LevelDeclared(line) # "none")
  <2>1. HeadOf(line) = <<x>> \o (IF line.id THEN <<y>> ELSE <<>>)
    BY <1>7 DEF HeadOf, x, y
  <2>2. StripRequestId(line) = <<x>> \o (IF line.id THEN <<y>> ELSE <<>>) \o line.lead \o line.words
    BY <1>7 DEF StripRequestId, Text, x, y
  <2>3. CASE line.id
    <3>1. HeadOf(line) = <<x>> \o <<y>>
      BY <2>1, <2>3
    <3>2. Untagged(<<x>> \o <<y>>) /\ Silent(<<x>> \o <<y>>)
      BY <1>4, <1>5, TwoUntagged, TwoSilent
    <3>3. QED  BY <1>7, <2>1, <2>2, <3>1, <3>2 DEF Silent
  <2>4. CASE ~line.id
    <3>1. HeadOf(line) = <<x>> \o <<>>
      BY <2>1, <2>4
    <3>2. Untagged(<<x>> \o <<>>) /\ Silent(<<x>> \o <<>>)
      BY <1>3, <1>4, TwoUntagged, TwoSilent
    <3>3. QED  BY <1>7, <2>1, <2>2, <3>1, <3>2 DEF Silent
  <2>5. QED  BY <2>3, <2>4
<1>8. QED  BY <1>6, <1>7

\* What stands in front of a bug is set off from it.
SetOff(line) ==
  IF line.lead = <<>> THEN line.form = "plain" \/ LevelDeclared(line) # "none"
  ELSE Last(line.lead).text \in Tags \cup Classes

\* Words in which there is no tag on its own.
Classy(words) == words \in Seq(Words) /\ Free(words, "ERROR:") /\ Free(words, "error:")

\* A title is of the words of the bug, after words that tell nothing of it; or of
\* those that follow its class.
Titled(line, before, u) ==
  /\ Silent(before) /\ u \in Seq(Words) /\ TitleOf(line) = before \o u
  /\ SetOff(line) => before = <<>>
  /\ u = line.words \/ (u = After(line.words, "Error:") /\ ~Free(line.words, "Error:"))

AllLeads == Leads \cup {<<Word(kind)>> : kind \in ReportKinds}

LEMMA JoinedAgain ==
  ASSUME NEW a \in Seq(Words), NEW b \in Seq(Words), NEW c \in Seq(Words), NEW d \in Seq(Words)
  PROVE  a \o (b \o c \o d) = (a \o b) \o c \o d
OBVIOUS

\* Without a tag in front that is looked for as early, the class is taken for one.
LEMMA ClassCuts ==
  ASSUME NEW line, Classy(line.words), ~Free(line.words, "Error:"),
         NEW a, Free(a, "ERROR:"), Free(a, "Error:"), StripRequestId(line) = a \o line.words
  PROVE  \E u : Titled(line, <<>>, u)
<1> DEFINE words == line.words
           s == StripRequestId(line)
           u == After(words, "Error:")
<1>1. words \in Seq(Words) /\ a \in Seq(Words) /\ Free(words, "ERROR:") /\ ~Free(words, "Error:") /\ s = a \o words
  BY DEF Classy, Free
<1>2. u = After(words, "Error:")
  OBVIOUS
<1> HIDE DEF words, s, u
<1>3. PICK p, x : /\ Free(p, "Error:") /\ x \in Words /\ x.text \in Holding("Error:") /\ u \in Seq(Words)
                  /\ words = p \o <<x>> \o u
  <2>1. \E p, x : /\ Free(p, "Error:") /\ x \in Words /\ x.text \in Holding("Error:") /\ After(words, "Error:") \in Seq(Words)
                   /\ words = p \o <<x>> \o After(words, "Error:") /\ \A i \in 1 .. Len(p) : p[i] = words[i]
                   /\ Len(p) < Len(words)
    BY <1>1, TagSplits
  <2>2. QED  BY <1>2, <2>1
<1>4. Free(a \o p, "Error:")
  BY <1>3, TwoFree
<1>5. s = (a \o p) \o <<x>> \o u
  <2>1. a \in Seq(Words) /\ p \in Seq(Words) /\ <<x>> \in Seq(Words) /\ u \in Seq(Words)
    BY <1>1, <1>3 DEF Free
  <2>2. a \o (p \o <<x>> \o u) = (a \o p) \o <<x>> \o u
    BY <2>1, JoinedAgain
  <2>3. words = p \o <<x>> \o u /\ s = a \o words
    BY <1>1, <1>3
  <2>4. QED  BY <2>2, <2>3
<1>6. Mentions(s, Holding("Error:")) /\ After(s, "Error:") = u
  <2>1. CutAt(s, "Error:", a \o p, x, u)
    BY <1>3, <1>4, <1>5 DEF CutAt
  <2>2. QED  BY <2>1, TagCuts
<1>7. Free(s, "ERROR:")
  BY <1>1, TwoFree
<1>8. TitleOf(line) = u
  BY <1>6, <1>7, TitlesAre DEF s
<1>9. <<>> \o u = u
  BY <1>3
<1>10. Titled(line, <<>>, u)
  BY <1>1, <1>3, <1>8, <1>9, NoneIsUntagged DEF Titled, u, words
<1>11. QED  BY <1>10

\* What follows a tag in front, or what follows the class after it.
LEMMA LeadCuts ==
  ASSUME NEW line, Classy(line.words), NEW a, Untagged(a), NEW y \in Words, y.text \in Tags \cup Classes,
         StripRequestId(line) = (a \o <<y>>) \o line.words
  PROVE  \E u : Titled(line, <<>>, u)
<1> DEFINE words == line.words
           s == StripRequestId(line)
<1>1. /\ words \in Seq(Words) /\ Free(words, "ERROR:") /\ Free(words, "error:") /\ s = (a \o <<y>>) \o words
      /\ Free(a, "ERROR:") /\ Free(a, "Error:") /\ Free(a, "error:") /\ a \in Seq(Words)
  BY DEF Classy, Untagged, Free
<1>2. <<>> \o words = words
  BY <1>1
<1>3. ASSUME TitleOf(line) = words PROVE \E u : Titled(line, <<>>, u)
  <2>1. Titled(line, <<>>, words)
    BY <1>1, <1>2, <1>3, NoneIsUntagged DEF Titled
  <2>2. QED  BY <2>1
<1> HIDE DEF words, s
<1>4. ASSUME NEW tag, y.text \in Holding(tag), Free(a, tag)
      PROVE  Mentions(s, Holding(tag)) /\ After(s, tag) = words
  <2>1. CutAt(s, tag, a, y, words)
    BY <1>1, <1>4 DEF CutAt
  <2>2. QED  BY <2>1, TagCuts
<1>5. ASSUME NEW tag, y.text \notin Holding(tag), Free(a, tag)
      PROVE  Free(a \o <<y>>, tag)
  <2>1. Free(<<y>>, tag)
    BY <1>5, OneWord
  <2>2. QED  BY <1>5, <2>1, TwoFree
<1>6. CASE y.text = "ERROR:"
  <2>1. y.text \in Holding("ERROR:")
    BY <1>6 DEF Holding
  <2>2. QED  BY <1>1, <1>3, <1>4, <2>1, TitlesAre DEF s
<1>7. CASE y.text \in Holding("Error:")
  <2>1. y.text \notin Holding("ERROR:")
    BY <1>7 DEF Holding, Classes
  <2>2. Free(s, "ERROR:")
    BY <1>1, <1>5, <2>1, TwoFree
  <2>3. QED  BY <1>1, <1>3, <1>4, <1>7, <2>2, TitlesAre DEF s
<1>8. CASE y.text = "error:"
  <2>1. y.text \notin Holding("ERROR:") /\ y.text \notin Holding("Error:") /\ y.text \in Holding("error:")
    BY <1>8 DEF Holding, Classes
  <2>2. Free(a \o <<y>>, "ERROR:") /\ Free(a \o <<y>>, "Error:")
    BY <1>1, <1>5, <2>1
  <2>3. CASE Free(words, "Error:")
    <3>1. Free(s, "ERROR:") /\ Free(s, "Error:")
      BY <1>1, <2>2, <2>3, TwoFree
    <3>2. QED  BY <1>1, <1>3, <1>4, <2>1, <3>1, TitlesAre DEF s
  <2>4. CASE ~Free(words, "Error:")
    BY <1>1, <2>2, <2>4, ClassCuts DEF s, words
  <2>5. QED  BY <2>3, <2>4
<1>9. y.text = "ERROR:" \/ y.text \in Holding("Error:") \/ y.text = "error:"
  BY DEF Tags, Holding
<1>10. QED  BY <1>6, <1>7, <1>8, <1>9

\* Without a tag in front, all there is, or what follows the class.
LEMMA NoLeadCuts ==
  ASSUME NEW line, Classy(line.words), NEW a, Untagged(a), Silent(a), SetOff(line) => a = <<>>,
         StripRequestId(line) = a \o line.words
  PROVE  \E before, u : Titled(line, before, u)
<1>1. CASE Free(line.words, "Error:")
  <2>1. Untagged(line.words) /\ line.words \in Seq(Words)
    BY <1>1 DEF Classy, Untagged
  <2>2. Untagged(StripRequestId(line))
    BY <2>1, TwoUntagged
  <2>3. TitleOf(line) = a \o line.words
    BY <2>2, TitlesAre
  <2>4. Titled(line, a, line.words)
    BY <2>1, <2>3 DEF Titled
  <2>5. QED  BY <2>4
<1>2. CASE ~Free(line.words, "Error:")
  <2>1. \E u : Titled(line, <<>>, u)
    BY <1>2, ClassCuts DEF Untagged
  <2>2. QED  BY <2>1
<1>3. QED  BY <1>1, <1>2

LEMMA TitleSays ==
  ASSUME NEW line, Classy(line.words), line.lead \in AllLeads
  PROVE  \E before, u : Titled(line, before, u)
<1> DEFINE head == HeadOf(line)
           words == line.words
           s == StripRequestId(line)
<1>1. words \in Seq(Words)
  BY DEF Classy
<1>4. ASSUME line.lead \in Seq(Words)
      PROVE  /\ head \in Seq(Words) /\ Untagged(head) /\ Silent(head) /\ s = head \o line.lead \o words
             /\ line.form = "plain" \/ LevelDeclared(line) # "none" => head = <<>>
  BY <1>1, <1>4, HeadsAre
<1> HIDE DEF head, words, s
<1>5. CASE line.lead = <<>>
  <2>1. <<>> \in Seq(Words) /\ head \in Seq(Words) /\ Untagged(head) /\ Silent(head)
    BY <1>4, <1>5, NoneIsUntagged
  <2>2. s = head \o words
    <3>1. head \o <<>> = head
      BY <2>1
    <3>2. QED  BY <1>4, <1>5, <2>1, <3>1
  <2>3. SetOff(line) => head = <<>>
    BY <1>4, <1>5, <2>1 DEF SetOff
  <2>4. QED  BY <2>1, <2>2, <2>3, NoLeadCuts DEF s, words
<1>6. CASE \E tag \in Tags \cup Classes : line.lead = <<Word(tag)>>
  <2>1. PICK tag \in Tags \cup Classes : line.lead = <<Word(tag)>>
    BY <1>6
  <2> DEFINE y == Word(tag)
  <2>2. y \in Words /\ y.text = tag
    BY DEF Word, Words, Vocabulary, Surroundings, Classes
  <2>3. line.lead = <<y>>
    BY <2>1
  <2> HIDE DEF y
  <2>4. <<y>> \in Seq(Words)
    BY <2>2
  <2>5. s = (head \o <<y>>) \o words /\ Untagged(head)
    BY <1>4, <2>3, <2>4
  <2>6. QED  BY <2>2, <2>5, LeadCuts DEF s, words
<1>7. CASE line.lead = <<Word("[app]"), Word("Error:")>>
  <2> DEFINE x == Word("[app]")
             y == Word("Error:")
  <2>1. x \in Words /\ x.text \notin Tags \cup Classes /\ y \in Words /\ y.text \in Tags \cup Classes
    BY DEF Word, Words, Vocabulary, Surroundings, Tags, Classes
  <2>2. line.lead = <<x, y>>
    BY <1>7
  <2> HIDE DEF x, y
  <2>3. Untagged(<<x>>) /\ <<x>> \in Seq(Words)
    BY <2>1, OneWord
  <2>4. <<x, y>> \in Seq(Words) /\ <<y>> \in Seq(Words)
    BY <2>1
  <2>5. Untagged(head) /\ head \in Seq(Words) /\ s = head \o <<x, y>> \o words
    BY <1>4, <2>2, <2>4
  <2>6. head \o <<x, y>> = (head \o <<x>>) \o <<y>>
    <3>1. head \o <<x, y>> = Append(Append(head, x), y)
      BY <2>1, <2>5
    <3>2. head \o <<x>> = Append(head, x) /\ Append(head, x) \in Seq(Words)
      BY <2>1, <2>5
    <3>3. Append(head, x) \o <<y>> = Append(Append(head, x), y)
      BY <2>1, <3>2
    <3>4. QED  BY <3>1, <3>2, <3>3
  <2>7. Untagged(head \o <<x>>)
    BY <2>3, <2>5, TwoUntagged
  <2>8. s = ((head \o <<x>>) \o <<y>>) \o words
    BY <2>5, <2>6
  <2>9. QED  BY <2>1, <2>7, <2>8, LeadCuts DEF s, words
<1>8. CASE \E kind \in ReportKinds : line.lead = <<Word(kind)>> /\ kind \notin Tags \cup Classes
  <2>1. PICK kind \in ReportKinds : line.lead = <<Word(kind)>> /\ kind \notin Tags \cup Classes
    BY <1>8
  <2> DEFINE x == Word(kind)
  <2>2. x \in Words /\ x \notin Telling /\ x.text = kind
    BY <2>1 DEF Word, Words, Vocabulary, Surroundings, Telling
  <2>3. line.lead = <<x>> /\ kind \notin Tags \cup Classes
    BY <2>1
  <2> HIDE DEF x
  <2>4. <<x>> \in Seq(Words) /\ Untagged(<<x>>) /\ Silent(<<x>>)
    BY <2>2, <2>3, OneWord
  <2>5. Untagged(head) /\ Silent(head) /\ s = (head \o <<x>>) \o words
    BY <1>4, <2>3, <2>4
  <2>6. Untagged(head \o <<x>>) /\ Silent(head \o <<x>>)
    BY <2>4, <2>5, TwoUntagged, TwoSilent
  <2>7. ~SetOff(line)
    <3>1. Last(<<x>>) = x /\ <<x>> # <<>>
      BY DEF Last
    <3>2. QED  BY <2>2, <2>3, <3>1 DEF SetOff
  <2>8. QED  BY <2>5, <2>6, <2>7, NoLeadCuts DEF s, words
<1>9. QED  BY <1>5, <1>6, <1>7, <1>8 DEF AllLeads, Leads

\* What a bug is filed under when its data looks like data.
Stem(bug) == [i \in DOMAIN bug |-> IF bug[i] \in DataSlots THEN Datum(bug[i]) ELSE Spoken(bug[i])]

\* An issue tells what its bug tells, or what follows its class, and has no other print
\* if it was told steadily.
Attributed(a) ==
  /\ a.bug \in Bugs
  /\ \E form \in Forms(a.bug) :
       Only(a.print, Telling) = Heard(Only(form, Said)) /\ (a.steady => a.print = Stem(form))

GroupingInv == (\A a \in issues : Attributed(a)) /\ LevelsAgree

LEMMA PlaceholderIs ==
  ASSUME NEW slot \in Slots, NEW w \in Surfaces(slot), slot \in {"id", "path"} => w = Datum(slot)
  PROVE  Collapsed(w) = IF slot \in DataSlots THEN Datum(slot) ELSE Spoken(slot)
<1>1. CASE slot \in {"id", "path"}
  <2>1. w = Datum(slot) /\ slot \in DataSlots
    BY <1>1 DEF DataSlots
  <2>2. QED  BY <1>1, <2>1 DEF Collapsed, Datum
<1>2. CASE slot = "number" \/ slot = "name"
  <2>1. w = Datum(slot)
    <3>1. CASE slot = "number"
      BY <3>1 DEF Surfaces, Fills
    <3>2. CASE slot = "name"
      BY <3>2 DEF Surfaces, Fills
    <3>3. QED  BY <1>2, <3>1, <3>2
  <2>2. slot \in DataSlots
    BY <1>2 DEF DataSlots
  <2>3. QED  BY <1>2, <2>1, <2>2 DEF Collapsed, Datum
<1>3. CASE slot \notin DataSlots
  <2>1. w = Spoken(slot) /\ w \in Telling /\ w \in Words
    BY <1>3, SurfaceIs
  <2>2. QED  BY <1>3, <2>1, CollapsedIs
<1>4. QED  BY <1>1, <1>2, <1>3 DEF DataSlots

LEMMA BugsAre == ASSUME NEW bug \in Bugs PROVE bug \in Seq(Slots)
BY GroupingAssumption

LEMMA SayingIsClassy ==
  ASSUME NEW bug \in Seq(Slots), NEW words, Says(words, bug)
  PROVE  Classy(words)
<1>1. \A i \in 1 .. Len(bug) : bug[i] \in Slots
  OBVIOUS
<1>2. \A i \in 1 .. Len(words) : words[i].text \notin Tags
  BY <1>1, SurfaceIs DEF Says
<1>3. QED  BY <1>2 DEF Says, Classy, Free, Holding, Tags

\* What follows the class, of a bug that names one.
LEMMA ClassesAre ==
  ASSUME NEW bug \in Seq(Slots), NamesAClass(bug)
  PROVE  \E k \in 1 .. Len(bug) :
           /\ k = Min({i \in DOMAIN bug : bug[i] \in Classes})
           /\ AfterClass(bug) \in Seq(Slots) /\ Len(AfterClass(bug)) = Len(bug) - k
           /\ \A j \in 1 .. Len(bug) - k : AfterClass(bug)[j] = bug[k + j] /\ k + j \in 1 .. Len(bug)
<1> DEFINE I == {i \in DOMAIN bug : bug[i] \in Classes}
<1>1. I # {} /\ I \subseteq 1 .. Len(bug) /\ Len(bug) \in Nat
  BY DEF NamesAClass, Range
<1>2. AfterClass(bug) = SubSeq(bug, 1 + Min(I), Len(bug))
  BY DEF AfterClass
<1> HIDE DEF I
<1>3. PICK k \in 1 .. Len(bug) : k = Min(I)
  BY <1>1, LeastIs
<1>4. AfterClass(bug) = SubSeq(bug, k + 1, Len(bug))
  BY <1>2, <1>3
<1>5. /\ SubSeq(bug, k + 1, Len(bug)) \in Seq(Slots) /\ Len(SubSeq(bug, k + 1, Len(bug))) = Len(bug) - k
      /\ \A j \in 1 .. Len(bug) - k : SubSeq(bug, k + 1, Len(bug))[j] = bug[k + j] /\ k + j \in 1 .. Len(bug)
  BY <1>3
<1>6. QED  BY <1>3, <1>4, <1>5 DEF I

\* Each word of a form says its slot as it does in the bug.
Echoes(u, form, words, bug) ==
  \A j \in 1 .. Len(form) : \E i \in 1 .. Len(bug) : form[j] = bug[i] /\ u[j] = words[i]

\* Words that name a class say a bug that does, and what follows it what follows it.
LEMMA TailSays ==
  ASSUME NEW bug \in Seq(Slots), NEW words, Says(words, bug), ~Free(words, "Error:")
  PROVE  LET u == After(words, "Error:")
             form == AfterClass(bug)
         IN NamesAClass(bug) /\ form \in Seq(Slots) /\ Says(u, form) /\ Echoes(u, form, words, bug)
<1> DEFINE u == After(words, "Error:")
           form == AfterClass(bug)
<1>1. PICK n \in Nat : n = Len(bug) /\ n = Len(words) /\ DOMAIN bug = 1 .. n /\ DOMAIN words = 1 .. n
  BY DEF Says
<1>2. words \in Seq(Words) /\ \A i \in 1 .. n : bug[i] \in Slots /\ words[i] \in Surfaces(bug[i])
  BY <1>1 DEF Says
<1>3. \A i \in 1 .. n : words[i].text \in Holding("Error:") <=> bug[i] \in Classes
  <2>1. \A i \in 1 .. n : words[i].text \notin Tags /\ (words[i].text \in Classes <=> bug[i] \in Classes)
    BY <1>2, SurfaceIs
  <2>2. QED  BY <2>1 DEF Holding, Tags
<1>4. {i \in DOMAIN words : words[i].text \in Holding("Error:")} = {i \in DOMAIN bug : bug[i] \in Classes}
  BY <1>1, <1>3
<1>5. NamesAClass(bug)
  <2>1. PICK i \in 1 .. n : words[i].text \in Holding("Error:")
    BY <1>1, <1>2 DEF Free
  <2>2. QED  BY <1>1, <1>3, <2>1 DEF NamesAClass, Range
<1>6. PICK k \in 1 .. n : /\ k = Min({i \in DOMAIN bug : bug[i] \in Classes})
                          /\ form \in Seq(Slots) /\ Len(form) = n - k
                          /\ \A j \in 1 .. n - k : form[j] = bug[k + j] /\ k + j \in 1 .. n
  BY <1>1, <1>5, ClassesAre
<1>7. u = SubSeq(words, k + 1, n)
  <2>1. u = SubSeq(words, 1 + k, n)
    BY <1>1, <1>4, <1>6 DEF After
  <2>2. 1 + k = k + 1
    BY <1>6
  <2>3. QED  BY <2>1, <2>2
<1> HIDE DEF u, form
<1>8. u \in Seq(Words) /\ Len(u) = n - k /\ \A j \in 1 .. n - k : u[j] = words[k + j]
  <2>1. words \in Seq(Words) /\ n = Len(words) /\ k \in 0 .. n
    BY <1>1, <1>2, <1>6
  <2>2. /\ SubSeq(words, k + 1, n) \in Seq(Words) /\ Len(SubSeq(words, k + 1, n)) = n - k
        /\ \A j \in 1 .. n - k : SubSeq(words, k + 1, n)[j] = words[k + j]
    BY <2>1, TailIs
  <2>3. QED  BY <1>7, <2>2
<1>9. \A j \in 1 .. Len(form) : u[j] \in Surfaces(form[j])
  BY <1>2, <1>6, <1>8
<1>10. Says(u, form)
  BY <1>6, <1>8, <1>9 DEF Says
<1>11. Echoes(u, form, words, bug)
  BY <1>1, <1>6, <1>8 DEF Echoes
<1>12. QED  BY <1>5, <1>6, <1>10, <1>11 DEF u, form

\* A title says a form of the bug.
LEMMA FormsAre ==
  ASSUME NEW bug \in Seq(Slots), NEW line, Says(line.words, bug), NEW before, NEW u, Titled(line, before, u)
  PROVE  \E form \in Forms(bug) : form \in Seq(Slots) /\ Says(u, form) /\ Echoes(u, form, line.words, bug)
<1>1. CASE u = line.words
  <2>1. bug \in Forms(bug) /\ Echoes(u, bug, line.words, bug)
    BY <1>1 DEF Forms, Echoes
  <2>2. QED  BY <1>1, <2>1
<1>2. CASE u = After(line.words, "Error:") /\ ~Free(line.words, "Error:")
  <2>1. /\ NamesAClass(bug) /\ AfterClass(bug) \in Seq(Slots) /\ Says(u, AfterClass(bug))
        /\ Echoes(u, AfterClass(bug), line.words, bug)
    BY <1>2, TailSays
  <2>2. AfterClass(bug) \in Forms(bug)
    BY <2>1 DEF Forms
  <2>3. QED  BY <2>1, <2>2
<1>3. QED  BY <1>1, <1>2 DEF Titled

\* What is recorded of a bug.
LEMMA PrintTells ==
  ASSUME NEW bug \in Bugs, NEW line, Says(line.words, bug), line.lead \in AllLeads
  PROVE  Attributed([print |-> Fingerprint(TitleOf(line)), bug |-> bug, steady |-> Steady(line, bug)])
<1> DEFINE title == TitleOf(line)
<1>1. bug \in Seq(Slots)
  BY BugsAre
<1>2. Classy(line.words)
  BY <1>1, SayingIsClassy
<1>3. PICK before, u : Titled(line, before, u)
  BY <1>2, TitleSays
<1>4. title = before \o u /\ before \in Seq(Words) /\ Silent(before) /\ u \in Seq(Words)
  BY <1>3 DEF Titled, Silent
<1>5. PICK form \in Forms(bug) : form \in Seq(Slots) /\ Says(u, form) /\ Echoes(u, form, line.words, bug)
  BY <1>1, <1>3, FormsAre
<1>6. Only(u, Telling) = Heard(Only(form, Said)) /\ Only(u, Telling) \in Seq(Words)
  <2>1. Only(u, Telling) = Heard(Only(form, Said))
    BY <1>5, BugsTell DEF Tells
  <2>2. Only(u, Telling) \in Seq(Words \cap Telling)
    BY <1>4, OnlyPasses
  <2>3. QED  BY <2>1, <2>2
<1> HIDE DEF title
<1>7. Only(Fingerprint(title), Telling) = Heard(Only(form, Said))
  <2>1. title \in Seq(Words)
    BY <1>4
  <2>2. Only(Fingerprint(title), Telling) = Only(title, Telling)
    BY <2>1, FingerprintTells
  <2>3. Only(before \o u, Telling) = Only(before, Telling) \o Only(u, Telling)
    BY <1>4, OnlyOfTwo
  <2>4. Only(before, Telling) = <<>>
    BY <1>4, SilentTellsNothing
  <2>5. <<>> \o Only(u, Telling) = Only(u, Telling)
    BY <1>6
  <2>6. QED  BY <1>4, <1>6, <2>2, <2>3, <2>4, <2>5
<1>8. ASSUME Steady(line, bug) PROVE Fingerprint(title) = Stem(form)
  <2>1. SetOff(line) /\ \A i \in DOMAIN bug : bug[i] \in {"id", "path"} => line.words[i] = Datum(bug[i])
    BY <1>8 DEF Steady, SetOff
  <2>2. before = <<>>
    BY <1>3, <2>1 DEF Titled
  <2>3. title = u
    BY <1>4, <2>2
  <2>4. PICK n \in Nat : n = Len(form) /\ DOMAIN form = 1 .. n
    BY <1>5
  <2>5. DOMAIN u = 1 .. n /\ \A i \in 1 .. n : form[i] \in Slots /\ u[i] \in Surfaces(form[i])
    BY <1>5, <2>4 DEF Says
  <2>6. \A i \in 1 .. n : form[i] \in {"id", "path"} => u[i] = Datum(form[i])
    BY <1>1, <1>5, <2>1, <2>4 DEF Echoes
  <2>7. \A i \in 1 .. n : Collapsed(u[i]) = IF form[i] \in DataSlots THEN Datum(form[i]) ELSE Spoken(form[i])
    BY <2>5, <2>6, PlaceholderIs
  <2>8. Fingerprint(u) = [i \in 1 .. n |-> Collapsed(u[i])]
    BY <2>5 DEF Fingerprint
  <2>9. Stem(form) = [i \in 1 .. n |-> IF form[i] \in DataSlots THEN Datum(form[i]) ELSE Spoken(form[i])]
    BY <2>4 DEF Stem
  <2>10. QED  BY <2>3, <2>7, <2>8, <2>9
<1>9. QED  BY <1>5, <1>7, <1>8 DEF Attributed, title

LEMMA RecordStays ==
  ASSUME \A a \in issues : Attributed(a), NEW bug \in Bugs, NEW line, Says(line.words, bug), line.lead \in AllLeads,
         Record(line, bug)
  PROVE  \A a \in issues' : Attributed(a)
<1> DEFINE new == [print |-> Fingerprint(TitleOf(line)), bug |-> bug, steady |-> Steady(line, bug)]
<1>1. issues' = issues \cup {new}
  BY DEF Record
<1>2. Attributed(new)
  BY PrintTells
<1> HIDE DEF new
<1>3. QED  BY <1>1, <1>2

LEMMA BareJoined ==
  ASSUME NEW X, NEW x \in X, NEW y \in X, NEW plain, NEW id
  PROVE  (IF plain THEN <<>> ELSE <<x>>) \o (IF id THEN <<y>> ELSE <<>>) \o <<>> \o <<>> \in Seq(X)
<1>1. <<>> \in Seq(X) /\ <<x>> \in Seq(X) /\ <<y>> \in Seq(X)
  OBVIOUS
<1>2. \A s, t \in Seq(X) : s \o t \in Seq(X)
  OBVIOUS
<1> DEFINE a == IF plain THEN <<>> ELSE <<x>>
           b == IF id THEN <<y>> ELSE <<>>
<1>3. a \in Seq(X) /\ b \in Seq(X)
  BY <1>1
<1> HIDE DEF a, b
<1>4. a \o b \in Seq(X)
  BY <1>2, <1>3
<1>5. (a \o b) \o <<>> \in Seq(X)
  BY <1>1, <1>2, <1>4
<1>6. (a \o b) \o <<>> \o <<>> \in Seq(X)
  BY <1>1, <1>2, <1>5
<1>7. QED  BY <1>6 DEF a, b

\* Of a line without a word nothing is said.
LEMMA BareSaysNothing ==
  ASSUME NEW line, NEW texts, line.lead = <<>>, line.words = <<>>, "" \notin texts
  PROVE  ~Mentions(Text(line), texts)
<1> DEFINE x == Datum("number")
           y == Datum("id")
<1>1. x.text = "" /\ y.text = ""
  BY DEF Datum
<1>2. Text(line) = (IF line.form = "plain" THEN <<>> ELSE <<x>>) \o (IF line.id THEN <<y>> ELSE <<>>) \o <<>> \o <<>>
  BY DEF Text
<1> DEFINE X == {x, y}
<1>3. x \in X /\ y \in X
  OBVIOUS
<1> HIDE DEF x, y, X
<1>4. Range(Text(line)) \subseteq {x, y}
  <2>1. Text(line) \in Seq(X)
    BY <1>2, <1>3, BareJoined
  <2>2. Range(Text(line)) \subseteq X
    BY <2>1, RangeIn
  <2>3. QED  BY <2>2 DEF X
<1>5. QED  BY <1>1, <1>4 DEF Mentions

\* What is shown as an error is what is taken.
LEMMA LevelsMeet ==
  ASSUME NEW line, NEW stream, line.lead \in Seq(Words), line.words \in Seq(Words)
  PROVE  (LevelOf(line, stream) = "error" /\ line.lead \o line.words # <<>>) <=> LooksLikeError(line, stream)
<1>1. line.lead \o line.words = <<>> <=> line.lead = <<>> /\ line.words = <<>>
  OBVIOUS
<1>2. CASE LevelDeclared(line) = "none"
  <2>1. LevelOf(line, stream) = "error" <=> LooksLikeError(line, stream)
    BY <1>2 DEF LevelOf
  <2>2. ASSUME LooksLikeError(line, stream) PROVE line.lead \o line.words # <<>>
    <3>1. Mentions(Text(line), Markers) \/ Mentions(Text(line), {"failed"})
      BY <1>2, <2>2 DEF LooksLikeError, HasMarkerWord
    <3>2. "" \notin Markers /\ "" \notin {"failed"}
      BY DEF Markers, Tags, Classes
    <3>3. QED  BY <1>1, <3>1, <3>2, BareSaysNothing
  <2>3. QED  BY <2>1, <2>2
<1>3. CASE LevelDeclared(line) # "none"
  <2>1. StripRequestId(line) = line.lead \o line.words
    BY <1>3 DEF StripRequestId
  <2>2. LevelOf(line, stream) = LevelDeclared(line)
    BY <1>3 DEF LevelOf
  <2>3. LooksLikeError(line, stream) <=> LevelDeclared(line) = "error" /\ line.lead \o line.words # <<>>
    BY <1>3, <2>1 DEF LooksLikeError, HasSubstance
  <2>4. QED  BY <2>2, <2>3
<1>4. QED  BY <1>2, <1>3

LEMMA LeadsAre == ASSUME NEW lead \in AllLeads PROVE lead \in Seq(Words)
<1>1. \A text \in Tags \cup ReportKinds \cup {"[app]"} : Word(text) \in Words
  BY DEF Word, Words, Vocabulary, Surroundings, Classes
<1>2. CASE lead = <<>>
  BY <1>2
<1>3. CASE \E text \in Tags \cup ReportKinds : lead = <<Word(text)>>
  <2>1. PICK text \in Tags \cup ReportKinds : lead = <<Word(text)>>
    BY <1>3
  <2>2. Word(text) \in Words
    BY <1>1
  <2>3. QED  BY <2>1, <2>2
<1>4. CASE lead = <<Word("[app]"), Word("Error:")>>
  <2>1. Word("[app]") \in Words /\ Word("Error:") \in Words
    BY <1>1 DEF Tags
  <2>2. QED  BY <1>4, <2>1
<1>5. QED  BY <1>2, <1>3, <1>4 DEF AllLeads, Leads

LEMMA LoggedStays ==
  ASSUME GroupingInv, NEW bug \in Bugs, NEW words \in Phrasings(bug), NEW form, NEW word, NEW id, NEW lead \in Leads,
         NEW stream, Logged(Line(form, word, id, lead, words), bug, stream)
  PROVE  GroupingInv'
<1> DEFINE line == Line(form, word, id, lead, words)
<1>1. line.lead = lead /\ line.words = words
  BY DEF Line
<1>2. Says(words, bug) /\ words \in Seq(Words)
  BY BugsAre, PhrasingsSay DEF Says
<1>3. lead \in AllLeads /\ lead \in Seq(Words)
  BY LeadsAre DEF AllLeads
<1>4. /\ last' = [level |-> LevelOf(line, stream), taken |-> LooksLikeError(line, stream), bare |-> line.lead \o line.words = <<>>]
      /\ Record(line, bug) \/ UNCHANGED issues
  BY DEF Logged
<1> HIDE DEF line
<1>5. \A a \in issues' : Attributed(a)
  <2>1. CASE Record(line, bug)
    BY <1>1, <1>2, <1>3, <2>1, RecordStays DEF GroupingInv
  <2>2. CASE UNCHANGED issues
    BY <2>2 DEF GroupingInv
  <2>3. QED  BY <1>4, <2>1, <2>2
<1>6. (LevelOf(line, stream) = "error" /\ line.lead \o line.words # <<>>) <=> LooksLikeError(line, stream)
  BY <1>1, <1>2, <1>3, LevelsMeet
<1>7. LevelsAgree'
  BY <1>4, <1>6 DEF LevelsAgree
<1>8. QED  BY <1>5, <1>7 DEF GroupingInv, Attributed

LEMMA ReportedStays ==
  ASSUME GroupingInv, NEW bug \in Bugs, NEW words \in Phrasings(bug), NEW kind \in ReportKinds, Reported(kind, bug, words)
  PROVE  GroupingInv'
<1> DEFINE line == IntoEvent(kind, words)
<1>1. line.lead = <<Word(kind)>> /\ line.words = words
  BY DEF IntoEvent, Line
<1>2. Says(words, bug)
  BY BugsAre, PhrasingsSay
<1>3. Record(line, bug) /\ UNCHANGED last
  BY DEF Reported
<1> HIDE DEF line
<1>4. line.lead \in AllLeads
  BY <1>1 DEF AllLeads
<1>5. \A a \in issues' : Attributed(a)
  BY <1>1, <1>2, <1>3, <1>4, RecordStays DEF GroupingInv
<1>6. QED  BY <1>3, <1>5 DEF GroupingInv, Attributed, LevelsAgree

LEMMA GroupingStep == GroupingInv /\ [GroupingNext]_groupingVars => GroupingInv'
<1> SUFFICES ASSUME GroupingInv, [GroupingNext]_groupingVars PROVE GroupingInv'
  OBVIOUS
<1>1. CASE GroupingNext
  <2>1. PICK bug \in Bugs : \E words \in Phrasings(bug) :
          \/ \E form \in DOMAIN Declared : \E word \in DOMAIN Declared[form], id \in BOOLEAN, lead \in Leads,
               stream \in {"stdout", "stderr"} : Logged(Line(form, word, id, lead, words), bug, stream)
          \/ \E kind \in ReportKinds : Reported(kind, bug, words)
    BY <1>1 DEF GroupingNext
  <2>2. PICK words \in Phrasings(bug) :
          \/ \E form \in DOMAIN Declared : \E word \in DOMAIN Declared[form], id \in BOOLEAN, lead \in Leads,
               stream \in {"stdout", "stderr"} : Logged(Line(form, word, id, lead, words), bug, stream)
          \/ \E kind \in ReportKinds : Reported(kind, bug, words)
    BY <2>1
  <2>3. QED  BY <2>2, LoggedStays, ReportedStays
<1>2. CASE UNCHANGED groupingVars
  BY <1>2 DEF groupingVars, GroupingInv, Attributed, LevelsAgree
<1>3. QED  BY <1>1, <1>2

LEMMA GroupingBegins == GroupingInit => GroupingInv
BY DEF GroupingInit, GroupingInv, LevelsAgree

LEMMA FormsAreOfSlots ==
  ASSUME NEW bug \in Bugs, NEW form \in Forms(bug)
  PROVE  /\ form \in Seq(Slots) /\ (form = bug \/ (NamesAClass(bug) /\ Len(form) < Len(bug)))
         /\ Stem(form) \in Seq(Words) /\ Len(Stem(form)) = Len(form)
<1>1. bug \in Seq(Slots)
  BY BugsAre
<1>2. form \in Seq(Slots) /\ (form = bug \/ (NamesAClass(bug) /\ Len(form) < Len(bug)))
  <2>1. CASE form = bug
    BY <1>1, <2>1
  <2>2. CASE NamesAClass(bug) /\ form = AfterClass(bug)
    <3>1. PICK k \in 1 .. Len(bug) : AfterClass(bug) \in Seq(Slots) /\ Len(AfterClass(bug)) = Len(bug) - k
      BY <1>1, <2>2, ClassesAre
    <3>2. Len(bug) - k < Len(bug)
      BY <1>1
    <3>3. QED  BY <2>2, <3>1, <3>2
  <2>3. QED  BY <2>1, <2>2 DEF Forms
<1>3. \A slot \in Slots : Spoken(slot) \in Words
  BY DEF Spoken, Words, Vocabulary, Word
<1>4. \A slot \in DataSlots : Datum(slot) \in Words
  BY DEF Datum, Words, Vocabulary, DataSlots
<1>5. Stem(form) \in Seq(Words) /\ Len(Stem(form)) = Len(form)
  BY <1>2, <1>3, <1>4 DEF Stem
<1>6. QED  BY <1>2, <1>5

\* What two issues of one print say, of their bugs.
LEMMA SamePrintSaysTheSame ==
  ASSUME GroupingInv, NEW a \in issues, NEW b \in issues, a.print = b.print
  PROVE  \E s \in Forms(a.bug), t \in Forms(b.bug) : Only(s, Said) = Only(t, Said)
<1>1. a.bug \in Bugs /\ b.bug \in Bugs
  BY DEF GroupingInv, Attributed
<1>2. PICK s \in Forms(a.bug), t \in Forms(b.bug) : Heard(Only(s, Said)) = Heard(Only(t, Said))
  BY DEF GroupingInv, Attributed
<1>3. \A x \in Seq(Slots) : Only(x, Said) \in Seq(Slots)
  <2> SUFFICES ASSUME NEW x \in Seq(Slots) PROVE Only(x, Said) \in Seq(Slots)
    OBVIOUS
  <2>1. Only(x, Said) \in Seq(Slots \cap Said)
    BY OnlyPasses
  <2>2. QED  BY <2>1
<1>4. Only(s, Said) \in Seq(Slots) /\ Only(t, Said) \in Seq(Slots)
  BY <1>1, <1>3, FormsAreOfSlots
<1>5. Only(s, Said) = Only(t, Said)
  BY <1>2, <1>4, HeardApart
<1>6. QED  BY <1>5

\* The bugs of issues, from what their prints tell.
LEMMA IssuesTellBugs == GroupingInv => IssuesAreBugs
<1> SUFFICES ASSUME GroupingInv PROVE IssuesAreBugs
  OBVIOUS
<1>1. OneIssueForABug
  <2> SUFFICES ASSUME NEW a \in issues, NEW b \in issues, a.bug = b.bug, a.steady, b.steady
               PROVE  a.print = b.print \/ (NamesAClass(a.bug) /\ Len(a.print) # Len(b.print))
    BY DEF OneIssueForABug
  <2>1. a.bug \in Bugs
    BY DEF GroupingInv, Attributed
  <2>2. PICK s \in Forms(a.bug), t \in Forms(a.bug) : a.print = Stem(s) /\ b.print = Stem(t)
    BY DEF GroupingInv, Attributed
  <2>3. CASE s = t
    BY <2>2, <2>3
  <2>4. CASE s # t
    <3>1. NamesAClass(a.bug) /\ ((s = a.bug /\ t = AfterClass(a.bug)) \/ (t = a.bug /\ s = AfterClass(a.bug)))
      BY <2>4 DEF Forms
    <3>2. Len(s) # Len(t)
      BY <2>1, <2>4, <3>1, FormsAreOfSlots
    <3>3. Len(a.print) # Len(b.print)
      BY <2>1, <2>2, <3>2, FormsAreOfSlots
    <3>4. QED  BY <3>1, <3>3
  <2>5. QED  BY <2>3, <2>4
<1>2. OneBugForAnIssue
  <2> SUFFICES ASSUME NEW a \in issues, NEW b \in issues, a.print = b.print, a.bug # b.bug
               PROVE  \E s \in Forms(a.bug), t \in Forms(b.bug) :
                        /\ NamesAClass(a.bug) \/ NamesAClass(b.bug)
                        /\ Only(s, Slots \ DataSlots) = Only(t, Slots \ DataSlots)
    BY DEF OneBugForAnIssue
  <2>1. a.bug \in Bugs /\ b.bug \in Bugs
    BY DEF GroupingInv, Attributed
  <2>2. PICK s \in Forms(a.bug), t \in Forms(b.bug) : Only(s, Said) = Only(t, Said)
    BY SamePrintSaysTheSame
  <2>3. NamesAClass(a.bug) \/ NamesAClass(b.bug)
    <3>1. ~NamesAClass(a.bug) /\ ~NamesAClass(b.bug) => s = a.bug /\ t = b.bug
      BY DEF Forms
    <3>2. QED  BY <2>1, <2>2, <3>1, GroupingAssumption DEF Said
  <2>4. QED  BY <2>2, <2>3 DEF Said
<1>3. QED  BY <1>1, <1>2 DEF IssuesAreBugs, GroupingInv

\* For any bugs that differ in more than their data, however they are logged and
\* reported: each has one issue and an issue one bug, but for the classes that title_of
\* takes for tags, and what is shown as an error is what is filed (fingerprint,
\* title_of, level_of, looks_like_error).
THEOREM BugsHaveTheirIssues == GroupingSpec => []IssuesAreBugs
<1>1. GroupingSpec => []GroupingInv
  BY GroupingBegins, GroupingStep, PTL DEF GroupingSpec
<1>2. QED  BY <1>1, IssuesTellBugs, PTL
=============================================================================
