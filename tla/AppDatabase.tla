---------------------------- MODULE AppDatabase ----------------------------
(***************************************************************************)
(* A project's managed Postgres, the DATABASE_URL that leads to it, and    *)
(* the .env file the app reads it from (src/src/server.rs, the database    *)
(* and env handlers and the start of do_provision; src/src/db.rs; tables   *)
(* databases and env_vars).                                                *)
(*                                                                         *)
(* The truth is spread over five places: docker's container and volume,    *)
(* the row, the variable, the file.  A handler changes them one call at a  *)
(* time, so each request has a program counter; the calls of requests in   *)
(* flight interleave and a restart loses them where they stand.            *)
(***************************************************************************)
EXTENDS Naturals, FiniteSets

CONSTANTS
  Passwords,   \* the passwords generate_password returns, each of them once
  Typed,       \* a connection string typed by hand
  Unset,       \* no password, no variable
  Requests,    \* slots for requests in flight
  Faults,      \* "restart", "docker", "store" (a write to the tables fails)
  MaxFaults,   \* bound: the faults in one behaviour
  MaxBegun     \* bound: the requests in one behaviour

ASSUME Naming == Unset \notin Passwords /\ Typed \notin Passwords \cup {Unset}

ASSUME Bounds == MaxFaults \in Nat /\ MaxBegun \in Nat

VARIABLES
  row,         \* table databases: the kind and password of the project's row
  url,         \* table env_vars: DATABASE_URL and whether webo manages it
  container,   \* docker: the password <app>-db was created with
  volume,      \* docker: the password <app>-db-data was initialised with
  file,        \* DATABASE_URL in <app>/deploy/.env
  sqlite,      \* a SQLite file sits in a volume of the app
  req,         \* the requests in flight
  used,        \* history: passwords generated
  stored,      \* history: passwords that were stored in the row
  causes,      \* history: what went wrong, was left undone or came too late
  begun,       \* history: how many requests
  faults       \* history: how many faults

vars == <<row, url, container, volume, file, sqlite, req, used, stored, causes, begun, faults>>

Secrets == Passwords \cup {Unset}
Values == Passwords \cup {Typed, Unset}
Kinds == {"none", "postgres", "sqlite"}
Ops == {"idle", "create", "provision", "drop", "set", "delete", "get"}
Steps == {"idle", "create", "store", "seturl", "external", "check", "set", "vars", "write",
          "drop", "volume", "forget", "unset", "detect"}
NoRow == [kind |-> "none", pw |-> Unset]
NoUrl == [managed |-> FALSE, value |-> Unset]
Idle == [op |-> "idle", pc |-> "idle", pw |-> Unset, value |-> Unset]

-----------------------------------------------------------------------------
(* Requests *)

BeginWith(r, op, pc, pw) ==
  /\ req[r].op = "idle" /\ begun < MaxBegun /\ begun' = begun + 1
  /\ req' = [req EXCEPT ![r] = [op |-> op, pc |-> pc, pw |-> pw, value |-> Unset]]
Begin(r, op, pc) == BeginWith(r, op, pc, Unset)

At(r, pc) == req[r].pc = pc
Carry(r, pc, pw, value) ==
  req' = [req EXCEPT ![r] = [op |-> req[r].op, pc |-> pc, pw |-> pw, value |-> value]]
Go(r, pc) == Carry(r, pc, req[r].pw, req[r].value)
Done(r) == req' = [req EXCEPT ![r] = Idle]
Fault(kind) == kind \in Faults /\ faults < MaxFaults /\ faults' = faults + 1
Quiet(pcs) == \A r \in Requests : req[r].pc \notin pcs

Blame(why, when) == causes' = causes \cup {c \in {why} : when}

\* The variable changes, and with it what was so of it: a request about to write
\* the file has read it before; one webo manages is written over by hand; or the
\* database it is of is gone by now.
UrlBecomes(r, u) ==
  /\ url' = u
  /\ causes' = causes \cup
       {c \in {"overtaken"} : u # url /\ \E q \in Requests \ {r} : At(q, "write")} \cup
       {c \in {"overwritten"} : url.managed /\ ~u.managed} \cup
       {c \in {"raced"} : At(r, "seturl") /\ req[r].pw # container}

-----------------------------------------------------------------------------
(* Creating: database_create, and do_provision before its commit *)

\* A project has one database.
Create(r) ==
  /\ row.kind = "none" /\ Begin(r, "create", "create")
  /\ UNCHANGED <<row, url, container, volume, file, sqlite, used, stored, causes, faults>>

\* do_provision with db: "managed", "external" or neither.
Provision(r, db) ==
  /\ Begin(r, "provision", IF db = "managed" /\ row.kind = "none" THEN "create"
                           ELSE IF db = "external" THEN "external" ELSE "check")
  /\ UNCHANGED <<row, url, container, volume, file, sqlite, used, stored, causes, faults>>

\* create_postgres: a new password goes to a new container.  Postgres takes it
\* only to initialise an empty volume.
CreateContainer(r, pw) ==
  /\ At(r, "create") /\ container = Unset /\ pw \notin used
  /\ container' = pw /\ used' = used \cup {pw}
  /\ volume' = IF volume = Unset THEN pw ELSE volume
  /\ Carry(r, "store", pw, req[r].value)
  /\ UNCHANGED <<row, url, file, sqlite, stored, causes, begun, faults>>

\* 409: "database container already exists".
ContainerExists(r) ==
  /\ At(r, "create") /\ container # Unset /\ Done(r)
  /\ UNCHANGED <<row, url, container, volume, file, sqlite, used, stored, causes, begun, faults>>

\* Docker creates the container and fails to start it, or fails at once.
CreateFails(r, pw) ==
  /\ At(r, "create") /\ Fault("docker") /\ container = Unset /\ pw \notin used
  /\ \/ container' = pw /\ used' = used \cup {pw}
     \/ UNCHANGED <<container, used>>
  /\ Done(r) /\ causes' = causes \cup {"docker"}
  /\ UNCHANGED <<row, url, volume, file, sqlite, stored, begun>>

\* Mutant: the row is left for later.
StoreRow_Later(r) ==
  /\ At(r, "store") /\ Go(r, "seturl")
  /\ UNCHANGED <<row, url, container, volume, file, sqlite, used, stored, causes, begun, faults>>

\* set_database
StoreRow(r) ==
  /\ At(r, "store")
  /\ row' = [kind |-> "postgres", pw |-> req[r].pw]
  /\ stored' = stored \cup {req[r].pw} /\ Go(r, "seturl")
  /\ Blame("raced", req[r].pw # container)
  /\ UNCHANGED <<url, container, volume, file, sqlite, used, begun, faults>>

\* Mutant: a variable webo manages is never written over.
SetUrl_OnlyOnce(r) ==
  /\ At(r, "seturl")
  /\ UrlBecomes(r, IF url.managed THEN url ELSE [managed |-> TRUE, value |-> req[r].pw])
  /\ Go(r, IF req[r].op = "create" THEN "vars" ELSE "check")
  /\ UNCHANGED <<row, container, volume, file, sqlite, used, stored, begun, faults>>

\* set_env("DATABASE_URL", url, managed)
SetUrl(r) ==
  /\ At(r, "seturl")
  /\ UrlBecomes(r, [managed |-> TRUE, value |-> req[r].pw])
  /\ Go(r, IF req[r].op = "create" THEN "vars" ELSE "check")
  /\ UNCHANGED <<row, container, volume, file, sqlite, used, stored, begun, faults>>

\* db: "external" writes the connection string it was given.
SetExternal(r) ==
  /\ At(r, "external")
  /\ UrlBecomes(r, [managed |-> FALSE, value |-> Typed]) /\ Go(r, "check")
  /\ UNCHANGED <<row, container, volume, file, sqlite, used, stored, begun, faults>>

-----------------------------------------------------------------------------
(* Variables and the file: env_set, env_delete, materialize_env *)

EnvSet(r) ==
  /\ Begin(r, "set", "check")
  /\ UNCHANGED <<row, url, container, volume, file, sqlite, used, stored, causes, faults>>

\* A managed variable is refused (env_set) or passed over (do_provision, which
\* may also carry no such variable at all).
CheckManaged(r) ==
  /\ At(r, "check")
  /\ \/ ~url.managed /\ Go(r, "set")
     \/ url.managed /\ req[r].op = "set" /\ Done(r)
     \/ req[r].op = "provision" /\ Go(r, "vars")
  /\ UNCHANGED <<row, url, container, volume, file, sqlite, used, stored, causes, begun, faults>>

SetTyped(r) ==
  /\ At(r, "set")
  /\ UrlBecomes(r, [managed |-> FALSE, value |-> Typed]) /\ Go(r, "vars")
  /\ UNCHANGED <<row, container, volume, file, sqlite, used, stored, begun, faults>>

\* Mutant: the file is not written after a deletion.
EnvDelete_NoFile(r) ==
  /\ ~url.managed /\ url.value # Unset
  /\ req[r].op = "idle" /\ UrlBecomes(r, NoUrl)
  /\ UNCHANGED <<row, container, volume, file, sqlite, req, used, stored, begun, faults>>

\* delete_env takes hand-made variables only.
EnvDelete(r) ==
  /\ ~url.managed /\ url.value # Unset
  /\ Begin(r, "delete", "vars") /\ UrlBecomes(r, NoUrl)
  /\ UNCHANGED <<row, container, volume, file, sqlite, used, stored, faults>>

\* materialize_env reads the variables, then a helper container writes them.
ReadVars(r) ==
  /\ At(r, "vars")
  /\ Carry(r, "write", req[r].pw, url.value)
  /\ UNCHANGED <<row, url, container, volume, file, sqlite, used, stored, causes, begun, faults>>

WriteFile(r) ==
  /\ At(r, "write") /\ file' = req[r].value /\ Done(r)
  /\ UNCHANGED <<row, url, container, volume, sqlite, used, stored, causes, begun, faults>>

\* The answer says env_written: false and nothing else happens.
WriteFails(r) ==
  /\ At(r, "write") /\ Fault("docker") /\ Done(r) /\ causes' = causes \cup {"docker"}
  /\ UNCHANGED <<row, url, container, volume, file, sqlite, used, stored, begun>>

-----------------------------------------------------------------------------
(* Dropping: database_drop *)

\* The row is read once; what follows goes by the container's name.  A row that
\* took the Postgres for a SQLite file no longer says that there is one.
Drop(r) ==
  /\ row.kind # "none"
  /\ BeginWith(r, "drop", IF row.kind = "postgres" THEN "drop" ELSE "forget", row.pw)
  /\ Blame("hidden", row.kind = "sqlite" /\ row.pw # Unset)
  /\ UNCHANGED <<row, url, container, volume, file, sqlite, used, stored, faults>>

\* drop_postgres removes whatever container has the name, which may be newer
\* than the row that was read.
RemoveContainer(r) ==
  /\ At(r, "drop") /\ container' = Unset /\ Go(r, "volume")
  /\ Blame("raced", container \notin {Unset, req[r].pw})
  /\ UNCHANGED <<row, url, volume, file, sqlite, used, stored, begun, faults>>

\* Mutant: the volume is left for the next container.
RemoveVolume_Keeps(r) ==
  /\ At(r, "volume") /\ Go(r, "forget")
  /\ UNCHANGED <<row, url, container, volume, file, sqlite, used, stored, causes, begun, faults>>

\* Then the volume, unless a container has been created on it since.
RemoveVolume(r) ==
  /\ At(r, "volume") /\ Go(r, "forget")
  /\ volume' = IF container = Unset THEN Unset ELSE volume
  /\ Blame("kept", volume' # Unset)
  /\ UNCHANGED <<row, url, container, file, sqlite, used, stored, begun, faults>>

\* The failures of both are not looked at.
RemoveFails(r) ==
  /\ Fault("docker")
  /\ \/ At(r, "drop") /\ Go(r, "volume") /\ causes' = causes \cup {"docker"}
     \/ At(r, "volume") /\ Go(r, "forget") /\ causes' = causes \cup {"docker", "kept"}
  /\ UNCHANGED <<row, url, container, volume, file, sqlite, used, stored, begun>>

\* delete_database, even of a row that is newer than the one read.
ForgetRow(r) ==
  /\ At(r, "forget") /\ row' = NoRow /\ Go(r, "unset")
  /\ Blame("raced", row.pw # req[r].pw)
  /\ UNCHANGED <<url, container, volume, file, sqlite, used, stored, begun, faults>>

\* delete_env("DATABASE_URL"), which takes hand-made variables only; the file
\* is not written.
UnsetUrl(r) ==
  /\ At(r, "unset")
  /\ IF url.managed \/ url.value = Unset
     THEN UNCHANGED <<url, causes>>
     ELSE url' = NoUrl /\ causes' = causes \cup {"unsaid"}
  /\ Done(r)
  /\ UNCHANGED <<row, container, volume, file, sqlite, used, stored, begun, faults>>

-----------------------------------------------------------------------------
(* Looking: database_get *)

\* No row: a SQLite file may be there to be found.
Get(r) ==
  /\ row.kind = "none" /\ Begin(r, "get", "detect")
  /\ UNCHANGED <<row, url, container, volume, file, sqlite, used, stored, causes, faults>>

\* Found, it is stored, whatever the row has become meanwhile; the upsert keeps
\* the password that was there.
Detect(r) ==
  /\ At(r, "detect")
  /\ row' = IF sqlite THEN [kind |-> "sqlite", pw |-> row.pw] ELSE row
  /\ Done(r)
  /\ UNCHANGED <<url, container, volume, file, sqlite, used, stored, causes, begun, faults>>

-----------------------------------------------------------------------------

\* The results of the writes are dropped (`let _ =`): a handler whose write
\* fails goes on as if it had not.
WriteIsLost(r) ==
  /\ Fault("store")
  /\ causes' = causes \cup {"store"} \cup {c \in {"halfway"} : At(r, "forget")}
                           \cup {c \in {"torn"} : At(r, "store") \/ At(r, "seturl")}
  /\ \/ At(r, "store") /\ Go(r, "seturl")
     \/ At(r, "seturl") /\ Go(r, IF req[r].op = "create" THEN "vars" ELSE "check")
     \/ At(r, "external") /\ Go(r, "check")
     \/ At(r, "set") /\ Go(r, "vars")
     \/ At(r, "forget") /\ Go(r, "unset")
     \/ (At(r, "unset") \/ At(r, "detect")) /\ Done(r)
  /\ UNCHANGED <<row, url, container, volume, file, sqlite, used, stored, begun>>

\* The server stops and starts: every request in flight is gone.
Restart ==
  /\ Fault("restart") /\ \E r \in Requests : req[r] # Idle
  /\ req' = [r \in Requests |-> Idle]
  /\ causes' = causes \cup {"lost"} \cup {c \in {"halfway"} : ~Quiet({"volume", "forget"})}
                           \cup {c \in {"torn"} : ~Quiet({"seturl"})}
                           \cup {c \in {"kept"} : ~Quiet({"volume"})}
  /\ UNCHANGED <<row, url, container, volume, file, sqlite, used, stored, begun>>

Init ==
  /\ row = NoRow /\ url = NoUrl
  /\ container = Unset /\ volume = Unset /\ file = Unset
  /\ sqlite \in BOOLEAN
  /\ req = [r \in Requests |-> Idle]
  /\ used = {} /\ stored = {} /\ causes = {} /\ begun = 0 /\ faults = 0

Handle(r) ==
  \/ Create(r) \/ EnvSet(r) \/ EnvDelete(r) \/ Drop(r) \/ Get(r)
  \/ \E db \in {"managed", "external", "neither"} : Provision(r, db)
  \/ \E pw \in Passwords : CreateContainer(r, pw) \/ CreateFails(r, pw)
  \/ ContainerExists(r) \/ StoreRow(r) \/ SetUrl(r) \/ SetExternal(r)
  \/ CheckManaged(r) \/ SetTyped(r) \/ ReadVars(r) \/ WriteFile(r) \/ WriteFails(r)
  \/ RemoveContainer(r) \/ RemoveVolume(r) \/ RemoveFails(r) \/ ForgetRow(r) \/ UnsetUrl(r)
  \/ Detect(r) \/ WriteIsLost(r)

Next == Restart \/ \E r \in Requests : Handle(r)

Spec == Init /\ [][Next]_vars

-----------------------------------------------------------------------------
(* Properties *)

TypeOK ==
  /\ row \in [kind: Kinds, pw: Secrets]
  /\ url \in [managed: BOOLEAN, value: Values]
  /\ container \in Secrets /\ volume \in Secrets /\ file \in Values
  /\ sqlite \in BOOLEAN
  /\ req \in [Requests -> [op: Ops, pc: Steps, pw: Secrets, value: Values]]
  /\ used \subseteq Passwords /\ stored \subseteq Secrets
  /\ begun \in 0 .. MaxBegun /\ faults \in 0 .. MaxFaults
  /\ causes \subseteq {"lost", "docker", "store", "overtaken", "unsaid",
                     "raced", "kept", "halfway", "torn", "overwritten", "hidden"}

\* What webo gives the app to connect with is in webo's own table first: no
\* stop in the middle, and no other request, leaves the app with a database
\* that webo does not know; only a write that failed unnoticed does.
CredentialsAreKnown ==
  "store" \notin causes =>
    /\ url.managed => url.value \in stored
    /\ file \in Passwords => file \in stored

\* None of the causes named.
Never(named) == causes \cap named = {}

\* A row leads to the container that is there and to a volume that takes the
\* stored password, even where a SQLite file found meanwhile changed its kind.
\* Restarts, and calls to docker that fail, leave containers without a row, but
\* never a row with another container, except for what a drop left half done,
\* for a volume that outlived its container, and for drops and creations that
\* crossed: one removed, stored or forgot what was no longer the one it meant.
RowHasItsContainer ==
  row.pw # Unset /\ Never({"raced", "halfway"}) /\ Quiet({"volume", "forget"}) =>
    container = row.pw /\ (Never({"kept"}) => volume = row.pw)

\* A container that is there, with nobody about to store it, has its row.
ContainerHasItsRow ==
  container # Unset /\ Never({"raced", "hidden", "lost", "docker", "store"}) /\ Quiet({"store"}) =>
    row.pw = container

\* The variable of a project with such a row is the one webo manages and opens
\* its database, even when an earlier database left its own behind, unless it
\* was never written or a hand wrote over it.
UrlOpensTheDatabase ==
  row.pw # Unset /\ Never({"raced", "torn"}) /\ Quiet({"seturl"}) =>
    /\ url.managed => url.value = row.pw
    /\ Never({"overwritten"}) => url.managed

\* From the variable to the volume, the row's database is the one that is reached.
DatabaseIsReached == RowHasItsContainer /\ ContainerHasItsRow /\ UrlOpensTheDatabase

\* Once every request is answered the app's file says what the table says,
\* unless a write failed, was overtaken, or database_drop took a hand-made
\* variable.
FileFollowsTheTable ==
  Never({"lost", "docker", "store", "overtaken", "unsaid"}) /\ Quiet(Steps \ {"idle"}) =>
    file = url.value
=============================================================================
