-------------------------------- MODULE Agent --------------------------------
(***************************************************************************)
(* What an agent does through MCP (src/src/mcp.rs): a call is routed to    *)
(* its tool, the tool changes the server step by step, and a line about a  *)
(* call that writes goes to webo's own log before the answer goes out.     *)
(*                                                                         *)
(* One project.  What a step does inside is for the modules of the parts   *)
(* it calls (Backups, IssueTracker, AppDatabase, Domains, Projects,        *)
(* FirstDeploy); here it adds to the things on the server or loses some.   *)
(***************************************************************************)
EXTENDS Integers, FiniteSets, Sequences

CONSTANTS
  Calls,      \* requests an agent sends
  CallFaults, \* "step", "hangup", "panic", "restart"
  MaxFaults,  \* bound: how many happen
  MaxPanel    \* bound: what people do at the panel meanwhile

ASSUME AgentAssumption == MaxFaults \in Nat /\ MaxPanel \in Nat

VARIABLES
  things,   \* what the project has on the server
  call,     \* the calls
  lines,    \* webo's log: a line per call audited
  answers,  \* what each call was answered, or "none"
  changed,  \* history: the calls that have changed something
  lost,     \* history: what calls have lost
  faults,   \* history: how many
  panel     \* history: how many changes at the panel

agentVars == <<things, call, lines, answers, changed, lost, faults, panel>>

-----------------------------------------------------------------------------
(* The catalogue *)

\* The tools declared by tool(...).
ReadOnlyHint ==
  {"server_health", "server_processes", "list_projects", "project_status", "project_metrics",
   "search_logs", "tail_logs", "list_errors", "db_info", "db_rows", "error_detail"}

\* The tools declared by write_tool(...), with the word that asks for each change.
WriteActions ==
  [db_query |-> {"read", "change", "write"}, db_backup |-> {"list", "create", "restore"},
   triage_errors |-> {"resolve", "delete"}, create_project |-> {"create"},
   deploy_project |-> {"deploy"}, project_env |-> {"list", "set", "delete"},
   connect_domain |-> {"connect", "disconnect"}, delete_project |-> {"delete"}]

\* The tools audit writes a line for.
WRITE_TOOLS ==
  {"db_query", "db_backup", "triage_errors", "create_project", "deploy_project",
   "project_env", "connect_domain", "delete_project"}

\* Where the secrets of a call are, when its arguments are an object: the address of
\* a database and the values of env, the value of a variable, a password in SQL.
Holds(a) ==
  IF a.action = "deploy" THEN {"database_url", "env"}
  ELSE IF a.action = "set" THEN {"value"} ELSE IF a.tool = "db_query" THEN {"sql"} ELSE {}

\* One of the readers stands for all of them; a confirmation is a flag or the slug.
\* The arguments may be no object, and env in them may be none.
Asks ==
  {a \in [tool : {"project_status"} \cup DOMAIN WriteActions,
          action : {"show"} \cup UNION {WriteActions[t] : t \in DOMAIN WriteActions},
          confirm : {"no", "true", "slug"}, form : {"object", "odd_env", "odd"}, id : BOOLEAN] :
     /\ a.action \in IF a.tool \in DOMAIN WriteActions THEN WriteActions[a.tool] ELSE {"show"}
     /\ a.confirm # "no" => a.action \in {"restore", "delete"} /\ a.tool # "project_env"
     /\ a.form = "odd_env" => "env" \in Holds(a)
     /\ a.form = "odd" => Holds(a) # {}}

SecretsIn(a) == IF a.form = "odd" THEN {"arguments"} ELSE Holds(a)

\* redact: only an object's values are hidden, in the arguments and in env.
Redacted(a, holds) ==
  IF a.form = "odd" THEN holds
  ELSE holds \ ({"value", "database_url"} \cup IF a.form = "odd_env" THEN {} ELSE {"env"})

-----------------------------------------------------------------------------
(* The tools: the steps a call may come to, after its checks *)

Refusal == <<>>

\* A change needs write:true, and a dump of a Postgres before it; SQLite has none.
DbQuery(a) ==
  IF a.action = "write" THEN {<<"dump", "query">>, <<"query">>, Refusal}
  ELSE IF a.action = "read" THEN {<<"read">>} ELSE {Refusal}

\* Mutant: a restore is asked for and done.
DbBackup_Unasked(a) ==
  IF a.action = "create" THEN {<<"dump", "prune">>, Refusal}
  ELSE IF a.action = "restore" THEN {<<"restore">>, Refusal} ELSE {Refusal}

DbBackup(a) ==
  IF a.action = "create" THEN {<<"dump", "prune">>, Refusal}
  ELSE IF a.action = "restore" /\ a.confirm = "true" THEN {<<"restore">>, Refusal} ELSE {Refusal}

\* Only issues the project has; deleting them is asked for twice.
TriageErrors(a) ==
  IF "issue" \notin things \/ (a.action = "delete" /\ a.confirm # "true") THEN {Refusal}
  ELSE IF a.action = "delete" THEN {<<"forget">>} ELSE {<<"triage">>}

\* A managed variable is left alone; the file follows.
ProjectEnv(a) ==
  IF a.action = "set" THEN {<<"set", "file">>, Refusal}
  ELSE IF a.action = "delete" THEN {IF "variable" \in things THEN <<"unset", "file">> ELSE Refusal, Refusal}
  ELSE {Refusal}

ConnectDomain(a) ==
  IF a.action = "connect" THEN {<<"connect", "routes">>, Refusal}
  ELSE IF "domain" \in things THEN {<<"disconnect", "routes">>, Refusal} ELSE {Refusal}

\* confirm has to be the slug; webo does not delete itself.
DeleteProject(a) ==
  IF a.confirm = "slug" THEN {<<"teardown", "delete", "routes">>, Refusal} ELSE {Refusal}

\* Registered, unless the repository cannot be read, has no template or is taken.
CreateProject == {<<"register">>, Refusal}

\* Deployed, unless GitHub, Docker or the database stands in the way.
DeployProject == {<<"deploy">>, Refusal}

\* dispatch: where a call is routed; run finds the project first, by a slug that
\* only an object has.
Plans(a) ==
  CASE a.form = "odd" -> {Refusal}
    [] a.form # "odd" /\ a.tool = "create_project" -> CreateProject
    [] a.form # "odd" /\ a.tool # "create_project" /\ "row" \notin things -> {Refusal}
    [] a.form # "odd" /\ a.tool = "deploy_project" /\ "row" \in things -> DeployProject
    [] a.form # "odd" /\ a.tool = "db_query" /\ "row" \in things -> DbQuery(a)
    [] a.form # "odd" /\ a.tool = "db_backup" /\ "row" \in things -> DbBackup(a)
    [] a.form # "odd" /\ a.tool = "triage_errors" /\ "row" \in things -> TriageErrors(a)
    [] a.form # "odd" /\ a.tool = "project_env" /\ "row" \in things -> ProjectEnv(a)
    [] a.form # "odd" /\ a.tool = "connect_domain" /\ "row" \in things -> ConnectDomain(a)
    [] a.form # "odd" /\ a.tool = "delete_project" /\ "row" \in things -> DeleteProject(a)
    [] OTHER -> {<<"read">>}

\* The steps that wait, and those of them after whose failure nothing follows.
Waits == {"read", "dump", "query", "restore", "file", "connect", "disconnect", "routes",
          "teardown", "register", "deploy"}
Stops == {"read", "dump", "query", "restore", "connect", "register", "deploy"}

\* The failures that the answer does not tell: the file of variables is rewritten
\* for one removed as well as may be.
Untold(a, s) == s \in {"disconnect", "teardown", "routes"} \/ (s = "file" /\ a.action = "delete")

\* What a step leaves of a call's outcome.
Outcome(q, s, works) ==
  IF works \/ Untold(q.ask, s) THEN q.outcome
  ELSE IF s = "dump" /\ q.ask.action = "write" THEN "no_dump" ELSE "failed"

\* What belongs to the project's row in the database.
OfTheRow == {"row", "issue", "variable", "domain"}

Gains == [dump |-> {"dump"}, set |-> {"variable"}, file |-> {"file"}, connect |-> {"domain"},
          register |-> {"row"}, deploy |-> {"containers", "variable", "file"}]
Losses == [restore |-> {"data"}, forget |-> {"issue"}, unset |-> {"variable"},
           disconnect |-> {"domain"}, teardown |-> {"containers"}, delete |-> OfTheRow,
           prune |-> {"old_dump"}]
Changes == DOMAIN Gains \cup DOMAIN Losses \cup {"query", "triage"}

\* The newest dumps are kept, KEEP_PER_PROJECT of them, one here; a new one makes
\* the last of them an old one.
Gained(s) ==
  IF s = "dump" /\ "dump" \in things THEN {"old_dump"}
  ELSE IF s \in DOMAIN Gains THEN Gains[s] ELSE {}
Lost(s) == IF s \in DOMAIN Losses THEN Losses[s] ELSE {}

\* A step finds the project by its slug again, or its row by the id; without it it
\* does nothing. Dumps are made, removed and restored with what was read before.
Finds(s) == "row" \in things \/ s \in {"register", "dump", "prune", "restore"}

Does(c, s) ==
  IF Finds(s)
  THEN /\ things' = (things \cup Gained(s)) \ Lost(s)
       /\ lost' = lost \cup {[by |-> call[c].ask, thing |-> x] : x \in Lost(s) \cap things}
       /\ changed' = IF s \in Changes THEN changed \cup {c} ELSE changed
  ELSE UNCHANGED <<things, lost, changed>>

-----------------------------------------------------------------------------
(* A call *)

NewCall == [pc |-> "new", ask |-> CHOOSE a \in Asks : TRUE, left |-> <<>>, outcome |-> "none"]
Fault(kind) == kind \in CallFaults /\ faults < MaxFaults /\ faults' = faults + 1

\* rpc: a request without an id is a notification, and nothing is done for it.
Call(c) ==
  /\ call[c].pc = "new"
  /\ \E a \in Asks : \E plan \in Plans(a) :
       call' = [call EXCEPT ![c] =
                  [pc |-> IF ~a.id THEN "over" ELSE IF plan = Refusal THEN "audit" ELSE "act",
                   ask |-> a, left |-> plan, outcome |-> IF plan = Refusal THEN "refused" ELSE "done"]]
  /\ UNCHANGED <<things, lines, answers, changed, lost, faults, panel>>

\* A step is done, or fails; after some failures the call is over.
Step(c, works) ==
  /\ call[c].pc = "act"
  /\ LET s == Head(call[c].left)
         left == IF works \/ s \notin Stops THEN Tail(call[c].left) ELSE <<>>
     IN /\ IF works THEN Does(c, s) /\ UNCHANGED faults
           ELSE s \in Waits /\ Fault("step") /\ UNCHANGED <<things, lost, changed>>
        /\ call' = [call EXCEPT ![c].left = left,
                                ![c].outcome = Outcome(call[c], s, works),
                                ![c].pc = IF left = <<>> THEN "audit" ELSE @]
  /\ UNCHANGED <<lines, answers, panel>>

\* A line has the first line of the answer, which is about the dump once a statement
\* that writes has been run, or about there being none.
Says(a, outcome) == IF a.action = "write" /\ outcome \in {"done", "failed"} THEN "prelude" ELSE outcome

\* Mutant: what is written is what was asked.
Line_Whole(c) ==
  [call |-> c, outcome |-> Says(call[c].ask, call[c].outcome), shows |-> SecretsIn(call[c].ask)]

Line(c) ==
  [call |-> c, outcome |-> Says(call[c].ask, call[c].outcome),
   shows |-> Redacted(call[c].ask, SecretsIn(call[c].ask))]

\* call_tool: the outcome is written down as soon as there is one.
Audit(c) ==
  /\ call[c].pc = "audit"
  /\ lines' = IF call[c].ask.tool \in WRITE_TOOLS THEN Append(lines, Line(c)) ELSE lines
  /\ call' = [call EXCEPT ![c].pc = "answer"]
  /\ UNCHANGED <<things, answers, changed, lost, faults, panel>>

\* The response; a client that has hung up does not get it.
Answer(c, heard) ==
  /\ call[c].pc = "answer"
  /\ IF heard THEN UNCHANGED faults ELSE Fault("hangup")
  /\ answers' = [answers EXCEPT ![c] = IF heard THEN call[c].outcome ELSE @]
  /\ call' = [call EXCEPT ![c].pc = "over"]
  /\ UNCHANGED <<things, lines, changed, lost, panel>>

-----------------------------------------------------------------------------
(* What else happens *)

\* audit cuts long arguments at byte 400; inside a character that is a panic.
Panic(c) ==
  /\ call[c].pc = "audit" /\ call[c].ask.tool \in WRITE_TOOLS /\ Fault("panic")
  /\ call' = [call EXCEPT ![c].pc = "over"]
  /\ UNCHANGED <<things, lines, answers, changed, lost, panel>>

\* The agent hangs up while a step waits: the handler ends there, whether or not
\* what it waits for is done by others.
HangUp(c, done) ==
  /\ call[c].pc = "act" /\ Head(call[c].left) \in Waits /\ Fault("hangup")
  /\ IF done THEN Does(c, Head(call[c].left)) ELSE UNCHANGED <<things, lost, changed>>
  /\ call' = [call EXCEPT ![c].pc = "over"]
  /\ UNCHANGED <<lines, answers, panel>>

\* The log is docker's: it outlives webo.
CutOff ==
  /\ Fault("restart")
  /\ call' = [c \in Calls |-> IF call[c].pc = "new" THEN call[c] ELSE [call[c] EXCEPT !.pc = "over"]]
  /\ UNCHANGED <<things, lines, answers, changed, lost, panel>>

\* Everything a project can have; volumes, images and dumps stay with the server.
Everything == OfTheRow \cup {"containers", "file", "data", "dump", "old_dump", "volume"}

\* People and the app change what is there.
Panel ==
  /\ panel < MaxPanel /\ panel' = panel + 1
  /\ \E x \in {"issue", "variable", "domain", "data"} :
       \/ "row" \in things /\ things' = things \cup {x}
       \/ things' = things \ {x}
       \/ things' = things \ (OfTheRow \cup {"containers"})
  /\ UNCHANGED <<call, lines, answers, changed, lost, faults>>

AgentInit ==
  /\ things \in {Everything \ {"old_dump"}, {"volume"}}
  /\ call = [c \in Calls |-> NewCall] /\ lines = <<>>
  /\ answers = [c \in Calls |-> "none"]
  /\ changed = {} /\ lost = {} /\ faults = 0 /\ panel = 0

AgentNext ==
  \/ \E c \in Calls : \/ Call(c) \/ Audit(c) \/ Panic(c)
                      \/ \E b \in BOOLEAN : Step(c, b) \/ HangUp(c, b) \/ Answer(c, b)
  \/ CutOff \/ Panel

AgentSpec == AgentInit /\ [][AgentNext]_agentVars

-----------------------------------------------------------------------------
(* Properties *)

LinesOf(c) == {i \in DOMAIN lines : lines[i].call = c}

\* A call that changed something is of no tool announced as read-only, and its line
\* does not say it was refused; once it was answered it has one line, with the
\* outcome it was answered, whatever calls ran beside it; of a statement that was
\* run to write it says no more than what was dumped before. No line shows the
\* address of a database or the value of a variable given where the tool wants it;
\* SQL, an env that is no object, and arguments that are none, are shown as they came.
LinesAreTrue ==
  \A c \in Calls :
    /\ c \in changed => call[c].ask.tool \notin ReadOnlyHint
    /\ c \in changed /\ answers[c] # "none" => Cardinality(LinesOf(c)) = 1
    /\ \A i \in LinesOf(c) :
         /\ \/ answers[c] \in {"none", lines[i].outcome}
            \/ call[c].ask.action = "write" /\ lines[i].outcome = "prelude"
         /\ lines[i].outcome = "refused" => c \notin changed
         /\ lines[i].shows \cap {"value", "database_url"} = {}
         /\ "env" \in lines[i].shows => call[c].ask.form = "odd_env"

\* No call takes away what was not confirmed for it, apart from what a statement
\* of db_query does to rows: only variables and domains, by their names, and the
\* dumps older than those kept, when one is made by db_backup, go without; the slug
\* itself is asked for before the project goes; volumes, the newest dumps and the
\* file of variables never go.
LossIsConfirmed ==
  \A l \in lost :
    /\ l.thing \notin {"volume", "dump", "file"}
    /\ l.thing \in {"row", "containers"} => l.by.confirm = "slug"
    /\ l.thing \in {"data", "issue"} => l.by.confirm # "no"
    /\ l.thing = "old_dump" => l.by.tool = "db_backup" /\ l.by.action = "create"

\* mcp.rs:99-104: the log must never carry a secret.
NoSecretInALine == \A i \in DOMAIN lines : lines[i].shows = {}

\* mcp.rs:84-87: every call that changes something is written to the log.
EveryWriteIsRecorded ==
  \A c \in changed : call[c].pc = "over" => LinesOf(c) # {}
=============================================================================
