---------------------------- MODULE FirstDeploy ----------------------------
(***************************************************************************)
(* The first deploy of one repository as GitHub sees it: do_create_project *)
(* and do_provision of src/src/server.rs from their scan to their watcher, *)
(* the scaffold of src/src/scaffold.rs, and the calls of                   *)
(* src/src/github.rs, one by one.                                          *)
(*                                                                         *)
(* What provisioning does before the scan is in AppDatabase, what it does  *)
(* to the domain in Domains, whose row it works on in Projects.            *)
(***************************************************************************)
EXTENDS Naturals, FiniteSets, Sequences

CONSTANTS
  Requests,     \* the requests ever made, each with its watcher: a bound
  SecretNames,  \* SECRET_NAMES, in their order
  Configured,   \* those the environment has a value for
  FirstTrees,   \* what the repository may hold at first
  MaxCommits,   \* bound: commits ever made
  MaxPolls,     \* the watcher's ninety polls
  Faults,       \* "call", "answer", "hangup", "restart"
  MaxFaults     \* bound: faults in a behaviour

ASSUME Numbers == MaxCommits \in Nat /\ MaxPolls \in Nat \ {0} /\ MaxFaults \in Nat
ASSUME Secrets == SecretNames \in Seq(STRING) /\ Configured \subseteq STRING

VARIABLES
  commits,   \* every commit object ever made: its parent, its tree, who by
  head,      \* the branch
  secrets,   \* the repository's action secrets
  queued,    \* commits on the branch whose workflow is yet to start
  runs,      \* workflow runs, oldest first
  status,    \* the project's status, "none" before it is registered
  task,      \* the requests
  polls,     \* what each watcher has left
  answered,  \* history: commits answered as deployed, as failed, as neither
  abandoned, \* history: a watcher, or the request about to start it, was lost
  faults     \* history: how many faults

vars == <<commits, head, secrets, queued, runs, status, task, polls, answered, abandoned, faults>>

-----------------------------------------------------------------------------
(* Repositories.  "deploy" stands for the workflow and the compose files.   *)

Markers == {"Gemfile", "package.json", "Dockerfile"}
Templates == {"Rails", "Next", "Docker"}
Trees == [Gemfile : {"no", "user"}, Package : {"no", "user"},
          Dockerfile : {"no", "user", "webo"}, deploy : {"no", "user"} \cup Templates]

ASSUME AtFirst == FirstTrees \subseteq Trees

Present(tree) ==
  {f \in Markers : CASE f = "Gemfile" -> tree.Gemfile # "no"
                     [] f = "package.json" -> tree.Package # "no"
                     [] OTHER -> tree.Dockerfile # "no"}

\* detect: the named stacks win over a Dockerfile.
Detect(found) ==
  IF "Gemfile" \in found THEN "Rails"
  ELSE IF "package.json" \in found THEN "Next"
  ELSE IF "Dockerfile" \in found THEN "Docker" ELSE "none"

\* Mutant: the template's Dockerfile comes with every template that has one.
Planned_Always(tree, found) ==
  [tree EXCEPT !.deploy = Detect(found),
               !.Dockerfile = IF Detect(found) = "Docker" THEN @ ELSE "webo"]

\* plan, put on top of a tree: a Dockerfile the scan has seen is kept.
Planned(tree, found) ==
  [tree EXCEPT !.deploy = Detect(found),
               !.Dockerfile = IF "Dockerfile" \in found THEN @ ELSE "webo"]

Tree(c) == commits[c].tree

\* The commits a commit is built on, itself among them: the least set that has
\* it and the parent of each of its own.
Upwards == {S \in SUBSET DOMAIN commits : \A n \in S : commits[n].parent \in S \cup {0}}
Line(c) == {n \in DOMAIN commits : \A S \in Upwards : c \in S => n \in S}

\* A commit reaches the branch; a workflow in it will start.
Moves(c, tree) ==
  /\ head' = c
  /\ queued' = IF tree.deploy = "no" THEN queued ELSE queued \cup {c}

-----------------------------------------------------------------------------
(* Requests *)

Fresh == [pc |-> "new", op |-> "none", found |-> {}, since |-> 0, unread |-> FALSE,
           next |-> 1, told |-> {}, base |-> 0, mine |-> 0, heard |-> TRUE]

Goes(t, pc) == task' = [task EXCEPT ![t].pc = pc]
Fault(kind) == kind \in Faults /\ faults < MaxFaults /\ faults' = faults + 1
Over == [Fresh EXCEPT !.pc = "over"]

Answer(t, how) ==
  /\ answered' = [answered EXCEPT ![how] = @ \cup ({task[t].mine} \ {0})]
  /\ task' = [task EXCEPT ![t] = Over]

Starts(t, op) ==
  /\ task[t].pc = "new"
  /\ task' = [task EXCEPT ![t].pc = "info", ![t].op = op]
  /\ UNCHANGED <<commits, head, secrets, queued, runs, status, polls, answered, abandoned, faults>>

Create(t) == Starts(t, "create")
Provision(t) == status # "none" /\ Starts(t, "provision")

-----------------------------------------------------------------------------
(* scan_repo: repo_info and one get_file after another *)

Then == [info |-> "Gemfile", Gemfile |-> "package", package |-> "Dockerfile", Dockerfile |-> "planned"]
FileAt(pc) == IF pc = "package" THEN "package.json" ELSE pc

ScanInfo(t) ==
  /\ task[t].pc = "info"
  /\ task' = [task EXCEPT ![t].pc = Then.info, ![t].since = head]
  /\ UNCHANGED <<commits, head, secrets, queued, runs, status, polls, answered, abandoned, faults>>

\* A file that cannot be read is a file that is not there.
ScanFile(t, read) ==
  /\ task[t].pc \in {"Gemfile", "package", "Dockerfile"}
  /\ IF read THEN UNCHANGED faults ELSE Fault("call")
  /\ LET there == FileAt(task[t].pc) \in Present(Tree(head))
     IN task' = [task EXCEPT ![t].pc = Then[@],
                             ![t].found = IF read /\ there THEN @ \cup {FileAt(task[t].pc)} ELSE @,
                             ![t].unread = @ \/ (~read /\ there)]
  /\ UNCHANGED <<commits, head, secrets, queued, runs, status, polls, answered, abandoned>>

Supported(t) == Detect(task[t].found) # "none"

\* do_create_project: register, unless the client has gone.
Register(t) ==
  /\ task[t].pc = "planned" /\ task[t].op = "create"
  /\ status' = IF Supported(t) /\ task[t].heard /\ status \in {"none", "idle"} THEN "provisioning" ELSE status
  /\ task' = [task EXCEPT ![t] = Over]
  /\ UNCHANGED <<commits, head, secrets, queued, runs, polls, answered, abandoned, faults>>

\* Mutant: the commit first, the secrets when it is on the branch.
Follows_CommitFirst == [planned |-> "head", moved |-> "secrets", secrets |-> "done"]

\* Secrets first: the commit starts the workflow at once.
Follows == [planned |-> "secrets", secrets |-> "head", moved |-> "done"]

Plan(t) ==
  /\ task[t].pc = "planned" /\ task[t].op = "provision"
  /\ IF Supported(t) THEN Goes(t, Follows.planned) /\ UNCHANGED answered ELSE Answer(t, "failed")
  /\ UNCHANGED <<commits, head, secrets, queued, runs, status, polls, abandoned, faults>>

-----------------------------------------------------------------------------
(* The secrets, then commit_files *)

Secret(t) == SecretNames[task[t].next]

\* set_secret, or no value to set; a failure is told and changes nothing else.
SetSecret(t, works) ==
  /\ task[t].pc = "secrets" /\ task[t].next <= Len(SecretNames)
  /\ IF works THEN UNCHANGED faults ELSE Secret(t) \in Configured /\ Fault("call")
  /\ LET set == {Secret(t)} \cap (IF works THEN Configured ELSE {})
     IN /\ secrets' = secrets \cup set
        /\ task' = [task EXCEPT ![t].next = @ + 1, ![t].told = @ \cup set,
                                ![t].pc = IF task[t].next = Len(SecretNames) THEN Follows.secrets ELSE @]
  /\ UNCHANGED <<commits, head, queued, runs, status, polls, answered, abandoned>>

ReadHead(t) ==
  /\ task[t].pc = "head"
  /\ task' = [task EXCEPT ![t].pc = "object", ![t].base = head]
  /\ UNCHANGED <<commits, head, secrets, queued, runs, status, polls, answered, abandoned, faults>>

\* The tree on the head's tree, the commit on the head: objects nobody sees.
MakeCommit(t) ==
  /\ task[t].pc = "object" /\ Len(commits) < MaxCommits
  /\ commits' = Append(commits,
       [parent |-> task[t].base, tree |-> Planned(Tree(task[t].base), task[t].found), by |-> "webo",
        since |-> task[t].since, unread |-> task[t].unread])
  /\ task' = [task EXCEPT ![t].pc = "move", ![t].mine = Len(commits) + 1]
  /\ UNCHANGED <<head, secrets, queued, runs, status, polls, answered, abandoned, faults>>

\* Mutant: the branch is moved by force.
Takes_Forced(t) == TRUE

\* GitHub moves a branch forward only.
Takes(t) == task[t].base = head

\* Mutant: whether the branch moved is not looked at.
MoveBranch_Unseen(t, lost) ==
  /\ task[t].pc = "move"
  /\ IF Takes(t) THEN Moves(task[t].mine, Tree(task[t].mine)) ELSE UNCHANGED <<head, queued>>
  /\ IF lost THEN Fault("answer") ELSE UNCHANGED faults
  /\ IF task[t].heard THEN Goes(t, Follows.moved) /\ UNCHANGED answered ELSE Answer(t, "unheard")
  /\ UNCHANGED <<commits, secrets, runs, status, polls, abandoned>>

\* The branch moves and the answer comes, or is lost on its way, which to the
\* code is as if the branch had not moved.
MoveBranch(t, lost) ==
  /\ task[t].pc = "move"
  /\ IF Takes(t) THEN Moves(task[t].mine, Tree(task[t].mine)) ELSE UNCHANGED <<head, queued>>
  /\ IF lost THEN Fault("answer") ELSE UNCHANGED faults
  /\ IF ~task[t].heard THEN Answer(t, "unheard")
     ELSE IF lost THEN Answer(t, "lost")
     ELSE IF Takes(t) THEN Goes(t, Follows.moved) /\ UNCHANGED answered ELSE Answer(t, "failed")
  /\ UNCHANGED <<commits, secrets, runs, status, polls, abandoned>>

\* A call of the scan's or of the commit's that must succeed does not.
CallFails(t) ==
  /\ task[t].pc \in {"info", "head", "object", "move"}
  /\ Fault("call") /\ Answer(t, "failed")
  /\ UNCHANGED <<commits, head, secrets, queued, runs, status, polls, abandoned>>

SetStatus(t) ==
  /\ task[t].pc = "done" /\ Goes(t, "reserve") /\ status' = "deploying" /\ abandoned' = FALSE
  /\ UNCHANGED <<commits, head, secrets, queued, runs, polls, answered, faults>>

Spawn(t) ==
  /\ task[t].pc = "reserve" /\ Answer(t, "deployed") /\ polls' = [polls EXCEPT ![t] = MaxPolls]
  /\ UNCHANGED <<commits, head, secrets, queued, runs, status, abandoned, faults>>

-----------------------------------------------------------------------------
(* watch_first_deploy *)

Ended == runs # <<>> /\ runs[Len(runs)].ended

\* Mutant: a watcher that runs out of polls leaves the status.
Watched_GivesUp(t, seen) == IF seen /\ Ended THEN "ended" ELSE IF polls[t] = 1 THEN "left" ELSE "goes on"

\* The newest run listed has ended, or this was the last poll.
Watched(t, seen) == IF (seen /\ Ended) \/ polls[t] = 1 THEN "ended" ELSE "goes on"

Poll(t, seen) ==
  /\ polls[t] > 0
  /\ IF seen THEN UNCHANGED faults ELSE Fault("call")
  /\ polls' = [polls EXCEPT ![t] = IF Watched(t, seen) = "goes on" THEN @ - 1 ELSE 0]
  /\ status' = IF Watched(t, seen) = "ended" /\ status # "none" THEN "idle" ELSE status
  /\ UNCHANGED <<commits, head, secrets, queued, runs, task, answered, abandoned>>

-----------------------------------------------------------------------------
(* GitHub, its users, clients that hang up, restarts *)

Push(tree) ==
  /\ Len(commits) < MaxCommits
  /\ commits' = Append(commits, [parent |-> head, tree |-> tree, by |-> "user",
                                 since |-> head, unread |-> FALSE])
  /\ Moves(Len(commits) + 1, tree)
  /\ UNCHANGED <<secrets, runs, status, task, polls, answered, abandoned, faults>>

RunStarts(c) ==
  /\ c \in queued /\ queued' = queued \ {c}
  /\ runs' = Append(runs, [commit |-> c, found |-> secrets, ended |-> FALSE])
  /\ UNCHANGED <<commits, head, secrets, status, task, polls, answered, abandoned, faults>>

RunEnds(i) ==
  /\ ~runs[i].ended /\ runs' = [runs EXCEPT ![i].ended = TRUE]
  /\ UNCHANGED <<commits, head, secrets, queued, status, task, polls, answered, abandoned, faults>>

\* The blocking calls go on without the handler; what follows them does not.
HangUp(t) ==
  /\ task[t].pc \notin {"new", "over"} /\ task[t].heard /\ Fault("hangup")
  /\ IF task[t].pc \in {"done", "reserve"}
       THEN Answer(t, "unheard") /\ abandoned' = TRUE
       ELSE task' = [task EXCEPT ![t].heard = FALSE] /\ UNCHANGED <<answered, abandoned>>
  /\ UNCHANGED <<commits, head, secrets, queued, runs, status, polls>>

Restart ==
  /\ Fault("restart")
  /\ task' = [t \in Requests |-> IF task[t].pc = "new" THEN Fresh ELSE Over] /\ polls' = [t \in Requests |-> 0]
  /\ answered' = [answered EXCEPT !.unheard = @ \cup ({task[t].mine : t \in Requests} \ {0})]
  /\ abandoned' = (abandoned \/ status = "deploying")
  /\ UNCHANGED <<commits, head, secrets, queued, runs, status>>

-----------------------------------------------------------------------------
Init ==
  /\ \E tree \in FirstTrees :
       commits = <<[parent |-> 0, tree |-> tree, by |-> "user",
                    since |-> 0, unread |-> FALSE]>>
  /\ head = 1 /\ secrets = {} /\ queued = {} /\ runs = <<>> /\ status \in {"none", "idle"}
  /\ task = [t \in Requests |-> Fresh] /\ polls = [t \in Requests |-> 0]
  /\ answered = [how \in {"deployed", "failed", "lost", "unheard"} |-> {}]
  /\ abandoned = FALSE /\ faults = 0

\* A user adds a Dockerfile or changes something else.
Edits(tree) == {tree, [tree EXCEPT !.Dockerfile = "user"]}

Next ==
  \/ \E t \in Requests :
       \/ Create(t) \/ Provision(t) \/ ScanInfo(t) \/ Register(t) \/ Plan(t)
       \/ \E read \in BOOLEAN : ScanFile(t, read) \/ SetSecret(t, read) \/ Poll(t, read)
       \/ ReadHead(t) \/ MakeCommit(t) \/ CallFails(t) \/ SetStatus(t) \/ Spawn(t) \/ HangUp(t)
       \/ \E lost \in BOOLEAN : MoveBranch(t, lost)
  \/ \E tree \in Edits(Tree(head)) : Push(tree)
  \/ \E c \in queued : RunStarts(c)
  \/ \E i \in DOMAIN runs : RunEnds(i)
  \/ Restart

Spec == Init /\ [][Next]_vars

\* The runtime serves a started request and a spawned watcher to its end.
Fairness == \A t \in Requests : WF_vars(Poll(t, TRUE)) /\ WF_vars(Spawn(t))

FairSpec == Spec /\ Fairness

-----------------------------------------------------------------------------
(* Properties *)

\* No push is lost: whoever else moves the branch moves it on from there.
PushesStay == \A c \in DOMAIN commits : commits[c].by = "user" => c \in Line(head)

\* If the scan could read what it asked for and nobody pushed since it began,
\* the commit is the repository's own stack's and its Dockerfile is kept.
ScaffoldFits ==
  \A c \in DOMAIN commits :
    LET new == commits[c]  old == Tree(new.parent)
    IN new.by = "webo" /\ ~new.unread /\ new.since = new.parent =>
         /\ new.tree.deploy = Detect(Present(old))
         /\ old.Dockerfile = "user" => new.tree.Dockerfile = "user"

\* scaffold.rs:33 without forgiveness: a Dockerfile that is there is never overwritten.
DockerfileIsKept ==
  \A c \in DOMAIN commits :
    LET old == commits[commits[c].parent]
    IN commits[c].by = "webo" /\ old.tree.Dockerfile = "user" => Tree(c).Dockerfile = "user"

\* A job of webo's commit finds every secret the deploy says it created.
RunsFindTheirSecrets == 
  \A t \in Requests, i \in DOMAIN runs : runs[i].commit = task[t].mine => task[t].told \subseteq runs[i].found

\* What was answered as deployed is on the branch, what as failed is not,
\* unless GitHub's answer to the last call was lost.
AnswersAreTrue ==
  answered.deployed \subseteq Line(head) /\ answered.failed \cap Line(head) = {}

\* A deploying status ends, unless its watcher was lost.
DeployingEnds == (status = "deploying") ~> (status # "deploying" \/ abandoned)

=============================================================================
