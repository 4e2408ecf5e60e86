------------------------- MODULE FirstDeploy_proofs -------------------------
(***************************************************************************)
(* A first deploy among pushes, other deploys, failed calls, lost answers, *)
(* hang-ups and restarts: nothing on the branch is lost, what is answered  *)
(* is what the branch says, a run finds its secrets and the scaffold fits. *)
(*                                                                         *)
(* TypeInv and MineInv, which commit is whose and whether the branch has   *)
(* it, carry the rest; the branch is reasoned about by what Line does when *)
(* a commit is made and when the branch moves to one built on it.          *)
(***************************************************************************)
EXTENDS FirstDeploy, TLAPS

Scans == {"Gemfile", "package", "Dockerfile", "planned"}
Commits == {"secrets", "head", "object"}
Moved == {"done", "reserve"}
Made == {"move"} \cup Moved
States == {"new", "info", "over"} \cup Scans \cup Commits \cup Made

Commit == [parent : Nat, tree : Trees, by : {"user", "webo"}, since : Nat, unread : BOOLEAN]
Run == [commit : Nat, found : SUBSET Configured, ended : BOOLEAN]
Task == [pc : States, op : {"none", "create", "provision"}, found : SUBSET Markers, since : Nat,
         unread : BOOLEAN, next : Nat, told : SUBSET Configured, base : Nat, mine : Nat,
         heard : BOOLEAN]

\* Commits are built on older ones, and what is referred to is there.
TypeInv ==
  /\ commits \in Seq(Commit)
  /\ \A c \in DOMAIN commits : commits[c].parent < c
  /\ head \in DOMAIN commits
  /\ secrets \subseteq Configured
  /\ queued \subseteq DOMAIN commits
  /\ runs \in Seq(Run)
  /\ \A i \in DOMAIN runs : runs[i].commit \in DOMAIN commits
  /\ status \in {"none", "idle", "provisioning", "deploying"}
  /\ task \in [Requests -> Task]
  /\ polls \in [Requests -> 0 .. MaxPolls]
  /\ answered \in [{"deployed", "failed", "lost", "unheard"} -> SUBSET DOMAIN commits]
  /\ abandoned \in BOOLEAN
  /\ faults \in Nat

\* A request's commit: made once, its own, on what the request read as the
\* head, and on the branch exactly when GitHub has said that the branch moved.
MineInv ==
  \A t \in Requests :
    /\ task[t].mine # 0 => task[t].pc \in Made
    /\ task[t].pc \in Made =>
         /\ task[t].mine \in DOMAIN commits /\ task[t].mine \notin answered.failed
         /\ commits[task[t].mine].parent = task[t].base
         /\ commits[task[t].mine].by = "webo"
    /\ task[t].pc = "move" => task[t].mine \notin Line(head)
    /\ task[t].pc \in Moved => task[t].mine \in Line(head)
    /\ \A s \in Requests \ {t} : task[s].mine = task[t].mine => task[t].mine = 0

\* What is told is set, and nothing more is told once the commit is made.
ToldInv == \A t \in Requests : task[t].told \subseteq secrets

\* The files asked for by now.
Asked(pc) == CASE pc = "Gemfile" -> {}
               [] pc = "package" -> {"Gemfile"}
               [] pc = "Dockerfile" -> {"Gemfile", "package.json"}
               [] OTHER -> Markers

\* A scan that read everything, of a branch that has not moved since it began,
\* found what is there; the head it is committed on may be that one only then.
ScanInv ==
  \A t \in Requests :
    /\ task[t].pc \in Scans \cup Commits =>
         /\ task[t].since \in DOMAIN commits /\ task[t].since <= head
         /\ ~task[t].unread /\ task[t].since = head =>
              task[t].found = Asked(task[t].pc) \cap Present(Tree(task[t].since))
    /\ task[t].pc \in {"new", "info"} => task[t].found = {}
    /\ task[t].pc \in Commits => Supported(t)
    /\ task[t].pc = "object" =>
         /\ task[t].base \in DOMAIN commits
         /\ ~task[t].unread /\ task[t].since = task[t].base =>
              task[t].found = Present(Tree(task[t].base))

\* Webo starts no history of its own.
BuiltOn == \A c \in DOMAIN commits : commits[c].by = "webo" => commits[c].parent \in DOMAIN commits

IInv == TypeInv /\ MineInv /\ ToldInv /\ ScanInv /\ BuiltOn
        /\ PushesStay /\ AnswersAreTrue /\ RunsFindTheirSecrets /\ ScaffoldFits

-----------------------------------------------------------------------------
(* What a commit is built on *)

UpwardsIn(cs) == {S \in SUBSET DOMAIN cs : \A n \in S : cs[n].parent \in S \cup {0}}
LineIn(cs, c) == {n \in DOMAIN cs : \A S \in UpwardsIn(cs) : c \in S => n \in S}

LEMMA LineIsLineIn == \A c : Line(c) = LineIn(commits, c)
BY DEF Line, LineIn, Upwards, UpwardsIn

\* A commit made is built on others; nothing is built on it yet.
LEMMA LineOfOthers ==
  ASSUME NEW cs \in Seq(Commit), \A c \in DOMAIN cs : cs[c].parent < c,
         NEW x \in Commit, x.parent \in DOMAIN cs, NEW c \in DOMAIN cs
  PROVE  LineIn(Append(cs, x), c) = LineIn(cs, c)
<1> DEFINE new == Append(cs, x)
<1>1. /\ DOMAIN cs = 1 .. Len(cs) /\ DOMAIN new = 1 .. Len(cs) + 1 /\ Len(cs) \in Nat
      /\ \A n \in DOMAIN cs : new[n] = cs[n]
      /\ new[Len(cs) + 1] = x
  OBVIOUS
<1>2. \A n \in DOMAIN cs : cs[n].parent \in DOMAIN cs \cup {0}
  <2> SUFFICES ASSUME NEW n \in DOMAIN cs PROVE cs[n].parent \in DOMAIN cs \cup {0}
    OBVIOUS
  <2>1. cs[n] \in Commit /\ cs[n].parent < n /\ n \in 1 .. Len(cs)
    BY <1>1
  <2>2. cs[n].parent = 0 \/ cs[n].parent \in 1 .. Len(cs)
    BY <1>1, <2>1 DEF Commit
  <2>3. QED  BY <1>1, <2>2
<1> HIDE DEF new
<1>3. ASSUME NEW S \in UpwardsIn(cs) PROVE S \in UpwardsIn(new)
  <2>1. \A n \in S : n \in DOMAIN cs /\ new[n] = cs[n]
    BY <1>1 DEF UpwardsIn
  <2>2. QED  BY <1>1, <2>1 DEF UpwardsIn
<1>4. ASSUME NEW S \in UpwardsIn(new) PROVE S \ {Len(cs) + 1} \in UpwardsIn(cs)
  <2>1. S \ {Len(cs) + 1} \in SUBSET DOMAIN cs
    BY <1>1 DEF UpwardsIn
  <2>2. ASSUME NEW n \in S \ {Len(cs) + 1}
        PROVE  cs[n].parent \in (S \ {Len(cs) + 1}) \cup {0}
    <3>1. n \in DOMAIN cs /\ new[n] = cs[n]
      BY <1>1, <2>1
    <3>2. cs[n].parent \in S \cup {0}
      BY <3>1 DEF UpwardsIn
    <3>3. cs[n].parent # Len(cs) + 1
      BY <1>1, <1>2, <3>1
    <3>4. QED  BY <3>2, <3>3
  <2>3. QED  BY <2>1, <2>2 DEF UpwardsIn
<1>5. ASSUME NEW n \in LineIn(new, c) PROVE n \in LineIn(cs, c)
  <2>1. DOMAIN cs \in UpwardsIn(new)
    BY <1>2, <1>3 DEF UpwardsIn
  <2>2. n \in DOMAIN cs
    BY <2>1, <1>5 DEF LineIn
  <2>3. QED  BY <1>3, <1>5, <2>2 DEF LineIn
<1>6. ASSUME NEW n \in LineIn(cs, c) PROVE n \in LineIn(new, c)
  <2>1. n \in DOMAIN new
    BY <1>1, <1>6 DEF LineIn
  <2>2. ASSUME NEW S \in UpwardsIn(new), c \in S PROVE n \in S
    <3>1. c \in S \ {Len(cs) + 1}
      BY <1>1, <2>2
    <3>2. QED  BY <1>4, <1>6, <3>1 DEF LineIn
  <2>3. QED  BY <2>1, <2>2 DEF LineIn
<1>7. QED  BY <1>5, <1>6 DEF new

\* The branch on a commit is the branch on its parent and the commit.
LEMMA LineOfNext ==
  ASSUME NEW cs, NEW c \in DOMAIN cs, cs[c].parent \in DOMAIN cs, cs[c].parent # 0
  PROVE  LineIn(cs, c) = {c} \cup LineIn(cs, cs[c].parent)
<1>1. ASSUME NEW S \in UpwardsIn(cs), c \in S, cs[c].parent # 0 PROVE cs[c].parent \in S
  BY <1>1 DEF UpwardsIn
<1>2. ASSUME NEW S \in UpwardsIn(cs), cs[c].parent \in S PROVE S \cup {c} \in UpwardsIn(cs)
  BY <1>2 DEF UpwardsIn
<1>3. QED  BY <1>1, <1>2 DEF LineIn

-----------------------------------------------------------------------------
(* Types *)

LEMMA PlannedIsATree ==
  ASSUME NEW tree \in Trees, NEW found, Detect(found) # "none"
  PROVE  /\ Planned(tree, found) \in Trees
         /\ Planned(tree, found).deploy = Detect(found)
         /\ "Dockerfile" \in found => Planned(tree, found).Dockerfile = tree.Dockerfile
BY DEF Trees, Planned, Detect, Templates

LEMMA EditsAreTrees ==
  ASSUME NEW tree \in Trees, NEW new \in Edits(tree) PROVE new \in Trees
BY DEF Trees, Edits

\* What appending a commit does to the sequence.
LEMMA Appended ==
  ASSUME TypeInv, NEW x \in Commit, x.parent \in DOMAIN commits, commits' = Append(commits, x)
  PROVE  /\ Len(commits) \in Nat /\ DOMAIN commits = 1 .. Len(commits)
         /\ commits' \in Seq(Commit) /\ DOMAIN commits' = 1 .. Len(commits) + 1
         /\ commits'[Len(commits) + 1] = x
         /\ \A c \in DOMAIN commits : c \in DOMAIN commits' /\ commits'[c] = commits[c]
         /\ \A c \in DOMAIN commits' : commits'[c].parent < c
<1>1. commits \in Seq(Commit) /\ Len(commits) \in Nat /\ DOMAIN commits = 1 .. Len(commits)
  BY DEF TypeInv
<1>2. /\ commits' \in Seq(Commit) /\ DOMAIN commits' = 1 .. Len(commits) + 1
      /\ commits'[Len(commits) + 1] = x
      /\ \A c \in DOMAIN commits : commits'[c] = commits[c]
  BY <1>1
<1>3. ASSUME NEW c \in DOMAIN commits' PROVE commits'[c].parent < c
  <2>1. CASE c = Len(commits) + 1
    BY <1>1, <1>2, <2>1
  <2>2. CASE c \in DOMAIN commits
    BY <1>2, <2>2 DEF TypeInv
  <2>3. QED  BY <1>1, <1>2, <2>1, <2>2
<1>4. QED  BY <1>1, <1>2, <1>3

LEMMA TreesInTheRepository == ASSUME TypeInv, NEW c \in DOMAIN commits PROVE Tree(c) \in Trees
<1>1. commits[c] \in Commit
  BY DEF TypeInv
<1>2. QED  BY <1>1 DEF Tree, Commit

LEMMA TypeInit == Init => TypeInv
<1> SUFFICES ASSUME Init PROVE TypeInv
  OBVIOUS
<1>1. /\ commits \in Seq(Commit) /\ DOMAIN commits = {1}
      /\ \A c \in DOMAIN commits : commits[c].parent < c
  <2>1. PICK tree \in FirstTrees :
          commits = <<[parent |-> 0, tree |-> tree, by |-> "user", since |-> 0, unread |-> FALSE]>>
    BY DEF Init
  <2>2. [parent |-> 0, tree |-> tree, by |-> "user", since |-> 0, unread |-> FALSE] \in Commit
    BY AtFirst DEF Commit
  <2>3. QED  BY <2>1, <2>2
<1>2. Fresh \in Task
  BY DEF Fresh, Task, States
<1>3. runs \in Seq(Run) /\ DOMAIN runs = {}
  BY DEF Init
<1>4. faults \in Nat /\ polls \in [Requests -> 0 .. MaxPolls]
  BY Numbers DEF Init
<1>5. head \in DOMAIN commits /\ queued \subseteq DOMAIN commits
  BY <1>1 DEF Init
<1>6. answered \in [{"deployed", "failed", "lost", "unheard"} -> SUBSET DOMAIN commits]
  BY DEF Init
<1>7. QED  BY <1>1, <1>2, <1>3, <1>4, <1>5, <1>6 DEF Init, TypeInv

\* Whatever a request is answered is a commit of its own, or nothing.
LEMMA AnswerTypes ==
  ASSUME TypeInv, MineInv, NEW t \in Requests, NEW how \in {"deployed", "failed", "lost", "unheard"},
         Answer(t, how), commits' = commits
  PROVE  /\ answered' \in [{"deployed", "failed", "lost", "unheard"} -> SUBSET DOMAIN commits]
         /\ task' \in [Requests -> Task]
<1>1. task[t] \in Task /\ Over \in Task
  BY DEF TypeInv, Over, Fresh, Task, States
<1>2. {task[t].mine} \ {0} \subseteq DOMAIN commits
  BY DEF MineInv
<1>3. QED  BY <1>1, <1>2 DEF Answer, TypeInv

LEMMA TypeNext == IInv /\ [Next]_vars => TypeInv'
<1> SUFFICES ASSUME TypeInv, MineInv, ScanInv, [Next]_vars PROVE TypeInv'
  BY DEF IInv
<1>t. task \in [Requests -> Task] /\ polls \in [Requests -> 0 .. MaxPolls]
  BY DEF TypeInv
<1>1. ASSUME NEW t \in Requests, Create(t) \/ Provision(t) PROVE TypeInv'
  <2>1. task'[t] \in Task
    BY <1>1, <1>t DEF Create, Provision, Starts, Task, States
  <2>2. QED  BY <1>1, <2>1 DEF Create, Provision, Starts, TypeInv
<1>2. ASSUME NEW t \in Requests, ScanInfo(t) PROVE TypeInv'
  <2>1. head \in Nat
    BY DEF TypeInv
  <2>2. task'[t] \in Task
    <3>1. task'[t] = [task[t] EXCEPT !.pc = "Gemfile", !.since = head]
      BY <1>2, <1>t DEF ScanInfo, Then
    <3>2. QED  BY <1>t, <2>1, <3>1 DEF Task, States, Scans
  <2>3. QED  BY <1>2, <2>2 DEF ScanInfo, TypeInv
<1>3. ASSUME NEW t \in Requests, NEW read \in BOOLEAN, ScanFile(t, read) PROVE TypeInv'
  <2>1. FileAt(task[t].pc) \in Markers
    BY <1>3 DEF ScanFile, FileAt, Markers
  <2>2. task'[t] \in Task
    <3>1. PICK seen \in SUBSET Markers, u \in BOOLEAN :
            task'[t] = [task[t] EXCEPT !.pc = Then[@], !.found = seen, !.unread = u]
      <4>1. task[t].found \in SUBSET Markers /\ task[t].unread \in BOOLEAN
        BY <1>t DEF Task
      <4>2. QED  BY <1>3, <1>t, <2>1, <4>1 DEF ScanFile
    <3>2. Then[task[t].pc] \in {"package", "Dockerfile", "planned"}
      BY <1>3 DEF ScanFile, Then
    <3>3. QED  BY <1>t, <3>1, <3>2 DEF Task, States, Scans
  <2>3. faults' \in Nat
    BY <1>3 DEF ScanFile, Fault, TypeInv
  <2>4. QED  BY <1>3, <2>2, <2>3 DEF ScanFile, TypeInv
<1>4. ASSUME NEW t \in Requests, Register(t) PROVE TypeInv'
  <2>1. Over \in Task
    BY DEF Over, Fresh, Task, States
  <2>2. QED  BY <1>4, <2>1 DEF Register, TypeInv
<1>5. ASSUME NEW t \in Requests, Plan(t) PROVE TypeInv'
  <2>1. CASE Supported(t)
    <3>1. task'[t] \in Task
      BY <1>5, <1>t, <2>1 DEF Plan, Goes, Follows, Task, States, Commits
    <3>2. QED  BY <1>5, <2>1, <3>1 DEF Plan, Goes, TypeInv
  <2>2. CASE ~Supported(t)
    BY <1>5, <2>2, AnswerTypes DEF Plan, TypeInv
  <2>3. QED  BY <2>1, <2>2
<1>6. ASSUME NEW t \in Requests, NEW works \in BOOLEAN, SetSecret(t, works) PROVE TypeInv'
  <2>1. secrets' \subseteq Configured /\ faults' \in Nat
    BY <1>6 DEF SetSecret, Fault, TypeInv
  <2>2. task'[t] \in Task
    <3>1. PICK set \in SUBSET Configured :
            task'[t] = [task[t] EXCEPT !.next = @ + 1, !.told = @ \cup set,
                          !.pc = IF task[t].next = Len(SecretNames) THEN Follows.secrets ELSE @]
      BY <1>6, <1>t DEF SetSecret
    <3>2. Follows.secrets = "head"
      BY DEF Follows
    <3>3. task[t] \in Task /\ task[t].next + 1 \in Nat /\ task[t].told \cup set \in SUBSET Configured
      BY <1>t DEF Task
    <3>4. (IF task[t].next = Len(SecretNames) THEN Follows.secrets ELSE task[t].pc) \in States
      BY <1>t, <3>2 DEF Task, States, Commits
    <3>5. QED  BY <3>1, <3>3, <3>4 DEF Task
  <2>3. QED  BY <1>6, <2>1, <2>2 DEF SetSecret, TypeInv
<1>7. ASSUME NEW t \in Requests, NEW seen \in BOOLEAN, Poll(t, seen) PROVE TypeInv'
  <2>1. polls'[t] \in 0 .. MaxPolls
    <3>1. polls[t] \in 0 .. MaxPolls /\ MaxPolls \in Nat /\ polls[t] > 0
      BY <1>7, <1>t, Numbers DEF Poll
    <3>2. polls'[t] = polls[t] - 1 \/ polls'[t] = 0
      BY <1>7, <1>t DEF Poll
    <3>3. QED  BY <3>1, <3>2
  <2>2. status' \in {"none", "idle", "provisioning", "deploying"}
    BY <1>7 DEF Poll, TypeInv
  <2>3. faults' \in Nat
    <3>1. faults \in Nat
      BY DEF TypeInv
    <3>2. faults' = faults \/ faults' = faults + 1
      BY <1>7 DEF Poll, Fault
    <3>3. QED  BY <3>1, <3>2
  <2>4. QED  BY <1>7, <2>1, <2>2, <2>3 DEF Poll, TypeInv
<1>8. ASSUME NEW t \in Requests, ReadHead(t) PROVE TypeInv'
  <2>1. head \in Nat
    BY DEF TypeInv
  <2>2. task'[t] \in Task
    <3>1. task'[t] = [task[t] EXCEPT !.pc = "object", !.base = head]
      BY <1>8, <1>t DEF ReadHead
    <3>2. QED  BY <1>t, <2>1, <3>1 DEF Task, States, Commits
  <2>3. QED  BY <1>8, <2>2 DEF ReadHead, TypeInv
<1>9. ASSUME NEW t \in Requests, MakeCommit(t) PROVE TypeInv'
  <2> DEFINE x == [parent |-> task[t].base, tree |-> Planned(Tree(task[t].base), task[t].found),
                   by |-> "webo", since |-> task[t].since, unread |-> task[t].unread]
  <2>1. task[t].base \in DOMAIN commits /\ Supported(t)
    BY <1>9 DEF MakeCommit, ScanInv, Commits
  <2>2. x.tree \in Trees
    BY <2>1, TreesInTheRepository, PlannedIsATree DEF Supported
  <2>3. x \in Commit /\ x.parent \in DOMAIN commits
    BY <1>t, <2>1, <2>2 DEF Task, Commit
  <2>4. commits' = Append(commits, x)
    BY <1>9 DEF MakeCommit
  <2> HIDE DEF x
  <2>5. /\ commits' \in Seq(Commit) /\ DOMAIN commits \subseteq DOMAIN commits'
        /\ \A c \in DOMAIN commits' : commits'[c].parent < c
    BY <2>3, <2>4, Appended
  <2>6. task'[t] \in Task
    <3>1. Len(commits) + 1 \in Nat
      BY <2>3, <2>4, Appended
    <3>2. task'[t] = [task[t] EXCEPT !.pc = "move", !.mine = Len(commits) + 1]
      BY <1>9, <1>t DEF MakeCommit
    <3>3. QED  BY <1>t, <3>1, <3>2 DEF Task, States, Made
  <2>7. QED  BY <1>9, <2>5, <2>6 DEF MakeCommit, TypeInv
<1>10. ASSUME NEW t \in Requests, CallFails(t) PROVE TypeInv'
  BY <1>10, AnswerTypes DEF CallFails, Fault, TypeInv
<1>11. ASSUME NEW t \in Requests, SetStatus(t) PROVE TypeInv'
  <2>1. task'[t] \in Task
    BY <1>11, <1>t DEF SetStatus, Goes, Task, States, Made, Moved
  <2>2. QED  BY <1>11, <2>1 DEF SetStatus, Goes, TypeInv
<1>12. ASSUME NEW t \in Requests, Spawn(t) PROVE TypeInv'
  <2>1. polls' \in [Requests -> 0 .. MaxPolls]
    BY <1>12, Numbers DEF Spawn, TypeInv
  <2>2. QED  BY <1>12, <2>1, AnswerTypes DEF Spawn, TypeInv
<1>13. ASSUME NEW t \in Requests, HangUp(t) PROVE TypeInv'
  <2>1. CASE task[t].pc \in {"done", "reserve"}
    BY <1>13, <2>1, AnswerTypes DEF HangUp, Fault, TypeInv
  <2>2. CASE task[t].pc \notin {"done", "reserve"}
    <3>1. task'[t] \in Task
      <4>1. task'[t] = [task[t] EXCEPT !.heard = FALSE]
        BY <1>13, <1>t, <2>2 DEF HangUp
      <4>2. QED  BY <1>t, <4>1 DEF Task
    <3>2. task' \in [Requests -> Task]
      BY <1>13, <1>t, <2>2, <3>1 DEF HangUp
    <3>3. QED  BY <1>13, <2>2, <3>2 DEF HangUp, Fault, TypeInv
  <2>3. QED  BY <2>1, <2>2
<1>14. ASSUME NEW t \in Requests, NEW lost \in BOOLEAN, MoveBranch(t, lost) PROVE TypeInv'
  <2>1. task[t].mine \in DOMAIN commits
    BY <1>14 DEF MoveBranch, MineInv, Made
  <2>2. head' \in DOMAIN commits' /\ queued' \subseteq DOMAIN commits' /\ faults' \in Nat
    BY <1>14, <2>1 DEF MoveBranch, Moves, Fault, TypeInv
  <2>3. /\ answered' \in [{"deployed", "failed", "lost", "unheard"} -> SUBSET DOMAIN commits]
        /\ task' \in [Requests -> Task]
    <3>1. CASE \E how \in {"failed", "lost", "unheard"} : Answer(t, how)
      BY <1>14, <3>1, AnswerTypes DEF MoveBranch
    <3>2. CASE Goes(t, Follows.moved) /\ UNCHANGED answered
      <4>1. task'[t] \in Task
        BY <3>2, <1>t DEF Goes, Follows, Task, States, Made, Moved
      <4>2. QED  BY <3>2, <4>1 DEF Goes, TypeInv
    <3>3. QED  BY <1>14, <3>1, <3>2 DEF MoveBranch
  <2>4. QED  BY <1>14, <2>2, <2>3 DEF MoveBranch, TypeInv
<1>15. ASSUME NEW tree \in Edits(Tree(head)), Push(tree) PROVE TypeInv'
  <2> DEFINE x == [parent |-> head, tree |-> tree, by |-> "user", since |-> head, unread |-> FALSE]
  <2>1. head \in DOMAIN commits /\ head \in Nat
    BY DEF TypeInv
  <2>2. x \in Commit /\ x.parent \in DOMAIN commits
    BY <2>1, TreesInTheRepository, EditsAreTrees DEF Commit
  <2>3. commits' = Append(commits, x)
    BY <1>15 DEF Push
  <2> HIDE DEF x
  <2>4. /\ commits' \in Seq(Commit) /\ DOMAIN commits \subseteq DOMAIN commits'
        /\ \A c \in DOMAIN commits' : commits'[c].parent < c
        /\ Len(commits) + 1 \in DOMAIN commits'
    BY <2>2, <2>3, Appended
  <2>5. head' \in DOMAIN commits' /\ queued' \subseteq DOMAIN commits'
    BY <1>15, <2>4 DEF Push, Moves, TypeInv
  <2>6. QED  BY <1>15, <2>4, <2>5 DEF Push, TypeInv
<1>16. ASSUME NEW c \in queued, RunStarts(c) PROVE TypeInv'
  <2> DEFINE run == [commit |-> c, found |-> secrets, ended |-> FALSE]
  <2>1. run \in Run /\ c \in DOMAIN commits
    BY DEF Run, TypeInv
  <2>2. runs' = Append(runs, run) /\ runs \in Seq(Run)
    BY <1>16 DEF RunStarts, TypeInv
  <2>3. runs' \in Seq(Run) /\ \A i \in DOMAIN runs' : \/ i \in DOMAIN runs /\ runs'[i] = runs[i]
                                                  \/ runs'[i] = run
    BY <2>1, <2>2
  <2>4. QED  BY <1>16, <2>1, <2>3 DEF RunStarts, TypeInv
<1>17. ASSUME NEW i \in DOMAIN runs, RunEnds(i) PROVE TypeInv'
  <2>1. runs \in Seq(Run) /\ runs[i] \in Run
    BY DEF TypeInv
  <2>2. runs' \in Seq(Run) /\ DOMAIN runs' = DOMAIN runs
        /\ \A j \in DOMAIN runs : runs'[j].commit = runs[j].commit
    <3>1. runs' = [runs EXCEPT ![i].ended = TRUE]
      BY <1>17 DEF RunEnds
    <3>2. [runs[i] EXCEPT !.ended = TRUE] \in Run
      BY <2>1 DEF Run
    <3>3. QED  BY <2>1, <3>1, <3>2
  <2>3. QED  BY <1>17, <2>2 DEF RunEnds, TypeInv
<1>18. CASE Restart
  <2>1. Over \in Task /\ Fresh \in Task
    BY DEF Over, Fresh, Task, States
  <2>2. task' \in [Requests -> Task]
    BY <1>18, <2>1 DEF Restart
  <2>3. {task[t].mine : t \in Requests} \ {0} \subseteq DOMAIN commits
    BY DEF MineInv
  <2>4. answered' \in [{"deployed", "failed", "lost", "unheard"} -> SUBSET DOMAIN commits']
    BY <1>18, <2>3 DEF Restart, TypeInv
  <2>5. polls' \in [Requests -> 0 .. MaxPolls]
    BY <1>18, Numbers DEF Restart
  <2>6. faults' \in Nat /\ abandoned' \in BOOLEAN
    BY <1>18 DEF Restart, Fault, TypeInv
  <2>7. QED  BY <1>18, <2>2, <2>4, <2>5, <2>6 DEF Restart, TypeInv
<1>19. CASE UNCHANGED vars
  BY <1>19 DEF vars, TypeInv
<1>20. QED
  BY <1>1, <1>2, <1>3, <1>4, <1>5, <1>6, <1>7, <1>8, <1>9, <1>10, <1>11, <1>12, <1>13, <1>14,
     <1>15, <1>16, <1>17, <1>18, <1>19 DEF Next

-----------------------------------------------------------------------------
(* The branch *)

Branch == Line(head)

\* A commit made is not on the branch.
LEMMA BranchWhenMade ==
  ASSUME TypeInv, ScanInv, NEW t \in Requests, MakeCommit(t)
  PROVE  Branch' = Branch /\ Branch \subseteq DOMAIN commits
<1> DEFINE x == [parent |-> task[t].base, tree |-> Planned(Tree(task[t].base), task[t].found),
                 by |-> "webo", since |-> task[t].since, unread |-> task[t].unread]
<1>1. task[t].base \in DOMAIN commits /\ Supported(t) /\ task[t] \in Task
  BY DEF MakeCommit, ScanInv, Commits, TypeInv
<1>2. x \in Commit /\ x.parent \in DOMAIN commits
  BY <1>1, TreesInTheRepository, PlannedIsATree DEF Supported, Task, Commit
<1>3. commits' = Append(commits, x) /\ head' = head
  BY DEF MakeCommit
<1> HIDE DEF x
<1>4. LineIn(commits', head) = LineIn(commits, head)
  BY <1>2, <1>3, LineOfOthers DEF TypeInv
<1>5. Branch = LineIn(commits, head) /\ Branch' = LineIn(commits', head')
  BY DEF Branch, Line, LineIn, Upwards, UpwardsIn
<1>6. QED  BY <1>3, <1>4, <1>5 DEF LineIn

\* The branch moves to a commit built on its head, and to a newer one.
LEMMA BranchWhenMoved ==
  ASSUME TypeInv, MineInv, NEW t \in Requests, NEW lost \in BOOLEAN, MoveBranch(t, lost), Takes(t)
  PROVE  Branch' = {task[t].mine} \cup Branch /\ head' = task[t].mine /\ head < head'
<1>1. /\ task[t].mine \in DOMAIN commits /\ commits[task[t].mine].parent = head
      /\ head \in DOMAIN commits /\ head # 0 /\ head < task[t].mine
  BY DEF MoveBranch, MineInv, Made, Takes, TypeInv
<1>2. head' = task[t].mine /\ commits' = commits
  BY DEF MoveBranch, Moves
<1>3. LineIn(commits, task[t].mine) = {task[t].mine} \cup LineIn(commits, head)
  BY <1>1, LineOfNext
<1>4. Branch = LineIn(commits, head) /\ Branch' = LineIn(commits', head')
  BY DEF Branch, Line, LineIn, Upwards, UpwardsIn
<1>5. QED  BY <1>1, <1>2, <1>3, <1>4

\* A push puts one new commit on the branch.
LEMMA BranchWhenPushed ==
  ASSUME TypeInv, NEW tree \in Edits(Tree(head)), Push(tree)
  PROVE  Branch' = {Len(commits) + 1} \cup Branch /\ head' = Len(commits) + 1 /\ head < head'
<1> DEFINE x == [parent |-> head, tree |-> tree, by |-> "user", since |-> head, unread |-> FALSE]
<1>1. head \in DOMAIN commits /\ head \in Nat
  BY DEF TypeInv
<1>2. x \in Commit /\ x.parent \in DOMAIN commits /\ x.parent = head
  BY <1>1, TreesInTheRepository, EditsAreTrees DEF Commit
<1>3. commits' = Append(commits, x) /\ head' = Len(commits) + 1
  BY DEF Push, Moves
<1> HIDE DEF x
<1>4. /\ commits'[Len(commits) + 1] = x /\ Len(commits) + 1 \in DOMAIN commits'
      /\ head \in DOMAIN commits' /\ head # 0 /\ head < head'
  BY <1>1, <1>2, <1>3, Appended
<1>5. LineIn(commits', head) = LineIn(commits, head)
  BY <1>2, <1>3, LineOfOthers DEF TypeInv
<1>6. LineIn(commits', Len(commits) + 1) = {Len(commits) + 1} \cup LineIn(commits', head)
  BY <1>2, <1>4, LineOfNext
<1>7. Branch = LineIn(commits, head) /\ Branch' = LineIn(commits', head')
  BY DEF Branch, Line, LineIn, Upwards, UpwardsIn
<1>8. QED  BY <1>3, <1>4, <1>5, <1>6, <1>7

LEMMA BranchOtherwise == ASSUME UNCHANGED <<commits, head>> PROVE Branch' = Branch
BY DEF Branch, Line, Upwards

\* Only these three make commits or move the branch.
LEMMA BranchSteps ==
  ASSUME [Next]_vars
  PROVE  \/ UNCHANGED <<commits, head>>
         \/ \E t \in Requests : MakeCommit(t)
         \/ \E t \in Requests, lost \in BOOLEAN : MoveBranch(t, lost) /\ Takes(t)
         \/ \E tree \in Edits(Tree(head)) : Push(tree)
<1>1. ASSUME NEW t \in Requests, \/ Create(t) \/ Provision(t) \/ ScanInfo(t) \/ Register(t) \/ Plan(t)
                                \/ ReadHead(t) \/ CallFails(t) \/ SetStatus(t) \/ Spawn(t) \/ HangUp(t)
      PROVE  UNCHANGED <<commits, head>>
  BY <1>1 DEF Create, Provision, Starts, ScanInfo, Register, Plan, ReadHead, CallFails, SetStatus,
              Spawn, HangUp
<1>2. ASSUME NEW t \in Requests, NEW read \in BOOLEAN,
             ScanFile(t, read) \/ SetSecret(t, read) \/ Poll(t, read)
      PROVE  UNCHANGED <<commits, head>>
  BY <1>2 DEF ScanFile, SetSecret, Poll
<1>3. ASSUME NEW t \in Requests, NEW lost \in BOOLEAN, MoveBranch(t, lost), ~Takes(t)
      PROVE  UNCHANGED <<commits, head>>
  BY <1>3 DEF MoveBranch
<1>4. ASSUME \/ \E c \in queued : RunStarts(c)
             \/ \E i \in DOMAIN runs : RunEnds(i)
             \/ Restart \/ UNCHANGED vars
      PROVE  UNCHANGED <<commits, head>>
  BY <1>4 DEF RunStarts, RunEnds, Restart, vars
<1>5. QED  BY <1>1, <1>2, <1>3, <1>4 DEF Next

-----------------------------------------------------------------------------
(* Whose commit is where *)

\* What a step leaves of a request's commit when it neither makes nor moves one:
\* the commit stays the request's, at its side of the move, or is forgotten.
Keeps(t) ==
  \/ task'[t].mine = 0 /\ task'[t].pc \notin Made
  \/ /\ task'[t].mine = task[t].mine /\ task'[t].base = task[t].base
     /\ task'[t].pc = task[t].pc \/ {task[t].pc, task'[t].pc} \subseteq Moved

Quiet(t) == task'[t].told \subseteq task[t].told /\ Keeps(t)

LEMMA AnsweredIsQuiet ==
  ASSUME TypeInv, NEW t \in Requests, NEW how, Answer(t, how)
  PROVE  \A s \in Requests : Quiet(s)
<1>1. task' = [task EXCEPT ![t] = Over] /\ task \in [Requests -> Task]
  BY DEF Answer, TypeInv
<1>2. Over.mine = 0 /\ Over.told = {} /\ Over.pc \notin Made
  BY DEF Over, Fresh, Made, Moved
<1>3. QED  BY <1>1, <1>2 DEF Quiet, Keeps

LEMMA QuietSteps ==
  ASSUME TypeInv, MineInv, [Next]_vars
  PROVE  \/ \A t \in Requests : Quiet(t)
         \/ \E t \in Requests, works \in BOOLEAN : SetSecret(t, works)
         \/ \E t \in Requests : MakeCommit(t)
         \/ \E t \in Requests, lost \in BOOLEAN : MoveBranch(t, lost)
<1>t. task \in [Requests -> Task] /\ \A t \in Requests : task[t].pc \notin Made => task[t].mine = 0
  BY DEF TypeInv, MineInv
<1>1. ASSUME NEW t \in Requests, Create(t) \/ Provision(t) \/ ScanInfo(t)
      PROVE  \A s \in Requests : Quiet(s)
  <2>1. /\ task'[t].pc \in {"info", "Gemfile"}
        /\ task'[t].mine = task[t].mine /\ task'[t].told = task[t].told
        /\ \A s \in Requests \ {t} : task'[s] = task[s]
    <3>1. CASE \E op : Starts(t, op)
      BY <1>t, <3>1 DEF Starts, Task
    <3>2. CASE ScanInfo(t)
      BY <1>t, <3>2 DEF ScanInfo, Then, Task
    <3>3. QED  BY <1>1, <3>1, <3>2 DEF Create, Provision
  <2>2. task[t].mine = 0
    BY <1>1, <1>t DEF Create, Provision, Starts, ScanInfo, Made, Moved
  <2>3. task'[t].mine = 0 /\ task'[t].pc \notin Made /\ task'[t].told = task[t].told
    BY <2>1, <2>2 DEF Made, Moved
  <2>4. QED  BY <1>t, <2>1, <2>3 DEF Quiet, Keeps
<1>2. ASSUME NEW t \in Requests, NEW read \in BOOLEAN, ScanFile(t, read)
      PROVE  \A s \in Requests : Quiet(s)
  <2>1. PICK found, unread :
          task' = [task EXCEPT ![t] = [task[t] EXCEPT !.pc = Then[@], !.found = found, !.unread = unread]]
    BY <1>2 DEF ScanFile
  <2>2. task[t].mine = 0 /\ Then[task[t].pc] \notin Made
    BY <1>2, <1>t DEF ScanFile, Then, Made, Moved
  <2>3. task'[t].mine = 0 /\ task'[t].pc \notin Made /\ task'[t].told = task[t].told
    BY <1>t, <2>1, <2>2 DEF Task
  <2>4. QED  BY <1>t, <2>1, <2>3 DEF Quiet, Keeps
<1>3. ASSUME NEW t \in Requests, SetStatus(t) PROVE \A s \in Requests : Quiet(s)
  <2>1. task[t].pc = "done" /\ task' = [task EXCEPT ![t].pc = "reserve"]
    BY <1>3 DEF SetStatus, Goes
  <2>2. QED  BY <1>t, <2>1 DEF Quiet, Keeps, Task, Moved
<1>4. ASSUME NEW t \in Requests, Register(t) PROVE \A s \in Requests : Quiet(s)
  <2>1. task' = [task EXCEPT ![t] = Over]
    BY <1>4 DEF Register
  <2>2. Over.mine = 0 /\ Over.told = {} /\ Over.pc \notin Made
    BY DEF Over, Fresh, Made, Moved
  <2>3. QED  BY <1>t, <2>1, <2>2 DEF Quiet, Keeps
<1>5. ASSUME NEW t \in Requests, Plan(t) PROVE \A s \in Requests : Quiet(s)
  <2>1. CASE Goes(t, Follows.planned)
    <3>1. Follows.planned \notin Made /\ task[t].pc \notin Made
      BY <1>5 DEF Plan, Follows, Made, Moved
    <3>2. QED  BY <1>t, <2>1, <3>1 DEF Goes, Quiet, Keeps, Task
  <2>2. QED  BY <1>5, <2>1, AnsweredIsQuiet DEF Plan
<1>6. ASSUME NEW t \in Requests, CallFails(t) \/ Spawn(t) PROVE \A s \in Requests : Quiet(s)
  BY <1>6, AnsweredIsQuiet DEF CallFails, Spawn
<1>7. ASSUME NEW t \in Requests, HangUp(t) PROVE \A s \in Requests : Quiet(s)
  <2>1. CASE task' = [task EXCEPT ![t].heard = FALSE]
    BY <1>t, <2>1 DEF Quiet, Keeps, Task
  <2>2. QED  BY <1>7, <2>1, AnsweredIsQuiet DEF HangUp
<1>8. CASE Restart
  <2>1. Over.mine = 0 /\ Over.told = {} /\ Over.pc \notin Made
        /\ Fresh.mine = 0 /\ Fresh.told = {} /\ Fresh.pc \notin Made
    BY DEF Over, Fresh, Made, Moved
  <2>2. QED  BY <1>8, <2>1 DEF Restart, Quiet, Keeps
<1>9. ASSUME UNCHANGED task PROVE \A t \in Requests : Quiet(t)
  BY <1>9 DEF Quiet, Keeps
<1>10. ASSUME NEW t \in Requests, ReadHead(t) PROVE \A s \in Requests : Quiet(s)
  <2>1. task[t].pc = "head" /\ task' = [task EXCEPT ![t] = [task[t] EXCEPT !.pc = "object", !.base = head]]
    BY <1>10 DEF ReadHead
  <2>2. task'[t].mine = 0 /\ task'[t].pc \notin Made /\ task'[t].told = task[t].told
    BY <1>t, <2>1 DEF Task, Made, Moved
  <2>3. QED  BY <1>t, <2>1, <2>2 DEF Quiet, Keeps
<1>11. CASE \E t \in Requests :
              \/ Create(t) \/ Provision(t) \/ ScanInfo(t) \/ Register(t) \/ Plan(t)
              \/ ReadHead(t) \/ CallFails(t) \/ SetStatus(t) \/ Spawn(t) \/ HangUp(t)
              \/ \E read \in BOOLEAN : ScanFile(t, read)
  BY <1>1, <1>2, <1>3, <1>4, <1>5, <1>6, <1>7, <1>10, <1>11
<1>12. ASSUME NEW t \in Requests, NEW seen \in BOOLEAN, Poll(t, seen)
       PROVE  \A u \in Requests : Quiet(u)
  BY <1>9, <1>12 DEF Poll
<1>13. ASSUME NEW tree \in Edits(Tree(head)), Push(tree) PROVE \A t \in Requests : Quiet(t)
  BY <1>9, <1>13 DEF Push
<1>14. ASSUME NEW c \in queued, RunStarts(c) PROVE \A t \in Requests : Quiet(t)
  BY <1>9, <1>14 DEF RunStarts
<1>15. ASSUME NEW i \in DOMAIN runs, RunEnds(i) PROVE \A t \in Requests : Quiet(t)
  BY <1>9, <1>15 DEF RunEnds
<1>16. CASE UNCHANGED vars
  BY <1>9, <1>16 DEF vars
<1>17. QED
  BY <1>8, <1>11, <1>12, <1>13, <1>14, <1>15, <1>16 DEF Next

\* A secret is set before there is a commit to keep.
LEMMA SecretKeeps ==
  ASSUME TypeInv, MineInv, NEW t \in Requests, NEW works \in BOOLEAN, SetSecret(t, works)
  PROVE  \A s \in Requests : Keeps(s)
<1>1. task \in [Requests -> Task] /\ task[t].pc = "secrets" /\ task[t].mine = 0
  BY DEF TypeInv, MineInv, SetSecret, Made, Moved
<1>2. PICK pc \in {"secrets", "head"} : \E next, told :
        task' = [task EXCEPT ![t] = [task[t] EXCEPT !.next = next, !.told = told, !.pc = pc]]
  <2> DEFINE pc == IF task[t].next = Len(SecretNames) THEN Follows.secrets ELSE task[t].pc
  <2>1. pc \in {"secrets", "head"}
    BY <1>1 DEF Follows
  <2>2. \E next, told :
          task' = [task EXCEPT ![t] = [task[t] EXCEPT !.next = next, !.told = told, !.pc = pc]]
    BY DEF SetSecret
  <2>3. QED  BY <2>1, <2>2
<1>3. task'[t].mine = 0 /\ task'[t].pc \notin Made
  BY <1>1, <1>2 DEF Task, Made, Moved
<1>4. QED  BY <1>1, <1>2, <1>3 DEF Keeps

\* Who answers as deployed, and who as failed.
LEMMA AnswerSteps ==
  ASSUME TypeInv, [Next]_vars
  PROVE  \/ answered'.deployed = answered.deployed /\ answered'.failed = answered.failed
         \/ \E t \in Requests : Spawn(t)
         \/ \E t \in Requests : Answer(t, "failed") /\ (Plan(t) \/ CallFails(t))
         \/ \E t \in Requests, lost \in BOOLEAN : Answer(t, "failed") /\ MoveBranch(t, lost) /\ ~Takes(t)
<1>1. ASSUME NEW t \in Requests, NEW how \in {"lost", "unheard"}, Answer(t, how)
      PROVE  answered'.deployed = answered.deployed /\ answered'.failed = answered.failed
  BY <1>1 DEF Answer, TypeInv
<1>2. ASSUME NEW t \in Requests, Plan(t) \/ CallFails(t)
      PROVE  UNCHANGED answered \/ Answer(t, "failed")
  BY <1>2 DEF Plan, CallFails
<1>3. ASSUME NEW t \in Requests, NEW lost \in BOOLEAN, MoveBranch(t, lost)
      PROVE  \/ UNCHANGED answered \/ Answer(t, "unheard") \/ Answer(t, "lost")
             \/ Answer(t, "failed") /\ ~Takes(t)
  BY <1>3 DEF MoveBranch
<1>4. ASSUME NEW t \in Requests, HangUp(t) PROVE UNCHANGED answered \/ Answer(t, "unheard")
  BY <1>4 DEF HangUp
<1>5. CASE Restart
  BY <1>5 DEF Restart, TypeInv
<1>6. ASSUME NEW t \in Requests, \/ Create(t) \/ Provision(t) \/ ScanInfo(t) \/ Register(t)
                                \/ ReadHead(t) \/ MakeCommit(t) \/ SetStatus(t)
                                \/ \E read \in BOOLEAN : ScanFile(t, read) \/ SetSecret(t, read) \/ Poll(t, read)
      PROVE  UNCHANGED answered
  BY <1>6 DEF Create, Provision, Starts, ScanInfo, Register, ReadHead, MakeCommit, SetStatus,
              ScanFile, SetSecret, Poll
<1>7. ASSUME \/ \E tree \in Edits(Tree(head)) : Push(tree)
             \/ \E c \in queued : RunStarts(c)
             \/ \E i \in DOMAIN runs : RunEnds(i)
             \/ UNCHANGED vars
      PROVE  UNCHANGED answered
  BY <1>7 DEF Push, RunStarts, RunEnds, vars
<1>8. CASE UNCHANGED answered
  BY <1>8
<1>9. QED  BY <1>1, <1>2, <1>3, <1>4, <1>5, <1>6, <1>7, <1>8 DEF Next

\* What is answered as deployed is on the branch.
LEMMA DeployedStep ==
  ASSUME TypeInv, MineInv, [Next]_vars, NEW m \in answered'.deployed \ answered.deployed
  PROVE  m \in Branch
<1>1. ASSUME NEW t \in Requests, Spawn(t) PROVE m \in Branch
  <2>1. answered'.deployed = answered.deployed \cup ({task[t].mine} \ {0}) /\ task[t].pc = "reserve"
    BY <1>1 DEF Spawn, Answer, TypeInv
  <2>2. QED  BY <2>1 DEF MineInv, Moved, Branch
<1>2. ASSUME NEW t \in Requests, Answer(t, "failed") PROVE answered'.deployed = answered.deployed
  BY <1>2 DEF Answer, TypeInv
<1>3. QED  BY <1>1, <1>2, AnswerSteps

\* What is answered as failed was a request's, is no longer, and is not on the branch.
LEMMA FailedStep ==
  ASSUME TypeInv, MineInv, [Next]_vars, NEW m \in answered'.failed \ answered.failed
  PROVE  \E t \in Requests : m = task[t].mine /\ m # 0 /\ task'[t].mine = 0 /\ m \notin Branch'
<1>1. ASSUME NEW t \in Requests, Answer(t, "failed"), task[t].pc \notin Moved, Branch' = Branch
      PROVE  \E u \in Requests : m = task[u].mine /\ m # 0 /\ task'[u].mine = 0 /\ m \notin Branch'
  <2>1. answered'.failed = answered.failed \cup ({task[t].mine} \ {0})
    BY <1>1 DEF Answer, TypeInv
  <2>2. m = task[t].mine /\ m # 0
    BY <2>1
  <2>3. task[t].pc = "move" /\ m \notin Branch
    BY <1>1, <2>2 DEF MineInv, Branch, Made
  <2>4. task'[t].mine = 0
    BY <1>1 DEF Answer, Over, Fresh, TypeInv
  <2>5. QED  BY <1>1, <2>2, <2>3, <2>4
<1>2. ASSUME NEW t \in Requests, Plan(t) \/ CallFails(t) PROVE task[t].pc \notin Moved /\ Branch' = Branch
  BY <1>2, BranchOtherwise DEF Plan, CallFails, Moved
<1>3. ASSUME NEW t \in Requests, NEW lost \in BOOLEAN, MoveBranch(t, lost), ~Takes(t)
      PROVE  task[t].pc \notin Moved /\ Branch' = Branch
  BY <1>3, BranchOtherwise DEF MoveBranch, Moved
<1>4. ASSUME NEW t \in Requests, Spawn(t) PROVE answered'.failed = answered.failed
  BY <1>4 DEF Spawn, Answer, TypeInv
<1>5. QED  BY <1>1, <1>2, <1>3, <1>4, AnswerSteps

\* No commit is changed or goes away.
LEMMA CommitsStay ==
  ASSUME TypeInv, ScanInv, [Next]_vars
  PROVE  \A c \in DOMAIN commits : c \in DOMAIN commits' /\ commits'[c] = commits[c]
<1>1. ASSUME NEW t \in Requests, MakeCommit(t)
      PROVE  \A c \in DOMAIN commits : c \in DOMAIN commits' /\ commits'[c] = commits[c]
  BY <1>1 DEF MakeCommit, TypeInv
<1>2. ASSUME NEW tree \in Edits(Tree(head)), Push(tree)
      PROVE  \A c \in DOMAIN commits : c \in DOMAIN commits' /\ commits'[c] = commits[c]
  BY <1>2 DEF Push, TypeInv
<1>3. ASSUME NEW t \in Requests, NEW lost \in BOOLEAN, MoveBranch(t, lost) PROVE UNCHANGED commits
  BY <1>3 DEF MoveBranch
<1>4. QED  BY <1>1, <1>2, <1>3, BranchSteps

\* The branch only grows, by the commit of a move or by a new one.
LEMMA BranchGrows ==
  ASSUME TypeInv, MineInv, ScanInv, [Next]_vars
  PROVE  /\ Branch \subseteq Branch' /\ head <= head'
         /\ \A c \in Branch' \ Branch :
              \/ c \notin DOMAIN commits
              \/ \E t \in Requests, lost \in BOOLEAN :
                   MoveBranch(t, lost) /\ Takes(t) /\ c = task[t].mine
<1>0. head \in Nat /\ DOMAIN commits = 1 .. Len(commits) /\ Len(commits) \in Nat
  BY DEF TypeInv
<1>1. CASE UNCHANGED <<commits, head>>
  BY <1>0, <1>1, BranchOtherwise
<1>2. ASSUME NEW t \in Requests, MakeCommit(t) PROVE Branch' = Branch /\ head' = head
  BY <1>2, BranchWhenMade DEF MakeCommit
<1>3. ASSUME NEW t \in Requests, NEW lost \in BOOLEAN, MoveBranch(t, lost), Takes(t)
      PROVE  Branch' = {task[t].mine} \cup Branch /\ head < head' /\ head' \in Nat
  <2>1. task[t].mine \in Nat
    BY DEF TypeInv, Task
  <2>2. QED  BY <1>3, <2>1, BranchWhenMoved
<1>4. ASSUME NEW tree \in Edits(Tree(head)), Push(tree)
      PROVE  Branch' = {Len(commits) + 1} \cup Branch /\ head < head' /\ head' \in Nat
  BY <1>0, <1>4, BranchWhenPushed
<1>5. CASE \E t \in Requests : MakeCommit(t)
  BY <1>0, <1>2, <1>5
<1>6. CASE \E t \in Requests, lost \in BOOLEAN : MoveBranch(t, lost) /\ Takes(t)
  BY <1>0, <1>3, <1>6
<1>7. CASE \E tree \in Edits(Tree(head)) : Push(tree)
  BY <1>0, <1>4, <1>7
<1>8. QED  BY <1>1, <1>5, <1>6, <1>7, BranchSteps

\* What MineInv says of one request, and of two.
MineOf(t) ==
  /\ task[t].mine # 0 => task[t].pc \in Made
  /\ task[t].pc \in Made =>
       /\ task[t].mine \in DOMAIN commits /\ task[t].mine \notin answered.failed
       /\ commits[task[t].mine].parent = task[t].base
       /\ commits[task[t].mine].by = "webo"
  /\ task[t].pc = "move" => task[t].mine \notin Branch
  /\ task[t].pc \in Moved => task[t].mine \in Branch

LEMMA MineIsOf ==
  MineInv <=> \A t \in Requests :
                 MineOf(t) /\ \A s \in Requests \ {t} : task[s].mine = task[t].mine => task[t].mine = 0
BY DEF MineInv, MineOf, Branch

\* A request that keeps its commit, while it is no other's that moves.
LEMMA KeptIsMine ==
  ASSUME TypeInv, MineInv, ScanInv, [Next]_vars, NEW t \in Requests, Keeps(t),
         \A s \in Requests, lost \in BOOLEAN : MoveBranch(s, lost) => s # t
  PROVE  MineOf(t)'
<1>1. CASE task'[t].mine = 0 /\ task'[t].pc \notin Made
  BY <1>1 DEF MineOf, Made
<1>2. CASE /\ task'[t].mine = task[t].mine /\ task'[t].base = task[t].base
           /\ task[t].pc \in Made /\ task'[t].pc \in Made
           /\ task'[t].pc = task[t].pc \/ {task[t].pc, task'[t].pc} \subseteq Moved
  <2>1. MineOf(t) /\ task[t].mine # 0
    BY <1>2, MineIsOf DEF TypeInv, MineOf
  <2>2. /\ task[t].mine \in DOMAIN commits' /\ commits'[task[t].mine].parent = task[t].base
        /\ commits'[task[t].mine].by = "webo"
    BY <1>2, <2>1, CommitsStay DEF MineOf
  <2>3. task[t].mine \notin answered'.failed
    <3>1. task[t].mine \notin answered.failed
      BY <1>2, <2>1 DEF MineOf
    <3>2. SUFFICES ASSUME NEW s \in Requests, task[s].mine = task[t].mine, task'[s].mine = 0 PROVE FALSE
      BY <3>1, FailedStep
    <3>3. s = t
      BY <2>1, <3>2, MineIsOf
    <3>4. QED  BY <1>2, <2>1, <3>2, <3>3
  <2>4. task[t].mine \in Branch' => task[t].mine \in Branch
    <3>1. SUFFICES ASSUME NEW s \in Requests, NEW lost \in BOOLEAN, MoveBranch(s, lost),
                          task[s].mine = task[t].mine
                   PROVE  FALSE
      BY <1>2, <2>1, BranchGrows DEF MineOf
    <3>2. QED  BY <2>1, <3>1, MineIsOf
  <2>5. Branch \subseteq Branch'
    BY BranchGrows
  <2>6. QED  BY <1>2, <2>1, <2>2, <2>3, <2>4, <2>5 DEF MineOf, Made, Moved
<1>3. task[t].pc \notin Made => task[t].mine = 0
  BY DEF MineInv
<1>4. QED  BY <1>1, <1>2, <1>3 DEF Keeps, Made, Moved

LEMMA MadeIsMine ==
  ASSUME TypeInv, MineInv, ScanInv, [Next]_vars, NEW t \in Requests, MakeCommit(t)
  PROVE  MineInv'
<1> DEFINE x == [parent |-> task[t].base, tree |-> Planned(Tree(task[t].base), task[t].found),
                 by |-> "webo", since |-> task[t].since, unread |-> task[t].unread]
<1>1. task \in [Requests -> Task] /\ commits \in Seq(Commit) /\ Len(commits) \in Nat
      /\ DOMAIN commits = 1 .. Len(commits) /\ answered.failed \subseteq DOMAIN commits
  BY DEF TypeInv
<1>2. /\ commits' = Append(commits, x) /\ UNCHANGED <<head, answered>>
      /\ task' = [task EXCEPT ![t] = [task[t] EXCEPT !.pc = "move", !.mine = Len(commits) + 1]]
  BY DEF MakeCommit
<1>3. Len(commits) + 1 \in DOMAIN commits' /\ commits'[Len(commits) + 1] = x /\ Len(commits) + 1 # 0
  BY <1>1, <1>2
<1>4. x.parent = task[t].base /\ x.by = "webo"
  OBVIOUS
<1> HIDE DEF x
<1>5. /\ task'[t].pc = "move" /\ task'[t].mine = Len(commits) + 1 /\ task'[t].base = task[t].base
      /\ \A s \in Requests \ {t} : task'[s] = task[s]
  BY <1>1, <1>2 DEF Task
<1>6. Len(commits) + 1 \notin Branch' /\ Len(commits) + 1 \notin answered'.failed
  BY <1>1, <1>2, BranchWhenMade
<1>7. MineOf(t)'
  BY <1>3, <1>4, <1>5, <1>6 DEF MineOf, Made, Moved
<1>8. ASSUME NEW s \in Requests \ {t}
      PROVE  MineOf(s)' /\ task'[s].mine = task[s].mine /\ task'[s].mine # Len(commits) + 1
  <2>1. Keeps(s)
    BY <1>5 DEF Keeps
  <2>2. \A u \in Requests, lost \in BOOLEAN : ~MoveBranch(u, lost)
    BY <1>1, <1>3 DEF MoveBranch
  <2>3. task[s].mine = 0 \/ task[s].mine \in DOMAIN commits
    BY DEF MineInv
  <2>4. QED  BY <1>1, <1>5, <2>1, <2>2, <2>3, KeptIsMine
<1>9. QED  BY <1>5, <1>7, <1>8 DEF MineInv, MineOf, Branch

\* After the call that moves the branch a request has its commit on it, or none.
LEMMA MovedRequest ==
  ASSUME TypeInv, NEW t \in Requests, NEW lost \in BOOLEAN, MoveBranch(t, lost)
  PROVE  /\ task'[t].pc # "move" /\ \A s \in Requests \ {t} : task'[s] = task[s]
         /\ task'[t].told \subseteq task[t].told
         /\ \/ task'[t].mine = 0 /\ task'[t].pc \notin Made
            \/ /\ Takes(t) /\ UNCHANGED answered
               /\ task'[t].pc = "done" /\ task'[t].mine = task[t].mine /\ task'[t].base = task[t].base
<1>1. task \in [Requests -> Task] /\ task[t].pc = "move"
  BY DEF TypeInv, MoveBranch
<1>2. CASE task' = [task EXCEPT ![t] = Over]
  <2>1. Over.mine = 0 /\ Over.told = {} /\ Over.pc \notin Made /\ Over.pc # "move"
    BY DEF Over, Fresh, Made, Moved
  <2>2. QED  BY <1>1, <1>2, <2>1
<1>3. CASE Goes(t, Follows.moved) /\ UNCHANGED answered /\ Takes(t)
  BY <1>1, <1>3 DEF Goes, Follows, Task
<1>4. QED  BY <1>2, <1>3 DEF MoveBranch, Answer

LEMMA MovedIsMine ==
  ASSUME TypeInv, MineInv, ScanInv, [Next]_vars,
         NEW t \in Requests, NEW lost \in BOOLEAN, MoveBranch(t, lost)
  PROVE  MineInv'
<1>1. task \in [Requests -> Task] /\ task[t].pc = "move" /\ commits' = commits
  BY DEF TypeInv, MoveBranch
<1>2. MineOf(t)'
  <2>1. CASE task'[t].mine = 0 /\ task'[t].pc \notin Made
    BY <2>1 DEF MineOf, Made
  <2>2. CASE /\ Takes(t) /\ UNCHANGED answered
             /\ task'[t].pc = "done" /\ task'[t].mine = task[t].mine /\ task'[t].base = task[t].base
    <3>1. task[t].mine \in Branch'
      BY <2>2, BranchWhenMoved
    <3>2. MineOf(t)
      BY MineIsOf
    <3>3. QED  BY <1>1, <2>2, <3>1, <3>2 DEF MineOf, Made, Moved
  <2>3. QED  BY <2>1, <2>2, MovedRequest
<1>3. ASSUME NEW s \in Requests \ {t} PROVE MineOf(s)' /\ task'[s].mine = task[s].mine
  <2>1. task'[s] = task[s]
    BY MovedRequest
  <2>2. \A l \in BOOLEAN : ~MoveBranch(s, l)
    BY <2>1, MovedRequest DEF MoveBranch
  <2>3. QED  BY <2>1, <2>2, KeptIsMine DEF Keeps
<1>4. task'[t].mine = 0 \/ task'[t].mine = task[t].mine
  BY MovedRequest
<1>5. \A s, u \in Requests : s # u /\ task[s].mine = task[u].mine => task[s].mine = 0
  BY DEF MineInv
<1>6. \A s, u \in Requests : s # u /\ task'[s].mine = task'[u].mine => task'[s].mine = 0
  BY <1>3, <1>4, <1>5
<1>7. QED  BY <1>2, <1>3, <1>6 DEF MineInv, MineOf, Branch

LEMMA MineNext == ASSUME TypeInv, MineInv, ScanInv, [Next]_vars PROVE MineInv'
<1>1. CASE \E t \in Requests : MakeCommit(t)
  BY <1>1, MadeIsMine
<1>2. CASE \E t \in Requests, lost \in BOOLEAN : MoveBranch(t, lost)
  BY <1>2, MovedIsMine
<1>3. ASSUME \A t \in Requests : Keeps(t), ~\E t \in Requests, lost \in BOOLEAN : MoveBranch(t, lost)
      PROVE  MineInv'
  <2>1. \A t \in Requests : MineOf(t)'
    BY <1>3, KeptIsMine
  <2>2. \A t \in Requests : task'[t].mine = 0 \/ task'[t].mine = task[t].mine
    BY <1>3 DEF Keeps
  <2>3. \A s, u \in Requests : s # u /\ task'[s].mine = task'[u].mine => task'[s].mine = 0
    BY <2>2 DEF MineInv
  <2>4. QED  BY <2>1, <2>3 DEF MineInv, MineOf, Branch
<1>4. CASE \E t \in Requests, works \in BOOLEAN : SetSecret(t, works)
  BY <1>2, <1>3, <1>4, SecretKeeps
<1>5. CASE \A t \in Requests : Quiet(t)
  BY <1>2, <1>3, <1>5 DEF Quiet
<1>6. QED  BY <1>1, <1>2, <1>4, <1>5, QuietSteps

-----------------------------------------------------------------------------
(* The properties, step by step *)

LEMMA PushesNext == ASSUME TypeInv, MineInv, ScanInv, PushesStay, [Next]_vars PROVE PushesStay'
<1> SUFFICES ASSUME NEW c \in DOMAIN commits', commits'[c].by = "user" PROVE c \in Branch'
  BY DEF PushesStay, Branch
<1>1. CASE c \in DOMAIN commits
  <2>1. c \in Branch
    BY <1>1, CommitsStay DEF PushesStay, Branch
  <2>2. QED  BY <2>1, BranchGrows
<1>2. CASE c \notin DOMAIN commits
  <2>1. ASSUME NEW t \in Requests, MakeCommit(t) PROVE FALSE
    <3>1. c = Len(commits) + 1
      BY <1>2, <2>1 DEF MakeCommit, TypeInv
    <3>2. commits'[c].by = "webo"
      BY <2>1, <3>1 DEF MakeCommit, TypeInv
    <3>3. QED  BY <3>2
  <2>2. ASSUME NEW tree \in Edits(Tree(head)), Push(tree) PROVE c \in Branch'
    <3>1. c = Len(commits) + 1
      BY <1>2, <2>2 DEF Push, TypeInv
    <3>2. QED  BY <2>2, <3>1, BranchWhenPushed
  <2>3. ASSUME NEW t \in Requests, NEW lost \in BOOLEAN, MoveBranch(t, lost) PROVE UNCHANGED commits
    BY <2>3 DEF MoveBranch
  <2>4. QED  BY <1>2, <2>1, <2>2, <2>3, BranchSteps
<1>3. QED  BY <1>1, <1>2

LEMMA AnswersNext ==
  ASSUME TypeInv, MineInv, ScanInv, AnswersAreTrue, [Next]_vars PROVE AnswersAreTrue'
<1>1. ASSUME NEW c \in answered'.deployed PROVE c \in Branch'
  BY DeployedStep, BranchGrows DEF AnswersAreTrue, Branch
<1>2. ASSUME NEW c \in answered'.failed PROVE c \notin Branch'
  <2>1. CASE c \in answered.failed
    <3>1. c \notin Branch /\ c \in DOMAIN commits
      BY <2>1 DEF AnswersAreTrue, Branch, TypeInv
    <3>2. \A t \in Requests, lost \in BOOLEAN : MoveBranch(t, lost) => task[t].mine # c
      BY <2>1 DEF MoveBranch, MineInv, Made
    <3>3. QED  BY <3>1, <3>2, BranchGrows
  <2>2. QED  BY <2>1, FailedStep
<1>3. QED  BY <1>1, <1>2 DEF AnswersAreTrue, Branch

LEMMA SecretsStay ==
  ASSUME [Next]_vars
  PROVE  secrets' = secrets \/ \E t \in Requests, works \in BOOLEAN : SetSecret(t, works)
<1>1. ASSUME NEW t \in Requests, \/ Create(t) \/ Provision(t) \/ ScanInfo(t) \/ Register(t) \/ Plan(t)
                                \/ ReadHead(t) \/ MakeCommit(t) \/ CallFails(t) \/ SetStatus(t)
                                \/ Spawn(t) \/ HangUp(t)
      PROVE  secrets' = secrets
  BY <1>1 DEF Create, Provision, Starts, ScanInfo, Register, Plan, ReadHead, MakeCommit, CallFails,
              SetStatus, Spawn, HangUp
<1>2. ASSUME NEW t \in Requests, NEW read \in BOOLEAN, ScanFile(t, read) \/ Poll(t, read) \/ MoveBranch(t, read)
      PROVE  secrets' = secrets
  BY <1>2 DEF ScanFile, Poll, MoveBranch
<1>3. ASSUME \/ \E tree \in Edits(Tree(head)) : Push(tree)
             \/ \E c \in queued : RunStarts(c)
             \/ \E i \in DOMAIN runs : RunEnds(i)
             \/ Restart \/ UNCHANGED vars
      PROVE  secrets' = secrets
  BY <1>3 DEF Push, RunStarts, RunEnds, Restart, vars
<1>4. QED  BY <1>1, <1>2, <1>3 DEF Next

LEMMA RunsStay ==
  ASSUME [Next]_vars
  PROVE  \/ runs' = runs
         \/ \E c \in queued : RunStarts(c)
         \/ \E i \in DOMAIN runs : RunEnds(i)
<1>1. ASSUME NEW t \in Requests, \/ Create(t) \/ Provision(t) \/ ScanInfo(t) \/ Register(t) \/ Plan(t)
                                \/ ReadHead(t) \/ MakeCommit(t) \/ CallFails(t) \/ SetStatus(t)
                                \/ Spawn(t) \/ HangUp(t)
      PROVE  runs' = runs
  BY <1>1 DEF Create, Provision, Starts, ScanInfo, Register, Plan, ReadHead, MakeCommit, CallFails,
              SetStatus, Spawn, HangUp
<1>2. ASSUME NEW t \in Requests, NEW read \in BOOLEAN,
             ScanFile(t, read) \/ SetSecret(t, read) \/ Poll(t, read) \/ MoveBranch(t, read)
      PROVE  runs' = runs
  BY <1>2 DEF ScanFile, SetSecret, Poll, MoveBranch
<1>3. ASSUME (\E tree \in Edits(Tree(head)) : Push(tree)) \/ Restart \/ UNCHANGED vars
      PROVE  runs' = runs
  BY <1>3 DEF Push, Restart, vars
<1>4. QED  BY <1>1, <1>2, <1>3 DEF Next

\* What SetSecret does to its request and to the others.
LEMMA SecretStep ==
  ASSUME TypeInv, NEW t \in Requests, NEW works \in BOOLEAN, SetSecret(t, works)
  PROVE  /\ secrets \subseteq secrets' /\ \A s \in Requests \ {t} : task'[s] = task[s]
         /\ task'[t].mine = task[t].mine /\ task[t].pc = "secrets"
         /\ task[t].told \subseteq secrets => task'[t].told \subseteq secrets'
<1>1. PICK set, pc, next :
        /\ secrets' = secrets \cup set
        /\ task' = [task EXCEPT ![t] = [task[t] EXCEPT !.next = next, !.told = @ \cup set, !.pc = pc]]
  BY DEF SetSecret
<1>2. task \in [Requests -> Task] /\ task[t].pc = "secrets"
  BY DEF TypeInv, SetSecret
<1>3. task'[t].told = task[t].told \cup set /\ task'[t].mine = task[t].mine
  BY <1>1, <1>2 DEF Task
<1>4. QED  BY <1>1, <1>2, <1>3

\* A request that has its commit is told nothing more.
LEMMA ToldSteps ==
  ASSUME TypeInv, MineInv, [Next]_vars, NEW t \in Requests
  PROVE  \/ task'[t].mine = task[t].mine /\ task'[t].told \subseteq task[t].told
         \/ task'[t].mine = 0
         \/ task'[t].mine \notin DOMAIN commits /\ task'[t].told \subseteq task[t].told
<1>1. CASE \A s \in Requests : Quiet(s)
  BY <1>1 DEF Quiet, Keeps
<1>2. ASSUME NEW s \in Requests, NEW works \in BOOLEAN, SetSecret(s, works)
      PROVE  task'[t] = task[t] \/ task'[t].mine = 0
  BY <1>2, SecretStep DEF MineInv, Made, Moved
<1>3. ASSUME NEW s \in Requests, MakeCommit(s)
      PROVE  \/ task'[t] = task[t]
             \/ task'[t].mine = Len(commits) + 1 /\ task'[t].told = task[t].told
  BY <1>3 DEF MakeCommit, TypeInv, Task
<1>4. Len(commits) + 1 \notin DOMAIN commits
  BY DEF TypeInv
<1>5. ASSUME NEW s \in Requests, NEW lost \in BOOLEAN, MoveBranch(s, lost)
      PROVE  task'[t].told \subseteq task[t].told /\ task'[t].mine \in {0, task[t].mine}
  BY <1>5, MovedRequest
<1>6. QED  BY <1>1, <1>2, <1>3, <1>4, <1>5, QuietSteps

LEMMA ToldNext == ASSUME TypeInv, MineInv, ToldInv, [Next]_vars PROVE ToldInv'
<1>1. ASSUME NEW t \in Requests, NEW works \in BOOLEAN, SetSecret(t, works) PROVE ToldInv'
  BY <1>1, SecretStep DEF ToldInv
<1>2. ASSUME \A t \in Requests : task'[t].told \subseteq task[t].told, secrets' = secrets PROVE ToldInv'
  BY <1>2 DEF ToldInv
<1>3. CASE \A t \in Requests : Quiet(t)
  BY <1>1, <1>2, <1>3, SecretsStay DEF Quiet
<1>4. ASSUME NEW t \in Requests, MakeCommit(t) PROVE ToldInv'
  <2>1. secrets' = secrets /\ \A s \in Requests : task'[s].told = task[s].told
    BY <1>4 DEF MakeCommit, TypeInv, Task
  <2>2. QED  BY <1>2, <2>1
<1>5. ASSUME NEW t \in Requests, NEW lost \in BOOLEAN, MoveBranch(t, lost) PROVE ToldInv'
  <2>1. \A s \in Requests : task'[s].told \subseteq task[s].told
    BY <1>5, MovedRequest
  <2>2. secrets' = secrets
    BY <1>5 DEF MoveBranch
  <2>3. QED  BY <1>2, <2>1, <2>2
<1>6. QED  BY <1>1, <1>3, <1>4, <1>5, QuietSteps

\* A run is listed as it was, or has ended, or begins with the secrets there are.
LEMMA RunsStep ==
  ASSUME TypeInv, [Next]_vars, NEW i \in DOMAIN runs'
  PROVE  \/ i \in DOMAIN runs /\ runs'[i].commit = runs[i].commit /\ runs'[i].found = runs[i].found
         \/ runs'[i].found = secrets /\ UNCHANGED task
<1>1. ASSUME NEW c \in queued, RunStarts(c)
      PROVE  \/ i \in DOMAIN runs /\ runs'[i] = runs[i]
             \/ runs'[i].found = secrets /\ UNCHANGED task
  BY <1>1 DEF RunStarts, TypeInv
<1>2. ASSUME NEW j \in DOMAIN runs, RunEnds(j)
      PROVE  i \in DOMAIN runs /\ runs'[i].commit = runs[i].commit /\ runs'[i].found = runs[i].found
  <2>1. runs \in Seq(Run) /\ runs' = [runs EXCEPT ![j].ended = TRUE]
    BY <1>2 DEF RunEnds, TypeInv
  <2>2. i \in DOMAIN runs /\ runs[i] \in Run
    BY <2>1
  <2>3. QED  BY <2>1, <2>2 DEF Run
<1>3. QED  BY <1>1, <1>2, RunsStay

LEMMA RunsFindNext ==
  ASSUME TypeInv, TypeInv', MineInv, ToldInv, RunsFindTheirSecrets, [Next]_vars
  PROVE  RunsFindTheirSecrets'
<1> SUFFICES ASSUME NEW t \in Requests, NEW i \in DOMAIN runs', runs'[i].commit = task'[t].mine
             PROVE  task'[t].told \subseteq runs'[i].found
  BY DEF RunsFindTheirSecrets
<1>1. task'[t].mine # 0
  BY DEF TypeInv
<1>2. CASE runs'[i].found = secrets /\ UNCHANGED task
  BY <1>2 DEF ToldInv
<1>3. CASE i \in DOMAIN runs /\ runs'[i].commit = runs[i].commit /\ runs'[i].found = runs[i].found
  <2>1. runs[i].commit \in DOMAIN commits
    BY <1>3 DEF TypeInv
  <2>2. task'[t].mine = task[t].mine /\ task'[t].told \subseteq task[t].told
    BY <1>1, <1>3, <2>1, ToldSteps
  <2>3. task[t].told \subseteq runs[i].found
    BY <1>3, <2>2 DEF RunsFindTheirSecrets
  <2>4. QED  BY <1>3, <2>2, <2>3
<1>4. QED  BY <1>2, <1>3, RunsStep

-----------------------------------------------------------------------------
(* The scan and what is made of it *)

Files == [c \in DOMAIN commits |-> Present(Tree(c))]

\* What ScanInv says of one request.
ScanOf(t) ==
  /\ task[t].pc \in Scans \cup Commits =>
       /\ task[t].since \in DOMAIN commits /\ task[t].since <= head
       /\ ~task[t].unread /\ task[t].since = head =>
            task[t].found = Asked(task[t].pc) \cap Files[task[t].since]
  /\ task[t].pc \in {"new", "info"} => task[t].found = {}
  /\ task[t].pc \in Commits => Detect(task[t].found) # "none"
  /\ task[t].pc = "object" =>
       /\ task[t].base \in DOMAIN commits
       /\ ~task[t].unread /\ task[t].since = task[t].base => task[t].found = Files[task[t].base]

LEMMA ScanIsOf == ScanInv <=> \A t \in Requests : ScanOf(t)
BY DEF ScanInv, ScanOf, Files, Supported

LEMMA FilesAreMarkers == \A c \in DOMAIN commits : Files[c] \subseteq Markers
BY DEF Files, Present

LEMMA FilesStay ==
  ASSUME TypeInv, ScanInv, [Next]_vars, NEW c \in DOMAIN commits
  PROVE  c \in DOMAIN commits' /\ Files'[c] = Files[c]
<1>1. c \in DOMAIN commits' /\ commits'[c] = commits[c]
  BY CommitsStay
<1>2. QED  BY <1>1 DEF Files, Tree

\* A request that goes on as it was: a branch that moved is past what it scanned.
LEMMA ScanKept ==
  ASSUME TypeInv, TypeInv', MineInv, ScanInv, [Next]_vars, NEW t \in Requests,
         task'[t].pc = task[t].pc, task'[t].found = task[t].found, task'[t].since = task[t].since,
         task'[t].unread <=> task[t].unread, task'[t].base = task[t].base
  PROVE  ScanOf(t)'
<1>1. ScanOf(t)
  BY ScanIsOf
<1>2. head <= head' /\ head \in Nat /\ head' \in Nat
  BY BranchGrows DEF TypeInv
<1>3. CASE task[t].pc \in Scans \cup Commits
  <2>1. /\ task[t].since \in DOMAIN commits /\ task[t].since \in Nat /\ task[t].since <= head
        /\ task[t].since \in DOMAIN commits' /\ Files'[task[t].since] = Files[task[t].since]
    BY <1>1, <1>3, FilesStay DEF ScanOf, TypeInv
  <2>2. task[t].since <= head' /\ (task[t].since = head' => task[t].since = head)
    BY <1>2, <2>1
  <2>3. task[t].pc = "object" =>
          task[t].base \in DOMAIN commits' /\ Files'[task[t].base] = Files[task[t].base]
    BY <1>1, FilesStay DEF ScanOf
  <2>4. task[t].pc \notin {"new", "info"}
    BY <1>3 DEF Scans, Commits
  <2>5. QED  BY <1>1, <1>3, <2>1, <2>2, <2>3, <2>4 DEF ScanOf
<1>4. CASE task[t].pc \notin Scans \cup Commits
  BY <1>1, <1>4 DEF ScanOf, Commits
<1>5. QED  BY <1>3, <1>4

\* A request that is over, or has its commit, no longer says what it scanned.
LEMMA ScanOver ==
  ASSUME NEW t \in Requests, task'[t].pc \in {"over"} \cup Made
  PROVE  ScanOf(t)'
BY DEF ScanOf, Scans, Commits, Made, Moved

LEMMA ScanFileNext ==
  ASSUME TypeInv, TypeInv', MineInv, ScanInv, [Next]_vars,
         NEW t \in Requests, NEW read \in BOOLEAN, ScanFile(t, read)
  PROVE  ScanOf(t)'
<1> DEFINE f == FileAt(task[t].pc)
           there == f \in Present(Tree(head))
<1>1. task \in [Requests -> Task] /\ UNCHANGED <<commits, head>> /\ head \in DOMAIN commits
  BY DEF TypeInv, ScanFile
<1>2. /\ task'[t].pc = Then[task[t].pc] /\ task'[t].since = task[t].since
      /\ task'[t].found = IF read /\ there THEN task[t].found \cup {f} ELSE task[t].found
      /\ task'[t].unread <=> (task[t].unread \/ (~read /\ there))
  BY <1>1 DEF ScanFile, Task
<1>3. task[t].pc \in {"Gemfile", "package", "Dockerfile"}
  BY DEF ScanFile
<1>4. /\ Then[task[t].pc] \in {"package", "Dockerfile", "planned"}
      /\ Asked(Then[task[t].pc]) = Asked(task[t].pc) \cup {f}
  BY <1>3 DEF Then, Asked, FileAt, Markers
<1>5. ScanOf(t) /\ Files' = Files /\ Files[head] = Present(Tree(head))
  BY <1>1, ScanIsOf DEF Files, Tree
<1> HIDE DEF f
<1>6. task[t].since \in DOMAIN commits /\ task[t].since <= head
  BY <1>3, <1>5 DEF ScanOf, Scans
<1>7. ASSUME ~task'[t].unread, task[t].since = head
      PROVE  task'[t].found = Asked(task'[t].pc) \cap Files[head]
  <2>1. ~task[t].unread /\ (there => read)
    BY <1>2, <1>7
  <2>2. task[t].found = Asked(task[t].pc) \cap Files[head]
    BY <1>3, <1>5, <1>7, <2>1 DEF ScanOf, Scans
  <2>3. task'[t].found = IF there THEN task[t].found \cup {f} ELSE task[t].found
    BY <1>2, <2>1
  <2>4. QED  BY <1>2, <1>4, <1>5, <2>2, <2>3
<1>8. QED  BY <1>1, <1>2, <1>4, <1>5, <1>6, <1>7 DEF ScanOf, Commits

LEMMA ScanNext ==
  ASSUME TypeInv, TypeInv', MineInv, ScanInv, [Next]_vars PROVE ScanInv'
<1>t. task \in [Requests -> Task]
  BY DEF TypeInv
<1>s. \A t \in Requests : ScanOf(t)
  BY ScanIsOf
\* It is enough to look at the request that takes the step.
<1>o. ASSUME NEW t \in Requests, ScanOf(t)', \A s \in Requests \ {t} : task'[s] = task[s]
      PROVE  \A s \in Requests : ScanOf(s)'
  <2>1. ASSUME NEW s \in Requests \ {t} PROVE ScanOf(s)'
    BY <1>o, <2>1, ScanKept
  <2>2. QED  BY <1>o, <2>1
<1>a. ASSUME NEW t \in Requests, NEW how, Answer(t, how) PROVE \A s \in Requests : ScanOf(s)'
  <2>1. task'[t].pc = "over" /\ \A s \in Requests \ {t} : task'[s] = task[s]
    BY <1>a, <1>t DEF Answer, Over, Fresh
  <2>2. ScanOf(t)'
    BY <2>1, ScanOver
  <2>3. QED  BY <1>o, <2>1, <2>2
<1>1. ASSUME NEW t \in Requests, NEW op, Starts(t, op) PROVE \A s \in Requests : ScanOf(s)'
  <2>1. task[t].pc = "new" /\ task' = [task EXCEPT ![t] = [task[t] EXCEPT !.pc = "info", !.op = op]]
    BY <1>1 DEF Starts
  <2>2. task'[t].pc = "info" /\ task'[t].found = task[t].found
    BY <1>t, <2>1 DEF Task
  <2>3. ScanOf(t)'
    BY <1>s, <2>1, <2>2 DEF ScanOf, Scans, Commits
  <2>4. QED  BY <1>o, <1>t, <2>1, <2>3
<1>2. ASSUME NEW t \in Requests, ScanInfo(t) PROVE \A s \in Requests : ScanOf(s)'
  <2>1. /\ task[t].pc = "info" /\ UNCHANGED <<commits, head>>
        /\ task' = [task EXCEPT ![t] = [task[t] EXCEPT !.pc = "Gemfile", !.since = head]]
    BY <1>2 DEF ScanInfo, Then
  <2>2. task'[t].pc = "Gemfile" /\ task'[t].since = head /\ task'[t].found = task[t].found
    BY <1>t, <2>1 DEF Task
  <2>3. head \in DOMAIN commits /\ head <= head /\ task[t].found = {} /\ Asked("Gemfile") = {}
    BY <1>s, <2>1 DEF TypeInv, ScanOf, Asked
  <2>4. ScanOf(t)'
    BY <2>1, <2>2, <2>3 DEF ScanOf, Commits
  <2>5. QED  BY <1>o, <1>t, <2>1, <2>4
<1>3. ASSUME NEW t \in Requests, NEW read \in BOOLEAN, ScanFile(t, read)
      PROVE  \A s \in Requests : ScanOf(s)'
  BY <1>3, <1>o, <1>t, ScanFileNext DEF ScanFile
<1>4. ASSUME NEW t \in Requests, Register(t) PROVE \A s \in Requests : ScanOf(s)'
  <2>1. task'[t].pc = "over" /\ \A s \in Requests \ {t} : task'[s] = task[s]
    BY <1>4, <1>t DEF Register, Over, Fresh
  <2>2. QED  BY <1>o, <2>1, ScanOver
<1>5. ASSUME NEW t \in Requests, Plan(t) PROVE \A s \in Requests : ScanOf(s)'
  <2>1. CASE Supported(t) /\ Goes(t, "secrets") /\ UNCHANGED <<commits, head>> /\ task[t].pc = "planned"
    <3>1. task' = [task EXCEPT ![t] = [task[t] EXCEPT !.pc = "secrets"]]
      BY <2>1 DEF Goes
    <3>2. /\ task'[t].pc = "secrets" /\ task'[t].since = task[t].since /\ task'[t].found = task[t].found
          /\ task'[t].unread <=> task[t].unread
      BY <1>t, <3>1 DEF Task
    <3>3. Asked("secrets") = Asked("planned") /\ Files' = Files
      BY <2>1 DEF Asked, Files, Tree
    <3>4. ScanOf(t)'
      BY <1>s, <2>1, <3>2, <3>3 DEF ScanOf, Scans, Commits, Supported
    <3>5. QED  BY <1>o, <1>t, <3>1, <3>4
  <2>2. QED  BY <1>5, <1>a, <2>1 DEF Plan, Follows
<1>6. ASSUME NEW t \in Requests, NEW works \in BOOLEAN, SetSecret(t, works)
      PROVE  \A s \in Requests : ScanOf(s)'
  <2>1. PICK pc \in {"secrets", "head"} : \E next, told :
          task' = [task EXCEPT ![t] = [task[t] EXCEPT !.next = next, !.told = told, !.pc = pc]]
    <3> DEFINE pc == IF task[t].next = Len(SecretNames) THEN Follows.secrets ELSE task[t].pc
    <3>1. pc \in {"secrets", "head"}
      BY <1>6 DEF SetSecret, Follows
    <3>2. \E next, told :
            task' = [task EXCEPT ![t] = [task[t] EXCEPT !.next = next, !.told = told, !.pc = pc]]
      BY <1>6 DEF SetSecret
    <3>3. QED  BY <3>1, <3>2
  <2>2. /\ task'[t].pc = pc /\ task'[t].since = task[t].since /\ task'[t].found = task[t].found
        /\ task'[t].unread <=> task[t].unread
    BY <1>t, <2>1 DEF Task
  <2>3. task[t].pc = "secrets" /\ UNCHANGED <<commits, head>>
    BY <1>6 DEF SetSecret
  <2>4. Asked(pc) = Asked("secrets") /\ Files' = Files
    BY <2>3 DEF Asked, Files, Tree
  <2>5. ScanOf(t)'
    BY <1>s, <2>2, <2>3, <2>4 DEF ScanOf, Scans, Commits
  <2>6. QED  BY <1>o, <1>t, <2>1, <2>5
<1>7. ASSUME NEW t \in Requests, ReadHead(t) PROVE \A s \in Requests : ScanOf(s)'
  <2>1. /\ task[t].pc = "head" /\ UNCHANGED <<commits, head>>
        /\ task' = [task EXCEPT ![t] = [task[t] EXCEPT !.pc = "object", !.base = head]]
    BY <1>7 DEF ReadHead
  <2>2. /\ task'[t].pc = "object" /\ task'[t].since = task[t].since /\ task'[t].found = task[t].found
        /\ task'[t].unread <=> task[t].unread /\ task'[t].base = head
    BY <1>t, <2>1 DEF Task
  <2>3. head \in DOMAIN commits /\ Files' = Files /\ Files[head] \subseteq Markers
    BY <2>1, FilesAreMarkers DEF TypeInv, Files, Tree
  <2>4. Asked("head") = Markers /\ Asked("object") = Markers
    BY DEF Asked
  <2>5. /\ task[t].since \in DOMAIN commits /\ task[t].since <= head /\ Detect(task[t].found) # "none"
        /\ ~task[t].unread /\ task[t].since = head => task[t].found = Files[head]
    BY <1>s, <2>1, <2>3, <2>4 DEF ScanOf, Commits
  <2>6. ScanOf(t)'
    BY <2>1, <2>2, <2>3, <2>4, <2>5 DEF ScanOf, Commits
  <2>7. QED  BY <1>o, <1>t, <2>1, <2>6
<1>8. ASSUME NEW t \in Requests, MakeCommit(t) \/ SetStatus(t) PROVE \A s \in Requests : ScanOf(s)'
  <2>1. task'[t].pc \in {"move", "reserve"} /\ \A s \in Requests \ {t} : task'[s] = task[s]
    BY <1>8, <1>t DEF MakeCommit, SetStatus, Goes, Task
  <2>2. QED  BY <1>o, <2>1, ScanOver DEF Made, Moved
<1>9. ASSUME NEW t \in Requests, CallFails(t) \/ Spawn(t) PROVE \A s \in Requests : ScanOf(s)'
  BY <1>9, <1>a DEF CallFails, Spawn
<1>10. ASSUME NEW t \in Requests, HangUp(t) PROVE \A s \in Requests : ScanOf(s)'
  <2>1. CASE task' = [task EXCEPT ![t] = [task[t] EXCEPT !.heard = FALSE]]
    <3>1. /\ task'[t].pc = task[t].pc /\ task'[t].since = task[t].since /\ task'[t].found = task[t].found
          /\ task'[t].unread = task[t].unread /\ task'[t].base = task[t].base
      BY <1>t, <2>1 DEF Task
    <3>2. ScanOf(t)'
      BY <3>1, ScanKept
    <3>3. QED  BY <1>o, <1>t, <2>1, <3>2
  <2>2. QED  BY <1>10, <1>a, <2>1 DEF HangUp
<1>11. ASSUME NEW t \in Requests, NEW lost \in BOOLEAN, MoveBranch(t, lost)
       PROVE  \A s \in Requests : ScanOf(s)'
  <2>1. CASE Goes(t, "done")
    <3>1. task'[t].pc = "done" /\ \A s \in Requests \ {t} : task'[s] = task[s]
      BY <1>t, <2>1 DEF Goes, Task
    <3>2. QED  BY <1>o, <3>1, ScanOver DEF Made, Moved
  <2>2. QED  BY <1>11, <1>a, <2>1 DEF MoveBranch, Follows
<1>12. ASSUME Restart PROVE \A s \in Requests : ScanOf(s)'
  <2>1. ASSUME NEW s \in Requests PROVE ScanOf(s)'
    <3>1. task'[s].pc = "over" \/ (task'[s].pc = "new" /\ task'[s].found = {})
      BY <1>12 DEF Restart, Fresh, Over
    <3>2. QED  BY <3>1 DEF ScanOf, Scans, Commits
  <2>2. QED  BY <2>1
<1>13. ASSUME UNCHANGED task PROVE \A s \in Requests : ScanOf(s)'
  BY <1>13, ScanKept
<1>14. ASSUME NEW t \in Requests, NEW seen \in BOOLEAN, Poll(t, seen) PROVE UNCHANGED task
  BY <1>14 DEF Poll
<1>15. ASSUME \/ \E tree \in Edits(Tree(head)) : Push(tree)
              \/ \E c \in queued : RunStarts(c)
              \/ \E i \in DOMAIN runs : RunEnds(i)
              \/ UNCHANGED vars
       PROVE  UNCHANGED task
  BY <1>15 DEF Push, RunStarts, RunEnds, vars
<1>16. ASSUME NEW t \in Requests,
              \/ Create(t) \/ Provision(t) \/ ScanInfo(t) \/ Register(t) \/ Plan(t)
              \/ \E read \in BOOLEAN : ScanFile(t, read) \/ SetSecret(t, read) \/ Poll(t, read)
              \/ ReadHead(t) \/ MakeCommit(t) \/ CallFails(t) \/ SetStatus(t) \/ Spawn(t) \/ HangUp(t)
              \/ \E lost \in BOOLEAN : MoveBranch(t, lost)
       PROVE  \A s \in Requests : ScanOf(s)'
  BY <1>1, <1>2, <1>3, <1>4, <1>5, <1>6, <1>7, <1>8, <1>9, <1>10, <1>11, <1>13, <1>14, <1>16
     DEF Create, Provision
<1>17. \A s \in Requests : ScanOf(s)'
  BY <1>12, <1>13, <1>15, <1>16 DEF Next
<1>18. QED  BY <1>17 DEF ScanInv, ScanOf, Files, Supported

\* What ScaffoldFits says of one commit in a sequence of commits.
Fits(cs, c) ==
  cs[c].by = "webo" =>
    /\ cs[c].parent \in DOMAIN cs
    /\ ~cs[c].unread /\ cs[c].since = cs[c].parent =>
         /\ cs[c].tree.deploy = Detect(Present(cs[cs[c].parent].tree))
         /\ cs[cs[c].parent].tree.Dockerfile = "user" => cs[c].tree.Dockerfile = "user"

LEMMA FitsIsScaffold == (\A c \in DOMAIN commits : Fits(commits, c)) <=> BuiltOn /\ ScaffoldFits
BY DEF Fits, BuiltOn, ScaffoldFits, Tree

\* The commit made is the plan of what was found, on the tree it was found in.
LEMMA MadeFits ==
  ASSUME TypeInv, ScanInv, NEW t \in Requests, MakeCommit(t)
  PROVE  Fits(commits', Len(commits) + 1)
<1> DEFINE base == task[t].base
           x == [parent |-> base, tree |-> Planned(Tree(base), task[t].found), by |-> "webo",
                 since |-> task[t].since, unread |-> task[t].unread]
           new == Len(commits) + 1
<1>1. base \in DOMAIN commits /\ Detect(task[t].found) # "none" /\ Tree(base) \in Trees
  BY TreesInTheRepository DEF MakeCommit, ScanInv, Commits, Supported
<1>2. x \in Commit
  BY <1>1, PlannedIsATree DEF TypeInv, Task, Commit
<1>3. commits' = Append(commits, x)
  BY DEF MakeCommit
<1>4. commits'[new] = x /\ base \in DOMAIN commits' /\ commits'[base] = commits[base]
  BY <1>1, <1>2, <1>3, Appended
<1>5. ASSUME ~task[t].unread, task[t].since = base
      PROVE  /\ x.tree.deploy = Detect(Present(Tree(base)))
             /\ Tree(base).Dockerfile = "user" => x.tree.Dockerfile = "user"
  <2>1. task[t].found = Present(Tree(base))
    BY <1>5 DEF MakeCommit, ScanInv
  <2>2. Tree(base).Dockerfile = "user" => "Dockerfile" \in Present(Tree(base))
    BY DEF Present, Markers
  <2>3. QED  BY <1>1, <2>1, <2>2, PlannedIsATree
<1>6. x.parent = base /\ x.since = task[t].since /\ (x.unread <=> task[t].unread)
  OBVIOUS
<1> HIDE DEF x, base
<1>7. QED  BY <1>4, <1>5, <1>6 DEF Fits, Tree

LEMMA ScaffoldNext ==
  ASSUME TypeInv, ScanInv, BuiltOn, ScaffoldFits, [Next]_vars PROVE BuiltOn' /\ ScaffoldFits'
<1>1. ASSUME NEW c \in DOMAIN commits PROVE Fits(commits', c)
  <2>1. Fits(commits, c) /\ commits'[c] = commits[c]
    BY FitsIsScaffold, CommitsStay
  <2>2. commits[c].by = "webo" =>
          /\ commits[c].parent \in DOMAIN commits /\ commits[c].parent \in DOMAIN commits'
          /\ commits'[commits[c].parent] = commits[commits[c].parent]
    BY CommitsStay DEF BuiltOn
  <2>3. QED  BY <2>1, <2>2 DEF Fits
<1>2. ASSUME NEW c \in DOMAIN commits' \ DOMAIN commits PROVE Fits(commits', c)
  <2>1. ASSUME NEW t \in Requests, MakeCommit(t) PROVE Fits(commits', c)
    <3>1. c = Len(commits) + 1
      BY <2>1 DEF MakeCommit, TypeInv
    <3>2. QED  BY <2>1, <3>1, MadeFits
  <2>2. ASSUME NEW tree \in Edits(Tree(head)), Push(tree) PROVE Fits(commits', c)
    <3>1. c = Len(commits) + 1 /\ commits'[c].by = "user"
      BY <2>2 DEF Push, TypeInv
    <3>2. QED  BY <3>1 DEF Fits
  <2>3. ASSUME NEW t \in Requests, NEW lost \in BOOLEAN, MoveBranch(t, lost) PROVE UNCHANGED commits
    BY <2>3 DEF MoveBranch
  <2>4. QED  BY <2>1, <2>2, <2>3, BranchSteps
<1>3. QED  BY <1>1, <1>2 DEF Fits, BuiltOn, ScaffoldFits, Tree

-----------------------------------------------------------------------------
(* The theorems *)

LEMMA DeployInit == Init => IInv
<1> SUFFICES ASSUME Init PROVE IInv
  OBVIOUS
<1>1. TypeInv
  BY TypeInit
<1>2. \A t \in Requests : task[t] = Fresh
  BY DEF Init
<1>3. Fresh.pc = "new" /\ Fresh.mine = 0 /\ Fresh.told = {} /\ Fresh.found = {}
  BY DEF Fresh
<1>4. DOMAIN commits = {1} /\ commits[1].by = "user" /\ head = 1 /\ runs = <<>>
  BY DEF Init
<1>5. answered.deployed = {} /\ answered.failed = {}
  BY DEF Init
<1>6. MineInv
  BY <1>2, <1>3 DEF MineInv, Made, Moved
<1>7. ToldInv
  BY <1>2, <1>3 DEF ToldInv
<1>8. ScanInv
  BY <1>2, <1>3 DEF ScanInv, Scans, Commits
<1>9. BuiltOn /\ ScaffoldFits
  BY <1>4 DEF BuiltOn, ScaffoldFits
<1>10. PushesStay
  BY <1>4 DEF PushesStay, Line
<1>11. AnswersAreTrue
  BY <1>5 DEF AnswersAreTrue
<1>12. RunsFindTheirSecrets
  BY <1>4 DEF RunsFindTheirSecrets
<1>13. QED
  BY <1>1, <1>6, <1>7, <1>8, <1>9, <1>10, <1>11, <1>12 DEF IInv

LEMMA DeployNext == IInv /\ [Next]_vars => IInv'
<1> SUFFICES ASSUME IInv, [Next]_vars PROVE IInv'
  OBVIOUS
<1>1. /\ TypeInv /\ MineInv /\ ToldInv /\ ScanInv /\ BuiltOn
      /\ PushesStay /\ AnswersAreTrue /\ RunsFindTheirSecrets /\ ScaffoldFits
  BY DEF IInv
<1>2. TypeInv'
  BY TypeNext
<1>3. MineInv' /\ ToldInv' /\ ScanInv'
  BY <1>1, <1>2, MineNext, ToldNext, ScanNext
<1>4. PushesStay' /\ AnswersAreTrue'
  BY <1>1, PushesNext, AnswersNext
<1>5. RunsFindTheirSecrets' /\ BuiltOn' /\ ScaffoldFits'
  BY <1>1, <1>2, RunsFindNext, ScaffoldNext
<1>6. QED  BY <1>2, <1>3, <1>4, <1>5 DEF IInv

LEMMA DeployInvariance == Spec => []IInv
<1>1. QED  BY DeployInit, DeployNext, PTL DEF Spec

\* Whatever two deploys, their retries and the server's restarts do to the
\* branch, a commit a user pushed stays in its history: GitHub takes a move
\* only from the commit that commit_files read as the head.
THEOREM NoPushIsLost == Spec => []PushesStay
<1>1. IInv => PushesStay
  BY DEF IInv
<1>2. QED  BY <1>1, DeployInvariance, PTL

\* What do_provision answers as deployed is on the branch and what it answers as
\* failed is not, and never comes to be: a failed commit is nobody's any more.
THEOREM AnswersStayTrue == Spec => []AnswersAreTrue
<1>1. IInv => AnswersAreTrue
  BY DEF IInv
<1>2. QED  BY <1>1, DeployInvariance, PTL

\* Every secret a deploy says it created was set before there was a commit, so
\* each run of that commit finds it, however late GitHub starts it.
THEOREM SecretsBeforeTheRun == Spec => []RunsFindTheirSecrets
<1>1. IInv => RunsFindTheirSecrets
  BY DEF IInv
<1>2. QED  BY <1>1, DeployInvariance, PTL

\* A scan that could read what it asked for, of a branch that nobody moved since,
\* gives a commit of the stack that is there and keeps a Dockerfile that is there.
THEOREM ScaffoldsFit == Spec => []ScaffoldFits
<1>1. IInv => ScaffoldFits
  BY DEF IInv
<1>2. QED  BY <1>1, DeployInvariance, PTL
=============================================================================
