------------------------ MODULE LogCollector_proofs ------------------------
(***************************************************************************)
(* What the collector and the issue tracker promise, for any number of     *)
(* containers, lines, fingerprints and occurrences.  First the tracker     *)
(* alone: what people decide about an issue stands, and an issue tells     *)
(* what was recorded of it and nothing else; the collector moves the       *)
(* tracker only by its own operations, so both hold of the whole.  Then    *)
(* the index, a copy of docker's log without gaps and without doubles,     *)
(* and last the errors that are recorded once for each line indexed.       *)
(***************************************************************************)
EXTENDS LogCollector, IssueReading, Lists_proofs

-----------------------------------------------------------------------------
(* Verdicts: FlagFollowsState ties the older resolved flag to them, without   *)
(* which a step of Migrate could undo one.                                    *)

\* The columns of the issues table, whatever ids, counts and times they hold.
HasColumns(row) ==
  /\ row = [id |-> row.id, state |-> row.state, resolved |-> row.resolved,
            count |-> row.count, last |-> row.last]
  /\ row.resolved \in BOOLEAN

Shape ==
  /\ issue = [f \in Fingerprints |-> issue[f]]
  /\ DOMAIN verdict = Fingerprints
  /\ DOMAIN again = Fingerprints
  /\ \A f \in Fingerprints : HasColumns(issue[f]) /\ verdict[f] \in States /\ again[f] \in BOOLEAN

VerdictInv == Shape /\ StateIsVerdict /\ FlagFollowsState

\* What the upsert does to the two columns the invariant is about.
LEMMA OccurredColumns ==
  ASSUME NEW row, HasColumns(row), NEW ts
  PROVE  /\ HasColumns(Occurred(row, ts))
         /\ Occurred(row, ts).id = row.id
         /\ Occurred(row, ts).state = IF row.state = "ignored" THEN "ignored" ELSE "open"
         /\ Occurred(row, ts).resolved = IF row.state = "ignored" THEN row.resolved ELSE FALSE
BY DEF HasColumns, Occurred, Bumped

LEMMA VerdictInit == TrackerInit => VerdictInv
<1> SUFFICES ASSUME TrackerInit PROVE VerdictInv
  OBVIOUS
<1>1. \A f \in Fingerprints : HasColumns(issue[f]) /\ ~Exists(f) /\ ~issue[f].resolved
                                                  /\ issue[f].state = "open"
  BY DEF TrackerInit, HasColumns, NoIssue, Exists
<1>2. Shape
  BY <1>1 DEF TrackerInit, Shape, States
<1>3. QED  BY <1>1, <1>2 DEF VerdictInv, StateIsVerdict, FlagFollowsState

LEMMA RecordErrorKeeps ==
  ASSUME VerdictInv, NEW g \in Fingerprints, NEW ts \in Times, RecordError(g, ts)
  PROVE  VerdictInv'
<1> DEFINE row == IF Exists(g) THEN Occurred(issue[g], ts)
                  ELSE [id |-> NextId, state |-> "open", resolved |-> FALSE,
                        count |-> 1, last |-> ts]
<1>1. /\ issue' = [issue EXCEPT ![g] = row]
      /\ verdict' = [verdict EXCEPT ![g] = IF Exists(g) THEN @ ELSE "open"]
      /\ again' = [again EXCEPT ![g] = TRUE]
  BY DEF RecordError
<1>2. HasColumns(row) /\ (row.resolved <=> row.state = "resolved")
  <2>1. CASE Exists(g)
    <3>1. HasColumns(issue[g]) /\ (issue[g].resolved <=> issue[g].state = "resolved")
      BY DEF VerdictInv, Shape, FlagFollowsState
    <3>2. QED  BY <2>1, <3>1, OccurredColumns DEF HasColumns
  <2>2. CASE ~Exists(g)
    BY <2>2 DEF HasColumns
  <2>3. QED  BY <2>1, <2>2
<1>3. row.state = IF Exists(g) /\ verdict[g] = "ignored" THEN "ignored" ELSE "open"
  <2>1. CASE Exists(g)
    <3>1. issue[g].state = "ignored" <=> verdict[g] = "ignored"
      BY <2>1 DEF VerdictInv, StateIsVerdict
    <3>2. Occurred(issue[g], ts).state = IF issue[g].state = "ignored" THEN "ignored" ELSE "open"
      BY OccurredColumns DEF VerdictInv, Shape
    <3>3. QED  BY <2>1, <3>1, <3>2
  <2>2. CASE ~Exists(g)
    BY <2>2
  <2>3. QED  BY <2>1, <2>2
<1> HIDE DEF row
<1>4. Shape'
  BY <1>1, <1>2 DEF VerdictInv, Shape, States
<1>5. FlagFollowsState'
  BY <1>1, <1>2 DEF VerdictInv, Shape, FlagFollowsState
<1>6. StateIsVerdict'
  <2> SUFFICES ASSUME NEW f \in Fingerprints, Exists(f)'
               PROVE  issue'[f].state = IF verdict'[f] = "resolved" /\ again'[f]
                                        THEN "open" ELSE verdict'[f]
    BY DEF StateIsVerdict
  <2>1. CASE f = g
    <3>1. /\ issue'[f] = row /\ again'[f] = TRUE
          /\ verdict'[f] = IF Exists(g) THEN verdict[g] ELSE "open"
      BY <1>1, <2>1 DEF VerdictInv, Shape
    <3>2. verdict[g] \in States
      BY DEF VerdictInv, Shape
    <3>3. QED  BY <1>3, <3>1, <3>2 DEF States
  <2>2. CASE f # g
    <3>1. issue'[f] = issue[f] /\ verdict'[f] = verdict[f] /\ (again'[f] <=> again[f])
      BY <1>1, <2>2 DEF VerdictInv, Shape
    <3>2. Exists(f)
      BY <3>1 DEF Exists
    <3>3. QED  BY <3>1, <3>2 DEF VerdictInv, StateIsVerdict
  <2>3. QED  BY <2>1, <2>2
<1>7. QED  BY <1>4, <1>5, <1>6 DEF VerdictInv

LEMMA SetStateKeeps ==
  ASSUME VerdictInv, NEW ids, NEW s \in States, SetState(ids, s)
  PROVE  VerdictInv'
<1> DEFINE hit == {f \in Fingerprints : Exists(f) /\ issue[f].id \in ids}
<1>1. /\ issue' = [f \in Fingerprints |->
                     IF f \in hit THEN Marked(issue[f], s, s = "resolved") ELSE issue[f]]
      /\ verdict' = [f \in Fingerprints |-> IF f \in hit THEN s ELSE verdict[f]]
      /\ again' = [f \in Fingerprints |-> f \notin hit /\ again[f]]
  BY DEF SetState
<1> HIDE DEF hit
<1>2. \A f \in Fingerprints :
        LET row == Marked(issue[f], s, s = "resolved")
        IN  HasColumns(row) /\ row.state = s /\ (row.resolved <=> s = "resolved")
  BY DEF Marked, HasColumns
<1>3. Shape'
  BY <1>1, <1>2 DEF VerdictInv, Shape
<1>4. FlagFollowsState'
  BY <1>1, <1>2 DEF VerdictInv, FlagFollowsState
<1>5. StateIsVerdict'
  <2> SUFFICES ASSUME NEW f \in Fingerprints, Exists(f)'
               PROVE  issue'[f].state = IF verdict'[f] = "resolved" /\ again'[f]
                                        THEN "open" ELSE verdict'[f]
    BY DEF StateIsVerdict
  <2>1. CASE f \in hit
    BY <1>1, <1>2, <2>1
  <2>2. CASE f \notin hit
    <3>1. issue'[f] = issue[f] /\ verdict'[f] = verdict[f] /\ (again'[f] <=> again[f])
      BY <1>1, <2>2
    <3>2. Exists(f)
      BY <3>1 DEF Exists
    <3>3. QED  BY <3>1, <3>2 DEF VerdictInv, StateIsVerdict
  <2>3. QED  BY <2>1, <2>2
<1>6. QED  BY <1>3, <1>4, <1>5 DEF VerdictInv

LEMMA DeleteIssuesKeeps ==
  ASSUME VerdictInv, NEW ids, DeleteIssues(ids)
  PROVE  VerdictInv'
BY DEF VerdictInv, Shape, HasColumns, StateIsVerdict, FlagFollowsState, Exists,
       DeleteIssues, NoIssue

\* With the flag and the state in agreement a migration has nothing to do.
LEMMA MigrateChangesNothing ==
  ASSUME VerdictInv, Migrate
  PROVE  issue' = issue
BY DEF VerdictInv, Shape, FlagFollowsState, Migrate

LEMMA VerdictNext == VerdictInv /\ [TrackerNext]_trackerVars => VerdictInv'
<1> SUFFICES ASSUME VerdictInv, [TrackerNext]_trackerVars PROVE VerdictInv'
  OBVIOUS
<1>1. CASE \E f \in Fingerprints, ts \in Times : RecordError(f, ts)
  BY <1>1, RecordErrorKeeps
<1>2. CASE \E ids \in SUBSET ListedIds, s \in States : SetState(ids, s)
  BY <1>2, SetStateKeeps
<1>3. CASE \E ids \in SUBSET ListedIds : DeleteIssues(ids)
  BY <1>3, DeleteIssuesKeeps
<1>4. CASE Migrate
  BY <1>4, MigrateChangesNothing
     DEF Migrate, VerdictInv, Shape, StateIsVerdict, FlagFollowsState, Exists
<1>5. CASE UNCHANGED trackerVars
  BY <1>5 DEF trackerVars, VerdictInv, Shape, HasColumns, StateIsVerdict, FlagFollowsState, Exists
<1>6. QED  BY <1>1, <1>2, <1>3, <1>4, <1>5 DEF TrackerNext

LEMMA VerdictInvariance == TrackerSpec => []VerdictInv
<1>1. QED  BY VerdictInit, VerdictNext, PTL DEF TrackerSpec

\* What a person decided about an issue is its state until they decide otherwise
\* or a resolved one occurs again: ignored issues never come back by themselves.
THEOREM VerdictStands == TrackerSpec => []StateIsVerdict
<1>1. VerdictInv => StateIsVerdict
  BY DEF VerdictInv
<1>2. QED  BY <1>1, VerdictInvariance, PTL

\* However often the server restarts, its migration changes no issue.
THEOREM MigrationIsQuiet == TrackerSpec => RestartForgetsNothing
<1>1. VerdictInv => [Migrate => issue' = issue]_trackerVars
  BY MigrateChangesNothing
<1>2. QED  BY <1>1, VerdictInvariance, PTL DEF RestartForgetsNothing
-----------------------------------------------------------------------------
(* The collector around the tracker *)

\* The passes, the prunes and docker leave the issues to record_error.
LEMMA CollectorStep == ASSUME Collector PROVE [TrackerNext]_trackerVars
<1>1. CASE Begin(Containers)
  BY <1>1 DEF Begin
<1>2. CASE \E c \in Containers : Fetch(c)
  BY <1>2 DEF Fetch
<1>3. CASE Skip \/ Store \/ RecordFails \/ NextContainer
  BY <1>3 DEF Skip, Store, RecordFails, NextContainer
<1>4. CASE Record
  BY <1>4 DEF Record, TrackerNext
<1>5. CASE Prune \/ EndPass
  BY <1>5 DEF Prune, EndPass
<1>6. QED  BY <1>1, <1>2, <1>3, <1>4, <1>5 DEF Collector

LEMMA TrackerStep == ASSUME [Next]_vars PROVE [TrackerNext]_trackerVars
<1>1. CASE Collector
  BY <1>1, CollectorStep
<1>2. CASE Restart
  BY <1>2 DEF Restart, TrackerNext
<1>3. CASE Triage
  BY <1>3, CollectorBounds DEF Triage, TrackerNext
<1>4. CASE \E c \in Containers : Recreate(c) \/ \E text \in Texts : Write(c, text)
  BY <1>4 DEF Recreate, Write
<1>5. CASE Second \/ \E f \in Fingerprints : Report(f)
  BY <1>5 DEF Second, Report, TrackerNext
<1>6. CASE UNCHANGED vars
  BY <1>6 DEF vars
<1>7. QED  BY <1>1, <1>2, <1>3, <1>4, <1>5, <1>6 DEF Next

\* Every behaviour of the collector is one of the issue tracker.
THEOREM CollectorUsesTheTracker == Spec => TrackerSpec
<1>1. Init => TrackerInit
  BY DEF Init
<1>2. [Next]_vars => [TrackerNext]_trackerVars
  BY TrackerStep
<1>3. QED  BY <1>1, <1>2, PTL DEF Spec, TrackerSpec

\* Verdicts stand while the collector runs, prunes, fails and is restarted.
THEOREM VerdictStandsAgainstTheCollector == Spec => []StateIsVerdict
<1>1. QED  BY CollectorUsesTheTracker, VerdictStands, PTL
-----------------------------------------------------------------------------
(* Lines, and the cursor of a bag of them *)

\* Lines as they are stamped, and up to a second.
LEMMA LinesHave == \A l : l \in Lines <=> l = [ts |-> l.ts, text |-> l.text] /\ l.ts \in Times /\ l.text \in Texts
BY DEF Lines

LEMMA TimesAre == Times \subseteq Nat /\ None = -1 /\ None \notin Times /\ \A t \in Times : t > None
BY TrackerBounds DEF Times, None

UpTo(t) == {l \in Lines : l.ts <= t}

Ordered(s) == \A i, j \in DOMAIN s : i <= j => s[i].ts <= s[j].ts

LEMMA OrderedMore ==
  ASSUME NEW s \in Seq(Lines), NEW x \in Lines
  PROVE  /\ Ordered(Append(s, x)) => Ordered(s) /\ s \in Seq(UpTo(x.ts))
         /\ Ordered(s) /\ s \in Seq(UpTo(x.ts)) => Ordered(Append(s, x))
<1> DEFINE t == Append(s, x)
           n == Len(s)
<1>1. /\ n \in Nat /\ DOMAIN s = 1 .. n /\ DOMAIN t = 1 .. n + 1 /\ t[n + 1] = x
      /\ \A i \in 1 .. n : t[i] = s[i] /\ i \in 1 .. n + 1 /\ i <= n + 1 /\ s[i] \in Lines
  OBVIOUS
<1>2. x.ts \in Nat
  BY LinesHave, TimesAre
<1> HIDE DEF t, n
<1>3. ASSUME Ordered(t) PROVE Ordered(s) /\ s \in Seq(UpTo(x.ts))
  <2>1. Ordered(s)
    BY <1>1, <1>3 DEF Ordered
  <2>2. \A i \in 1 .. n : s[i] \in UpTo(x.ts)
    BY <1>1, <1>3 DEF Ordered, UpTo
  <2>3. QED  BY <1>1, <2>1, <2>2 DEF n
<1>4. ASSUME Ordered(s), s \in Seq(UpTo(x.ts)) PROVE Ordered(t)
  <2>1. \A i \in 1 .. n : s[i].ts <= x.ts
    BY <1>1, <1>4 DEF UpTo, n
  <2>2. \A i \in 1 .. n + 1 : i = n + 1 \/ i \in 1 .. n
    BY <1>1
  <2>3. \A i, j \in 1 .. n + 1 : i <= j => (i \in 1 .. n /\ j \in 1 .. n) \/ (i \in 1 .. n /\ j = n + 1) \/ (i = n + 1 /\ j = n + 1)
    BY <1>1
  <2>4. QED  BY <1>1, <1>2, <1>4, <2>1, <2>3 DEF Ordered
<1>5. QED  BY <1>3, <1>4 DEF t

\* The filter keeps the order.
LEMMA OrderedOnly ==
  ASSUME NEW s \in Seq(Lines), NEW S, Ordered(s) PROVE Ordered(Only(s, S))
<1> DEFINE T == {t \in Seq(Lines) : Ordered(t) => Ordered(Only(t, S))}
<1>1. <<>> \in T
  <2>1. Only(<<>>, S) = <<>> /\ Ordered(<<>>)
    BY OnlyOfNone DEF Ordered
  <2>2. QED  BY <2>1
<1>2. ASSUME NEW t \in Seq(Lines), NEW x \in Lines, t \in T PROVE Append(t, x) \in T
  <2> SUFFICES ASSUME Ordered(Append(t, x)) PROVE Ordered(Only(Append(t, x), S))
    OBVIOUS
  <2>1. Ordered(t) /\ t \in Seq(UpTo(x.ts))
    BY OrderedMore
  <2>2. Only(t, S) \in Seq(UpTo(x.ts) \cap S) /\ Only(t, S) \in Seq(Lines \cap S)
    BY <2>1, OnlyPasses
  <2>3. Only(t, S) \in Seq(UpTo(x.ts)) /\ Only(t, S) \in Seq(Lines)
    BY <2>2
  <2>4. Ordered(Only(t, S))
    BY <1>2, <2>1
  <2>5. Ordered(Append(Only(t, S), x))
    BY <2>3, <2>4, OrderedMore
  <2>6. Only(Append(t, x), S) = IF x \in S THEN Append(Only(t, S), x) ELSE Only(t, S)
    BY OnlyOfMore
  <2>7. QED  BY <2>4, <2>5, <2>6
<1>3. Seq(Lines) \subseteq T
  <2> HIDE DEF T
  <2>1. QED  BY <1>1, <1>2, Grow
<1>4. QED  BY <1>3

\* What is read of an ordered log before the stream breaks: never more than there
\* is, and of every earlier second than the last one read, all.
LEMMA PrefixCounts ==
  ASSUME NEW s \in Seq(Lines), Ordered(s), NEW n \in 0 .. Len(s), NEW l
  PROVE  LET b == SubSeq(s, 1, n)
         IN  /\ b \in Seq(Lines) /\ CountIn(b, l) <= CountIn(s, l)
             /\ \A i \in DOMAIN b : b[i].ts > l.ts /\ l \in Lines => CountIn(b, l) = CountIn(s, l)
<1> DEFINE b == SubSeq(s, 1, n)
           P == {i \in DOMAIN b : b[i] = l}
           Q == {i \in DOMAIN s : s[i] = l}
<1>1. /\ b \in Seq(Lines) /\ DOMAIN b = 1 .. n /\ DOMAIN s = 1 .. Len(s) /\ n \in Nat /\ n <= Len(s) /\ Len(s) \in Nat
      /\ \A i \in 1 .. n : b[i] = s[i] /\ i \in 1 .. Len(s)
  OBVIOUS
<1> HIDE DEF b
<1>2. P \subseteq Q /\ Q \subseteq 1 .. Len(s)
  BY <1>1
<1>3. IsFiniteSet(Q) /\ Cardinality(P) <= Cardinality(Q)
  <2>1. IsFiniteSet(Q)
    BY <1>1, <1>2, PositionsFinite
  <2> HIDE DEF P, Q
  <2>2. QED  BY <1>2, <2>1, FS_Subset
<1>4. ASSUME NEW i \in DOMAIN b, b[i].ts > l.ts, l \in Lines PROVE P = Q
  <2>1. ASSUME NEW j \in DOMAIN s, s[j] = l PROVE j \in DOMAIN b
    <3>1. ~(i <= j)
      <4>1. i \in DOMAIN s /\ s[i].ts > s[j].ts /\ s[i].ts \in Nat /\ s[j].ts \in Nat
        BY <1>1, <1>4, <2>1, LinesHave, TimesAre
      <4>2. QED  BY <4>1 DEF Ordered
    <3>2. QED  BY <1>1, <1>4, <3>1
  <2>2. QED  BY <1>1, <2>1
<1>5. CountIn(b, l) = Cardinality(P) /\ CountIn(s, l) = Cardinality(Q)
  BY DEF CountIn
<1> HIDE DEF P, Q
<1>6. QED  BY <1>1, <1>3, <1>4, <1>5 DEF b

\* k of n copies are new where a are known.
Beyond(k, n, a) == (n > a => k = n - a) /\ (n <= a => k = 0)

LEMMA BeyondIs ==
  \A k, n, a \in Nat : Beyond(k, n, a) => k <= n /\ a + k >= n /\ \A w \in Nat : a <= w /\ n <= w => a + k <= w
BY DEF Beyond

\* Of later seconds everything is new, of the cursor's what is beyond the copies
\* indexed.
Newer(new, lines, s, already, l) ==
  /\ l.ts > s => CountIn(new, l) = CountIn(lines, l)
  /\ l.ts < s => CountIn(new, l) = 0
  /\ l.ts = s => Beyond(CountIn(new, l), CountIn(lines, l), already[l])

LEMMA NewerCounts ==
  ASSUME NEW lines \in Seq(Lines), NEW s \in Times \cup {None}, NEW already \in Copies, NEW l \in Lines
  PROVE  LET new == NewerThan(lines, s, already)
         IN  /\ new \in Seq(Lines)
             /\ \A i \in DOMAIN new : \E j \in DOMAIN lines : new[i] = lines[j]
             /\ Newer(new, lines, s, already, l)
<1> DEFINE new == NewerThan(lines, s, already)
           W == {i \in DOMAIN lines : \/ lines[i].ts > s
                                      \/ lines[i].ts = s /\ Nth(lines, i) > already[lines[i]]}
           Own == {lines[i] : i \in DOMAIN lines}
<1>0. l.ts \in Nat /\ l.ts \in Times /\ s \in Int /\ already[l] \in Nat /\ (l.ts = s => s # None)
  BY LinesHave, TimesAre DEF Copies
<1>1. CASE s = None
  <2>1. new = lines
    BY <1>1 DEF NewerThan
  <2>2. l.ts # s /\ ~(l.ts < s)
    BY <1>0, <1>1 DEF None
  <2>3. QED  BY <2>1, <2>2 DEF Newer
<1>2. CASE s # None
  <2>1. new = Picked(lines, W)
    BY <1>2 DEF NewerThan, Nth
  <2>2. new \in Seq(Own) /\ new \in Seq(Lines)
    <3>1. lines \in Seq(Own)
      OBVIOUS
    <3> HIDE DEF Own, W, new
    <3>2. QED  BY <2>1, <3>1, PickedIn
  <2>3. \A i \in DOMAIN new : new[i] \in Own
    <3> HIDE DEF Own, W, new
    <3>1. QED  BY <2>2
  <2>4. CountIn(new, l) = Cardinality({i \in DOMAIN lines : i \in W /\ lines[i] = l})
    <3> HIDE DEF W, new
    <3>1. QED  BY <2>1, CountPicked DEF Where
  <2>5. CASE l.ts > s
    <3>1. {i \in DOMAIN lines : i \in W /\ lines[i] = l} = {i \in DOMAIN lines : lines[i] = l}
      BY <2>5
    <3>2. CountIn(new, l) = CountIn(lines, l)
      BY <2>4, <3>1 DEF CountIn
    <3>3. l.ts # s /\ ~(l.ts < s)
      BY <1>0, <2>5
    <3> HIDE DEF W, new
    <3>4. QED  BY <2>2, <2>3, <3>2, <3>3 DEF Newer, new
  <2>6. CASE l.ts = s
    <3>1. {i \in DOMAIN lines : i \in W /\ lines[i] = l} = {i \in DOMAIN lines : lines[i] = l /\ Nth(lines, i) > already[l]}
      BY <1>0, <2>6
    <3>2. Beyond(CountIn(new, l), CountIn(lines, l), already[l])
      <4> HIDE DEF W, new
      <4>1. QED  BY <1>0, <2>4, <3>1, NthBeyond DEF Beyond
    <3>3. ~(l.ts > s) /\ ~(l.ts < s)
      BY <1>0, <2>6
    <3> HIDE DEF W, new
    <3>4. QED  BY <2>2, <2>3, <3>2, <3>3 DEF Newer, new
  <2>7. CASE l.ts # s /\ ~(l.ts > s)
    <3>1. {i \in DOMAIN lines : i \in W /\ lines[i] = l} = {}
      BY <2>7
    <3>2. CountIn(new, l) = 0
      BY <2>4, <3>1, FS_EmptySet
    <3> HIDE DEF W, new
    <3>3. QED  BY <2>2, <2>3, <2>7, <3>2 DEF Newer, new
  <2>8. QED  BY <2>5, <2>6, <2>7
<1>3. QED  BY <1>1, <1>2

\* The cursor a bag of lines gives.
Latest(bag) == Max({None} \cup {l.ts : l \in {m \in Lines : bag[m] > 0}})

LEMMA LatestIs ==
  ASSUME NEW bag \in Copies
  PROVE  /\ Latest(bag) \in Times \cup {None}
         /\ \A l \in Lines : bag[l] > 0 => l.ts <= Latest(bag)
         /\ Latest(bag) # None => \E l \in Lines : bag[l] > 0 /\ l.ts = Latest(bag)
<1> DEFINE S == {None} \cup {l.ts : l \in {m \in Lines : bag[m] > 0}}
           Is(x) == x \in S /\ \A y \in S : x >= y
<1>1. S \subseteq Times \cup {None} /\ S # {}
  BY LinesHave
<1>2. \E x : Is(x)
  <2> DEFINE D == {n \in Nat : \E x \in S : MaxTime - x = n}
  <2>1. \A x \in S : x \in Int /\ MaxTime - x \in Nat
    BY <1>1, TrackerBounds DEF Times, None
  <2>2. D # {} /\ D \subseteq Nat
    BY <1>1, <2>1
  <2> HIDE DEF D
  <2>3. IsWellFoundedOn(OpToRel(<, Nat), Nat)
    BY NatLessThanWellFounded
  <2>4. PICK d \in D : \A m \in D : ~(<<m, d>> \in OpToRel(<, Nat))
    BY <2>2, <2>3, WFMin
  <2>5. \A m \in D : ~(m < d)
    BY <2>2, <2>4, Zenon DEF OpToRel
  <2> USE DEF D
  <2>6. PICK x \in S : MaxTime - x = d
    BY <2>4
  <2>7. \A y \in S : x >= y
    <3> SUFFICES ASSUME NEW y \in S PROVE x >= y
      OBVIOUS
    <3>1. ~(MaxTime - y < d) /\ y \in Int /\ x \in Int
      BY <2>1, <2>5
    <3>2. QED  BY <2>6, <3>1, TrackerBounds
  <2>8. QED  BY <2>7
<1>3. Latest(bag) = CHOOSE x \in S : \A y \in S : x >= y
  BY DEF Latest, Max
<1> HIDE DEF S
<1>4. Is(Latest(bag))
  BY <1>2, <1>3
<1> USE DEF S
<1>5. \A l \in Lines : bag[l] > 0 => l.ts \in S
  OBVIOUS
<1>6. \A l \in Lines : bag[l] > 0 => l.ts <= Latest(bag)
  <2> SUFFICES ASSUME NEW l \in Lines, bag[l] > 0 PROVE l.ts <= Latest(bag)
    OBVIOUS
  <2>1. Latest(bag) >= l.ts
    BY <1>4, <1>5
  <2>2. l.ts \in Int /\ Latest(bag) \in Int
    BY <1>1, <1>4, TimesAre, LinesHave
  <2>3. QED  BY <2>1, <2>2
<1>7. Latest(bag) \in Times \cup {None}
  BY <1>1, <1>4
<1>8. Latest(bag) # None => \E l \in Lines : bag[l] > 0 /\ l.ts = Latest(bag)
  BY <1>4
<1>9. QED  BY <1>6, <1>7, <1>8

-----------------------------------------------------------------------------
(* The index mirrors the log *)

CollectorTypes ==
  /\ clock \in Times
  /\ out \in [Containers -> Seq(Lines)]
  /\ kept \in [Containers -> Copies]
  /\ pc \in {"idle", "list", "store", "record"}
  /\ todo \subseteq Containers /\ at \in Containers
  /\ since \in Times \cup {None} /\ batch \in Seq(Lines)
  /\ written \in [Containers -> Copies] /\ pruned \in [Containers -> Copies]
  /\ recorded \in [Fingerprints -> Nat]
  /\ mishaps \subseteq Faults \cup {"pruned"} /\ reports \in Nat

\* docker's log of a container, at second t.
DockerLog(log, wrote, t) ==
  /\ log \in Seq(UpTo(t)) /\ Ordered(log)
  /\ \A l \in Lines : CountIn(log, l) <= wrote[l]

\* What is kept of it.
Mirrors(have, away, log, t) ==
  /\ \A l \in Lines : have[l] > 0 => l.ts <= t
  /\ \A l \in Lines : l.ts < Latest(have) => have[l] + away[l] >= CountIn(log, l)

\* The lines a pass has read from second s on.
BatchOf(lines, s, log, wrote, t) ==
  /\ lines \in Seq(UpTo(t))
  /\ \A l \in Lines : CountIn(lines, l) <= wrote[l]
  /\ \A l \in Lines : \A i \in DOMAIN lines : s <= l.ts /\ lines[i].ts > l.ts => CountIn(lines, l) >= CountIn(log, l)

Reading ==
  /\ BatchOf(batch, since, out[at], written[at], clock)
  /\ since \in {None, Latest(kept[at])}
  /\ "read" \notin mishaps => since = Latest(kept[at])

IndexInv ==
  /\ CollectorTypes
  /\ \A c \in Containers : DockerLog(out[c], written[c], clock)
  /\ \A c \in Containers : Mirrors(kept[c], pruned[c], out[c], clock)
  /\ NoLineTwice
  /\ pc = "store" => Reading

LEMMA IndexFrame ==
  ASSUME IndexInv, UNCHANGED <<docker, kept, pruned>>, mishaps \subseteq mishaps', CollectorTypes',
         pc' = "store" => pc = "store" /\ UNCHANGED <<batch, since, at>>
  PROVE  IndexInv'
<1>1. UNCHANGED <<clock, out, written, kept, pruned>>
  BY DEF docker
<1>2. (\A c \in Containers : DockerLog(out[c], written[c], clock) /\ Mirrors(kept[c], pruned[c], out[c], clock))'
  BY <1>1 DEF IndexInv
<1>3. NoLineTwice'
  BY <1>1 DEF IndexInv, NoLineTwice
<1>4. (pc = "store" => Reading)'
  BY <1>1 DEF IndexInv, Reading
<1>5. QED  BY <1>2, <1>3, <1>4 DEF IndexInv

LEMMA EmptyLog == ASSUME NEW wrote \in Copies, NEW t PROVE DockerLog(<<>>, wrote, t)
<1>1. <<>> \in Seq(UpTo(t)) /\ Ordered(<<>>)
  BY DEF Ordered
<1>2. \A l \in Lines : CountIn(<<>>, l) <= wrote[l]
  BY CountOfNone DEF Copies
<1>3. QED  BY <1>1, <1>2 DEF DockerLog

LEMMA NothingKept == Nothing \in Copies /\ Latest(Nothing) = None
<1>1. Nothing \in Copies /\ \A l \in Lines : Nothing[l] = 0
  BY DEF Nothing, Copies
<1>2. Latest(Nothing) = None
  BY <1>1, LatestIs
<1>3. QED  BY <1>1, <1>2

LEMMA IndexInit == Init => IndexInv
<1> SUFFICES ASSUME Init PROVE IndexInv
  OBVIOUS
<1>1. CollectorTypes
  BY NothingKept, TrackerBounds DEF Init, CollectorTypes, Times
<1>2. \A c \in Containers : out[c] = <<>> /\ kept[c] = Nothing /\ written[c] = Nothing /\ pruned[c] = Nothing
  BY DEF Init
<1>3. \A c \in Containers : DockerLog(out[c], written[c], clock)
  BY <1>2, NothingKept, EmptyLog
<1>4. Mirrors(Nothing, Nothing, <<>>, clock)
  <2>1. \A l \in Lines : Nothing[l] = 0 /\ l.ts \in Nat
    BY LinesHave, TimesAre DEF Nothing
  <2>2. \A l \in Lines : ~(Nothing[l] > 0) /\ ~(l.ts < Latest(Nothing))
    BY <2>1, NothingKept DEF None
  <2>3. QED  BY <2>2 DEF Mirrors
<1>5. NoLineTwice
  BY <1>2 DEF NoLineTwice, Nothing
<1>6. pc # "store"
  BY DEF Init
<1>7. QED  BY <1>1, <1>2, <1>3, <1>4, <1>5, <1>6 DEF IndexInv

\* One more line of the second the clock shows.
LEMMA OneMoreLine ==
  ASSUME NEW log, NEW wrote \in Copies, NEW t \in Times, DockerLog(log, wrote, t), NEW x \in Lines, x.ts = t
  PROVE  /\ DockerLog(Append(log, x), [wrote EXCEPT ![x] = @ + 1], t)
         /\ \A l \in Lines : l.ts < t => CountIn(Append(log, x), l) = CountIn(log, l)
<1>1. log \in Seq(UpTo(t)) /\ Ordered(log) /\ log \in Seq(Lines) /\ t \in Nat
  <2>1. UpTo(t) \subseteq Lines /\ t \in Nat
    BY TimesAre DEF UpTo
  <2>2. QED  BY <2>1 DEF DockerLog
<1>2. x \in UpTo(t)
  BY <1>1 DEF UpTo
<1>3. Append(log, x) \in Seq(UpTo(t)) /\ Ordered(Append(log, x))
  BY <1>1, <1>2, OrderedMore
<1>4. ASSUME NEW l \in Lines
      PROVE  /\ CountIn(Append(log, x), l) <= [wrote EXCEPT ![x] = @ + 1][l]
             /\ l.ts < t => CountIn(Append(log, x), l) = CountIn(log, l)
  <2>1. /\ CountIn(log, l) \in Nat /\ CountIn(log, l) <= wrote[l] /\ wrote[l] \in Nat
        /\ x = l => CountIn(Append(log, x), l) = CountIn(log, l) + 1
        /\ x # l => CountIn(Append(log, x), l) = CountIn(log, l)
    BY <1>1, CountNat, CountOfMore DEF DockerLog, Copies
  <2>2. [wrote EXCEPT ![x] = @ + 1][l] = IF l = x THEN wrote[l] + 1 ELSE wrote[l]
    BY DEF Copies
  <2>3. l.ts < t => x # l
    BY <1>1
  <2>4. QED  BY <2>1, <2>2, <2>3
<1>5. QED  BY <1>3, <1>4 DEF DockerLog

\* Numbers of lines, container by container.
LEMMA CopiesAre ==
  ASSUME CollectorTypes, NEW c \in Containers, NEW l \in Lines
  PROVE  kept[c] \in Copies /\ kept[c][l] \in Nat /\ written[c][l] \in Nat /\ pruned[c][l] \in Nat
BY DEF CollectorTypes, Copies

LEMMA WriteKeepsIndex ==
  ASSUME IndexInv, NEW c \in Containers, NEW text \in Texts, Write(c, text) PROVE IndexInv'
<1> DEFINE x == [ts |-> clock, text |-> text]
<1>0. CollectorTypes /\ clock \in Times /\ clock \in Nat
  BY TimesAre DEF IndexInv, CollectorTypes
<1>1. x \in Lines /\ x.ts = clock
  BY <1>0 DEF Lines
<1>2. /\ out' = [out EXCEPT ![c] = Append(out[c], x)]
      /\ written' = [written EXCEPT ![c] = [written[c] EXCEPT ![x] = @ + 1]]
      /\ UNCHANGED <<clock, kept, pc, todo, at, since, batch, pruned, recorded, mishaps, reports>>
  BY DEF Write
<1> HIDE DEF x
<1>3. written[c] \in Copies /\ [written[c] EXCEPT ![x] = @ + 1] \in Copies
  BY <1>0, <1>1 DEF CollectorTypes, Copies
<1>4. Append(out[c], x) \in Seq(Lines)
  BY <1>0, <1>1 DEF CollectorTypes
<1>5. CollectorTypes'
  BY <1>0, <1>2, <1>3, <1>4 DEF CollectorTypes
<1>6. \A d \in Containers : /\ out'[d] = IF d = c THEN Append(out[c], x) ELSE out[d]
                            /\ written'[d] = IF d = c THEN [written[c] EXCEPT ![x] = @ + 1] ELSE written[d]
  BY <1>0, <1>2 DEF CollectorTypes
<1>7. /\ DockerLog(Append(out[c], x), [written[c] EXCEPT ![x] = @ + 1], clock)
      /\ \A l \in Lines : l.ts < clock => CountIn(Append(out[c], x), l) = CountIn(out[c], l)
  BY <1>0, <1>1, <1>3, OneMoreLine DEF IndexInv
<1>8. \A d \in Containers : DockerLog(out'[d], written'[d], clock')
  BY <1>2, <1>6, <1>7 DEF IndexInv
<1>9. \A d \in Containers, l \in Lines : l.ts < clock => CountIn(out'[d], l) = CountIn(out[d], l)
  BY <1>6, <1>7
<1>10. ASSUME NEW d \in Containers PROVE Mirrors(kept'[d], pruned'[d], out'[d], clock')
  <2>1. Mirrors(kept[d], pruned[d], out[d], clock)
    BY DEF IndexInv
  <2>2. kept[d] \in Copies
    BY <1>0 DEF CollectorTypes
  <2>3. ASSUME NEW l \in Lines, l.ts < Latest(kept[d])
        PROVE  kept[d][l] + pruned[d][l] >= CountIn(out'[d], l)
    <3>1. l.ts < clock
      <4>1. l.ts \in Nat /\ Latest(kept[d]) # None
        BY <2>3, LinesHave, TimesAre DEF None
      <4>2. PICK m \in Lines : kept[d][m] > 0 /\ m.ts = Latest(kept[d])
        BY <2>2, <4>1, LatestIs
      <4>3. m.ts <= clock /\ m.ts \in Nat
        BY <2>1, <4>2, LinesHave, TimesAre DEF Mirrors
      <4>4. QED  BY <1>0, <2>3, <4>1, <4>2, <4>3
    <3>2. CountIn(out'[d], l) = CountIn(out[d], l)
      BY <1>9, <3>1
    <3>3. QED  BY <2>1, <2>3, <3>2 DEF Mirrors
  <2>4. QED  BY <1>2, <2>1, <2>3 DEF Mirrors
<1>11. \A d \in Containers, l \in Lines : written'[d][l] >= written[d][l]
  <2> SUFFICES ASSUME NEW d \in Containers, NEW l \in Lines PROVE written'[d][l] >= written[d][l]
    OBVIOUS
  <2>1. written[d] \in [Lines -> Nat] /\ written[d][l] \in Nat /\ written[c] \in [Lines -> Nat]
    BY <1>0 DEF CollectorTypes, Copies
  <2>2. [written[c] EXCEPT ![x] = @ + 1][l] = IF l = x THEN written[c][l] + 1 ELSE written[c][l]
    BY <2>1
  <2>3. QED  BY <1>6, <2>1, <2>2
<1>12. NoLineTwice'
  <2>1. \A d \in Containers, l \in Lines :
          kept[d][l] \in Nat /\ written[d][l] \in Nat /\ written'[d][l] \in Nat /\ kept'[d][l] = kept[d][l]
    BY <1>0, <1>2, <1>5, CopiesAre DEF CollectorTypes, Copies
  <2>2. \A a, b, d \in Nat : a <= b /\ d >= b => a <= d
    OBVIOUS
  <2>3. QED  BY <1>2, <1>11, <2>1, <2>2 DEF IndexInv, NoLineTwice
<1>13. ASSUME pc = "store" PROVE BatchOf(batch, since, out'[at], written'[at], clock)
  <2>1. BatchOf(batch, since, out[at], written[at], clock) /\ at \in Containers
    BY <1>0, <1>13 DEF IndexInv, Reading, CollectorTypes
  <2>2. \A l \in Lines : CountIn(batch, l) <= written'[at][l]
    <3>1. \A l \in Lines : /\ CountIn(batch, l) \in Nat /\ written[at][l] \in Nat /\ written'[at][l] \in Nat
                           /\ CountIn(batch, l) <= written[at][l] /\ written'[at][l] >= written[at][l]
      BY <1>0, <1>5, <1>11, <2>1, CountNat DEF CollectorTypes, Copies, BatchOf
    <3>2. QED  BY <3>1
  <2>3. \A l \in Lines : \A i \in DOMAIN batch :
           since <= l.ts /\ batch[i].ts > l.ts => CountIn(batch, l) >= CountIn(out'[at], l)
    <3> SUFFICES ASSUME NEW l \in Lines, NEW i \in DOMAIN batch, since <= l.ts, batch[i].ts > l.ts
                 PROVE  CountIn(batch, l) >= CountIn(out'[at], l)
      OBVIOUS
    <3>1. batch[i] \in UpTo(clock) /\ batch[i].ts <= clock /\ batch[i].ts \in Nat /\ l.ts \in Nat
      BY <2>1, LinesHave, TimesAre DEF BatchOf, UpTo
    <3>2. l.ts < clock
      BY <1>0, <3>1
    <3>3. QED  BY <1>9, <2>1, <3>2 DEF BatchOf
  <2>4. QED  BY <2>1, <2>2, <2>3 DEF BatchOf
<1>14. (pc = "store" => Reading)'
  BY <1>2, <1>13 DEF IndexInv, Reading
<1>15. QED  BY <1>5, <1>8, <1>10, <1>12, <1>14 DEF IndexInv

LEMMA SecondKeepsIndex == ASSUME IndexInv, Second PROVE IndexInv'
<1>1. /\ clock' = clock + 1 /\ clock < MaxTime
      /\ UNCHANGED <<out, written, kept, pc, todo, at, since, batch, pruned, recorded, mishaps, reports>>
  BY DEF Second
<1>2. CollectorTypes /\ clock \in Nat /\ clock' \in Times
  BY <1>1, TrackerBounds DEF IndexInv, CollectorTypes, Times
<1>3. CollectorTypes'
  BY <1>1, <1>2 DEF CollectorTypes
<1>4. UpTo(clock) \subseteq UpTo(clock') /\ \A l \in Lines : l.ts <= clock => l.ts <= clock'
  BY <1>1, <1>2, LinesHave, TimesAre DEF UpTo
<1>5. \A c \in Containers : DockerLog(out[c], written[c], clock')
  BY <1>4 DEF IndexInv, DockerLog
<1>6. \A c \in Containers : Mirrors(kept[c], pruned[c], out[c], clock')
  BY <1>4 DEF IndexInv, Mirrors
<1>7. (pc = "store" => Reading)'
  BY <1>1, <1>4 DEF IndexInv, Reading, BatchOf
<1>8. QED  BY <1>1, <1>3, <1>5, <1>6, <1>7 DEF IndexInv, NoLineTwice

LEMMA RecreateKeepsIndex ==
  ASSUME IndexInv, NEW c \in Containers, Recreate(c) PROVE IndexInv'
<1>1. /\ out' = [out EXCEPT ![c] = <<>>] /\ todo' = todo \ {c}
      /\ mishaps \subseteq mishaps' /\ mishaps' \subseteq mishaps \cup Faults
      /\ UNCHANGED <<clock, written, kept, pc, at, since, batch, pruned, recorded, reports>>
  BY DEF Recreate, Mishap
<1>2. CollectorTypes
  BY DEF IndexInv
<1>3. <<>> \in Seq(Lines)
  OBVIOUS
<1>4. CollectorTypes'
  BY <1>1, <1>2, <1>3 DEF CollectorTypes
<1>5. \A d \in Containers : out'[d] = IF d = c THEN <<>> ELSE out[d]
  BY <1>1, <1>2 DEF CollectorTypes
<1>6. \A d \in Containers : DockerLog(out'[d], written[d], clock)
  BY <1>2, <1>5, EmptyLog DEF IndexInv, CollectorTypes
<1>7. \A d \in Containers : \A l \in Lines : CountIn(out'[d], l) \in Nat /\ CountIn(out'[d], l) <= CountIn(out[d], l)
  <2> SUFFICES ASSUME NEW d \in Containers, NEW l \in Lines
               PROVE  CountIn(out'[d], l) \in Nat /\ CountIn(out'[d], l) <= CountIn(out[d], l)
    OBVIOUS
  <2>1. CountIn(out[d], l) \in Nat /\ CountIn(<<>>, l) = 0
    BY <1>2, CountNat, CountOfNone DEF CollectorTypes
  <2>2. QED  BY <1>5, <2>1
<1>8. ASSUME NEW d \in Containers PROVE Mirrors(kept[d], pruned[d], out'[d], clock)
  <2>1. Mirrors(kept[d], pruned[d], out[d], clock)
    BY DEF IndexInv
  <2>2. \A l \in Lines : kept[d][l] + pruned[d][l] \in Nat /\ CountIn(out[d], l) \in Nat
    BY <1>2, CopiesAre, CountNat DEF CollectorTypes
  <2>3. \A a, b, e \in Nat : a >= b /\ e <= b => a >= e
    OBVIOUS
  <2>4. QED  BY <1>7, <2>1, <2>2, <2>3 DEF Mirrors
<1>9. ASSUME pc = "store" PROVE BatchOf(batch, since, out'[at], written[at], clock)
  <2>1. BatchOf(batch, since, out[at], written[at], clock) /\ at \in Containers
    BY <1>2, <1>9 DEF IndexInv, Reading, CollectorTypes
  <2>2. \A l \in Lines : CountIn(batch, l) \in Nat /\ CountIn(out[at], l) \in Nat
    BY <1>2, CountNat DEF CollectorTypes
  <2>3. \A a, b, e \in Nat : a >= b /\ e <= b => a >= e
    OBVIOUS
  <2>4. QED  BY <1>7, <2>1, <2>2, <2>3 DEF BatchOf
<1>10. (pc = "store" => Reading)'
  BY <1>1, <1>9 DEF IndexInv, Reading
<1>11. QED  BY <1>1, <1>4, <1>6, <1>8, <1>10 DEF IndexInv, NoLineTwice

LEMMA FetchKeepsIndex ==
  ASSUME IndexInv, NEW c \in Containers, Fetch(c) PROVE IndexInv'
<1>0. CollectorTypes /\ clock \in Nat
  BY TimesAre DEF IndexInv, CollectorTypes
<1>1. PICK s \in {LastTs(c), None}, n \in 0 .. Len(out[c]) :
        LET from == Only(out[c], {l \in Lines : l.ts >= s})
        IN  /\ n <= Len(from) /\ since' = s /\ batch' = SubSeq(from, 1, n)
            /\ Mishap({f \in {"read", "stream"} : IF f = "read" THEN s # LastTs(c) ELSE n < Len(from)})
  BY DEF Fetch
<1> DEFINE S == {l \in Lines : l.ts >= s}
           from == Only(out[c], S)
<1>2. /\ pc' = "store" /\ at' = c /\ todo' = todo \ {c} /\ since' = s /\ batch' = SubSeq(from, 1, n)
      /\ UNCHANGED <<clock, out, written, kept, pruned, recorded, reports>>
      /\ n \in Nat /\ n <= Len(from)
  BY <1>1 DEF Fetch, docker
<1>3. /\ mishaps \subseteq mishaps' /\ mishaps' \subseteq mishaps \cup Faults
      /\ "read" \notin mishaps' => s = LastTs(c)
  BY <1>1 DEF Mishap
<1>4. LastTs(c) = Latest(kept[c]) /\ kept[c] \in Copies /\ DockerLog(out[c], written[c], clock) /\ out[c] \in Seq(Lines)
  BY <1>0 DEF LastTs, Latest, IndexInv, CollectorTypes
<1>5. s \in Times \cup {None} /\ s \in Int
  <2>1. Latest(kept[c]) \in Times \cup {None}
    BY <1>4, LatestIs
  <2>2. s \in {LastTs(c), None}
    BY <1>1
  <2>3. Times \cup {None} \subseteq Int
    BY TimesAre
  <2>4. QED  BY <1>4, <2>1, <2>2, <2>3
<1>6. from \in Seq(UpTo(clock)) /\ from \in Seq(Lines) /\ Ordered(from)
  <2>1. out[c] \in Seq(UpTo(clock)) /\ Ordered(out[c])
    BY <1>4 DEF DockerLog
  <2>2. Only(out[c], S) \in Seq(UpTo(clock) \cap S)
    BY <2>1, OnlyPasses
  <2>3. Ordered(Only(out[c], S))
    BY <1>4, <2>1, OrderedOnly
  <2>4. UpTo(clock) \cap S \subseteq Lines
    BY DEF UpTo
  <2> HIDE DEF S
  <2>5. QED  BY <2>2, <2>3, <2>4
<1>7. \A l \in Lines : CountIn(from, l) = IF l.ts >= s THEN CountIn(out[c], l) ELSE 0
  <2>1. \A l \in Lines : CountIn(from, l) = IF l \in S THEN CountIn(out[c], l) ELSE 0
    <3> HIDE DEF S
    <3>1. QED  BY <1>4, CountOnly
  <2>2. QED  BY <2>1
<1> HIDE DEF from
<1>8. n \in 0 .. Len(from)
  BY <1>2, <1>6
<1> DEFINE b == SubSeq(from, 1, n)
<1>9. b \in Seq(UpTo(clock))
  BY <1>6, <1>8
<1>10. /\ b \in Seq(Lines) /\ \A l : CountIn(b, l) <= CountIn(from, l)
       /\ \A l \in Lines : \A i \in DOMAIN b : b[i].ts > l.ts => CountIn(b, l) = CountIn(from, l)
  BY <1>6, <1>8, PrefixCounts, Zenon
<1> HIDE DEF b
<1>11. CollectorTypes'
  BY <1>0, <1>2, <1>3, <1>5, <1>10 DEF CollectorTypes, b
<1>12. BatchOf(b, s, out[c], written[c], clock)
  <2>1. \A l \in Lines : CountIn(out[c], l) \in Nat /\ CountIn(b, l) \in Nat /\ written[c][l] \in Nat
    BY <1>0, <1>4, <1>10, CountNat, CopiesAre
  <2>2. \A l \in Lines : CountIn(b, l) <= written[c][l]
    <3> SUFFICES ASSUME NEW l \in Lines PROVE CountIn(b, l) <= written[c][l]
      OBVIOUS
    <3>1. CountIn(b, l) <= CountIn(from, l) /\ CountIn(out[c], l) <= written[c][l]
      BY <1>4, <1>10 DEF DockerLog
    <3>2. QED  BY <1>7, <2>1, <3>1
  <2>3. ASSUME NEW l \in Lines, NEW i \in DOMAIN b, s <= l.ts, b[i].ts > l.ts
        PROVE  CountIn(b, l) >= CountIn(out[c], l)
    <3>1. l.ts \in Nat /\ l.ts >= s
      BY <1>5, <2>3, LinesHave, TimesAre
    <3>2. CountIn(b, l) = CountIn(out[c], l)
      BY <1>7, <1>10, <2>3, <3>1
    <3>3. QED  BY <2>1, <3>2
  <2>4. QED  BY <1>9, <2>2, <2>3 DEF BatchOf
<1>13. Reading'
  BY <1>2, <1>3, <1>4, <1>12 DEF Reading, b
<1>14. (\A d \in Containers : DockerLog(out[d], written[d], clock) /\ Mirrors(kept[d], pruned[d], out[d], clock))'
  BY <1>2 DEF IndexInv
<1>15. NoLineTwice'
  BY <1>2, <1>3 DEF IndexInv, NoLineTwice
<1>16. QED  BY <1>11, <1>13, <1>14, <1>15 DEF IndexInv

\* A bag that has grown only beyond its cursor, or has lost only what is counted
\* as gone, still mirrors the log.
LEMMA LatestGrows ==
  ASSUME NEW a \in Copies, NEW b \in Copies, \A l \in Lines : a[l] > 0 => b[l] > 0
  PROVE  Latest(a) <= Latest(b)
<1>1. /\ Latest(a) \in Times \cup {None} /\ Latest(b) \in Times \cup {None}
      /\ \A l \in Lines : b[l] > 0 => l.ts <= Latest(b)
      /\ Latest(a) # None => \E l \in Lines : a[l] > 0 /\ l.ts = Latest(a)
  BY LatestIs
<1>2. CASE Latest(a) = None
  <2>1. \A t \in Times \cup {None} : None <= t
    BY TimesAre
  <2>2. QED  BY <1>1, <1>2, <2>1
<1>3. CASE Latest(a) # None
  BY <1>1, <1>3
<1>4. QED  BY <1>2, <1>3

\* What a store adds to what is indexed.
Stores(more, have, lines, s, already) ==
  \A l \in Lines : more[l] = have[l] + CountIn(NewerThan(lines, s, already), l)

\* Nothing is twice in the one unless it is in the other, if the queries answered.
StaysOnce(more, have, wrote, s, already) ==
  s = Latest(have) /\ (already = have \/ s = None) /\ (\A l \in Lines : have[l] <= wrote[l])
     => \A l \in Lines : more[l] <= wrote[l]

LEMMA StoreMirrors ==
  ASSUME NEW have \in Copies, NEW away \in Copies, NEW wrote \in Copies, NEW log \in Seq(Lines), NEW t \in Nat,
         NEW lines \in Seq(Lines), NEW s \in {None, Latest(have)},
         Mirrors(have, away, log, t), BatchOf(lines, s, log, wrote, t),
         NEW already \in {have, Nothing}, NEW more \in Copies,
         Stores(more, have, lines, s, already)
  PROVE  Mirrors(more, away, log, t) /\ StaysOnce(more, have, wrote, s, already)
<1> DEFINE new == NewerThan(lines, s, already)
<1>1. /\ s \in Times \cup {None} /\ s \in Int /\ already \in Copies
      /\ Latest(have) \in Times \cup {None} /\ Latest(have) \in Int
      /\ \A l \in Lines : have[l] > 0 => l.ts <= Latest(have)
  <2>1. Latest(have) \in Times \cup {None} /\ \A l \in Lines : have[l] > 0 => l.ts <= Latest(have)
    BY LatestIs
  <2>2. Times \cup {None} \subseteq Int
    BY TimesAre
  <2>3. QED  BY <2>1, <2>2, NothingKept
<1>2. \A l \in Lines :
        /\ have[l] \in Nat /\ away[l] \in Nat /\ wrote[l] \in Nat /\ more[l] \in Nat /\ already[l] \in Nat
        /\ already[l] <= have[l] /\ l.ts \in Nat
        /\ CountIn(lines, l) \in Nat /\ CountIn(log, l) \in Nat /\ CountIn(lines, l) <= wrote[l]
  <2>1. \A l \in Lines : Nothing[l] = 0
    BY DEF Nothing
  <2>2. \A l \in Lines : have[l] \in Nat /\ away[l] \in Nat /\ wrote[l] \in Nat /\ more[l] \in Nat /\ already[l] \in Nat
    BY <1>1 DEF Copies
  <2>3. \A l \in Lines : l.ts \in Nat /\ CountIn(lines, l) \in Nat /\ CountIn(log, l) \in Nat
    BY LinesHave, TimesAre, CountNat
  <2>4. \A l \in Lines : already[l] <= have[l]
    BY <2>1, <2>2
  <2>5. QED  BY <2>2, <2>3, <2>4 DEF BatchOf
<1>3. \A l \in Lines : Newer(new, lines, s, already, l)
  BY <1>1, NewerCounts, Zenon
<1>4. new \in Seq(Lines) /\ \A i \in DOMAIN new : \E j \in DOMAIN lines : new[i] = lines[j]
  <2>1. Lines = {} => lines = <<>>
    OBVIOUS
  <2>2. CASE \E l : l \in Lines
    BY <1>1, <2>2, NewerCounts
  <2>3. CASE ~\E l : l \in Lines
    <3>1. Lines = {}
      BY <2>3
    <3>2. \A i \in DOMAIN lines : FALSE
      BY <3>1
    <3>3. new = <<>>
      <4>1. s = None
        <5>1. Latest(have) = None
          BY <3>1, LatestIs
        <5>2. QED  BY <5>1
      <4>2. QED  BY <2>1, <3>1, <4>1 DEF NewerThan
    <3> HIDE DEF new
    <3>4. QED  BY <3>3
  <2>4. QED  BY <2>2, <2>3
<1>5. \A l \in Lines : more[l] = have[l] + CountIn(new, l)
  BY DEF Stores
<1>6. \A l \in Lines : CountIn(new, l) \in Nat /\ CountIn(new, l) <= CountIn(lines, l)
  <2> HIDE DEF new
  <2>1. ASSUME NEW l \in Lines PROVE CountIn(new, l) \in Nat /\ CountIn(new, l) <= CountIn(lines, l)
    <3>1. CountIn(new, l) \in Nat
      BY <1>4, CountNat
    <3>2. l.ts > s \/ l.ts < s \/ l.ts = s
      BY <1>1, <1>2
    <3>3. /\ l.ts > s => CountIn(new, l) = CountIn(lines, l)
          /\ l.ts < s => CountIn(new, l) = 0
          /\ l.ts = s => Beyond(CountIn(new, l), CountIn(lines, l), already[l])
      BY <1>3 DEF Newer
    <3>4. l.ts = s => CountIn(new, l) <= CountIn(lines, l)
      BY <1>2, <3>1, <3>3, BeyondIs
    <3>5. QED  BY <1>2, <3>1, <3>2, <3>3, <3>4
  <2>2. QED  BY <2>1
<1> HIDE DEF new
\* A new line is one of those read.
<1>7. ASSUME NEW l \in Lines, CountIn(new, l) > 0 PROVE \E i \in DOMAIN lines : lines[i] = l
  <2>1. ASSUME {i \in DOMAIN new : new[i] = l} = {} PROVE FALSE
    <3>1. CountIn(new, l) = 0
      BY <2>1, FS_EmptySet DEF CountIn
    <3>2. QED  BY <1>7, <3>1
  <2>2. PICK i \in DOMAIN new : new[i] = l
    BY <2>1
  <2>3. QED  BY <1>4, <2>2
<1>8. \A l \in Lines : more[l] > 0 => l.ts <= t
  <2> SUFFICES ASSUME NEW l \in Lines, more[l] > 0 PROVE l.ts <= t
    OBVIOUS
  <2>1. CASE have[l] > 0
    BY <2>1 DEF Mirrors
  <2>2. CASE ~(have[l] > 0)
    <3>1. CountIn(new, l) > 0
      BY <1>2, <1>5, <1>6, <2>2
    <3>2. PICK i \in DOMAIN lines : lines[i] = l
      BY <1>7, <3>1
    <3>3. lines[i] \in UpTo(t)
      BY DEF BatchOf
    <3>4. QED  BY <3>2, <3>3 DEF UpTo
  <2>3. QED  BY <2>1, <2>2
<1>9. ASSUME NEW l \in Lines, l.ts < Latest(more) PROVE more[l] + away[l] >= CountIn(log, l)
  <2>1. CASE l.ts < Latest(have)
    <3>1. have[l] + away[l] >= CountIn(log, l)
      BY <2>1 DEF Mirrors
    <3>2. more[l] = have[l] + CountIn(new, l) /\ CountIn(new, l) \in Nat
      BY <1>5, <1>6
    <3>3. QED  BY <1>2, <3>1, <3>2
  <2>2. CASE ~(l.ts < Latest(have))
    <3>1. l.ts >= Latest(have) /\ s <= l.ts
      BY <1>1, <1>2, <2>2, TimesAre
    <3>2. PICK m \in Lines : more[m] > 0 /\ m.ts = Latest(more)
      <4>1. Latest(more) # None
        BY <1>2, <1>9 DEF None
      <4>2. QED  BY <4>1, LatestIs
    <3>3. m.ts > l.ts
      BY <1>2, <1>9, <3>2
    <3>4. ~(have[m] > 0)
      <4>1. have[m] > 0 => m.ts <= Latest(have)
        BY <1>1
      <4>2. QED  BY <1>1, <1>2, <3>1, <3>3, <4>1
    <3>5. CountIn(new, m) > 0
      BY <1>2, <1>5, <1>6, <3>2, <3>4
    <3>6. PICK i \in DOMAIN lines : lines[i] = m
      BY <1>7, <3>5
    <3>7. CountIn(lines, l) >= CountIn(log, l)
      BY <3>1, <3>3, <3>6 DEF BatchOf
    <3>8. l.ts = s \/ l.ts > s
      BY <1>1, <1>2, <3>1
    <3>9. have[l] + CountIn(new, l) >= CountIn(lines, l)
      <4>1. /\ l.ts > s => CountIn(new, l) = CountIn(lines, l)
            /\ l.ts = s => Beyond(CountIn(new, l), CountIn(lines, l), already[l])
        BY <1>3 DEF Newer
      <4>2. l.ts = s => already[l] + CountIn(new, l) >= CountIn(lines, l)
        BY <1>2, <1>6, <4>1, BeyondIs
      <4>3. \A h, a, k, n \in Nat : a <= h /\ (k = n \/ a + k >= n) => h + k >= n
        OBVIOUS
      <4>4. /\ have[l] \in Nat /\ already[l] \in Nat /\ CountIn(new, l) \in Nat /\ CountIn(lines, l) \in Nat
            /\ already[l] <= have[l]
        BY <1>2, <1>6
      <4>5. QED  BY <3>8, <4>1, <4>2, <4>3, <4>4, Zenon
    <3>10. more[l] >= CountIn(lines, l)
      BY <1>5, <3>9
    <3>11. QED  BY <1>2, <3>7, <3>10
  <2>3. QED  BY <2>1, <2>2
<1>10. ASSUME s = Latest(have), already = have \/ s = None, \A l \in Lines : have[l] <= wrote[l], NEW l \in Lines
       PROVE  more[l] <= wrote[l]
  <2>1. l.ts > s => ~(have[l] > 0)
    BY <1>1, <1>2, <1>10
  <2>0. /\ Newer(new, lines, s, already, l) /\ more[l] = have[l] + CountIn(new, l) /\ CountIn(new, l) \in Nat
        /\ have[l] \in Nat /\ have[l] <= wrote[l] /\ wrote[l] \in Nat /\ CountIn(lines, l) <= wrote[l]
        /\ CountIn(lines, l) \in Nat
    BY <1>2, <1>3, <1>5, <1>6, <1>10
  <2>2. CASE l.ts > s
    BY <2>0, <2>1, <2>2 DEF Newer
  <2>3. CASE l.ts < s
    BY <2>0, <2>3 DEF Newer
  <2>4. CASE l.ts = s
    <3>1. already = have
      BY <1>2, <1>10, <2>4 DEF None
    <3>2. Beyond(CountIn(new, l), CountIn(lines, l), have[l])
      BY <2>0, <2>4, <3>1 DEF Newer
    <3>3. have[l] + CountIn(new, l) <= wrote[l]
      BY <2>0, <3>2, BeyondIs
    <3>4. QED  BY <2>0, <3>3
  <2>5. QED  BY <1>1, <1>2, <2>2, <2>3, <2>4
<1>11. QED  BY <1>8, <1>9, <1>10 DEF Mirrors, StaysOnce

LEMMA StoreKeepsIndex == ASSUME IndexInv, Store PROVE IndexInv'
<1>0. CollectorTypes /\ clock \in Nat /\ at \in Containers /\ batch \in Seq(Lines)
  BY TimesAre DEF IndexInv, CollectorTypes
<1>1. PICK already \in {kept[at], Nothing}, inserts \in BOOLEAN :
        LET lines == Fresh(already)
        IN  /\ kept' = IF inserts
                       THEN [kept EXCEPT ![at] = [l \in Lines |-> @[l] + Counts(lines)[l]]]
                       ELSE kept
            /\ batch' = ErrorsIn(lines)
            /\ Mishap({f \in {"read", "insert"} :
                         IF f = "read" THEN already # kept[at] /\ since # None ELSE ~inserts})
  BY DEF Store
<1> DEFINE new == NewerThan(batch, since, already)
           more == [l \in Lines |-> kept[at][l] + CountIn(new, l)]
<1>2. /\ pc = "store" /\ pc' = "record" /\ batch' = ErrorsIn(new)
      /\ UNCHANGED <<clock, out, written, todo, at, since, pruned, recorded, reports>>
  BY <1>1 DEF Store, docker, Fresh
<1>3. /\ mishaps \subseteq mishaps' /\ mishaps' \subseteq mishaps \cup Faults
      /\ "read" \notin mishaps' => already = kept[at] \/ since = None
  BY <1>1 DEF Mishap
<1>4. kept' = kept \/ kept' = [kept EXCEPT ![at] = more]
  <2>1. \A l \in Lines : Counts(new)[l] = CountIn(new, l)
    BY DEF Counts, CountIn
  <2>2. [l \in Lines |-> kept[at][l] + Counts(new)[l]] = more
    BY <2>1
  <2>3. kept' = kept \/ kept' = [kept EXCEPT ![at] = [l \in Lines |-> kept[at][l] + Counts(new)[l]]]
    BY <1>1 DEF Fresh
  <2> HIDE DEF more
  <2>4. QED  BY <2>2, <2>3
<1>5. Reading /\ Mirrors(kept[at], pruned[at], out[at], clock)
  BY <1>0, <1>2 DEF IndexInv
<1>6. kept[at] \in Copies /\ pruned[at] \in Copies /\ written[at] \in Copies /\ out[at] \in Seq(Lines)
  BY <1>0 DEF CollectorTypes
<1>7. since \in Times \cup {None} /\ already \in Copies
  BY <1>0, <1>6, NothingKept DEF CollectorTypes
<1>8. new \in Seq(Lines)
  <2>1. CASE Lines = {}
    <3>1. Latest(kept[at]) = None
      BY <1>6, <2>1, LatestIs
    <3>2. since = None
      BY <1>5, <3>1 DEF Reading
    <3>3. QED  BY <1>0, <3>2 DEF NewerThan
  <2>2. CASE Lines # {}
    <3>1. PICK l : l \in Lines
      BY <2>2
    <3>2. QED  BY <1>0, <1>7, <3>1, NewerCounts
  <2>3. QED  BY <2>1, <2>2
<1>9. batch' \in Seq(Lines)
  BY <1>2, <1>8, PickedIn DEF ErrorsIn
<1>10. more \in Copies
  <2>1. \A l \in Lines : kept[at][l] \in Nat /\ CountIn(new, l) \in Nat
    BY <1>6, <1>8, CountNat DEF Copies
  <2>2. \A l \in Lines : kept[at][l] + CountIn(new, l) \in Nat
    BY <2>1
  <2>3. QED  BY <2>2 DEF Copies
<1>11. Stores(more, kept[at], batch, since, already)
  BY DEF Stores
<1> HIDE DEF new, more
<1>12. Mirrors(more, pruned[at], out[at], clock) /\ StaysOnce(more, kept[at], written[at], since, already)
  <2>1. BatchOf(batch, since, out[at], written[at], clock) /\ since \in {None, Latest(kept[at])}
    BY <1>5 DEF Reading
  <2>2. already \in {kept[at], Nothing}
    BY <1>1
  <2>3. kept[at] \in Copies /\ pruned[at] \in Copies /\ written[at] \in Copies /\ out[at] \in Seq(Lines)
    BY <1>6
  <2>4. clock \in Nat /\ batch \in Seq(Lines)
    BY <1>0
  <2>5. Mirrors(kept[at], pruned[at], out[at], clock)
    BY <1>5
  <2>6. more \in Copies /\ Stores(more, kept[at], batch, since, already)
    BY <1>10, <1>11
  <2>7. QED  BY <2>1, <2>2, <2>3, <2>4, <2>5, <2>6, StoreMirrors
<1>13. \A c \in Containers : kept'[c] = kept[c] \/ (c = at /\ kept'[c] = more)
  BY <1>0, <1>4 DEF CollectorTypes
<1>14. CollectorTypes'
  <2>1. kept' \in [Containers -> Copies]
    BY <1>0, <1>4, <1>10 DEF CollectorTypes
  <2>2. QED  BY <1>0, <1>2, <1>3, <1>9, <2>1 DEF CollectorTypes
<1>15. \A c \in Containers : DockerLog(out'[c], written'[c], clock') /\ Mirrors(kept'[c], pruned'[c], out'[c], clock')
  BY <1>2, <1>12, <1>13 DEF IndexInv
<1>16. NoLineTwice'
  <2> SUFFICES ASSUME "read" \notin mishaps', NEW c \in Containers
               PROVE  \A l \in Lines : kept'[c][l] <= written[c][l]
    BY <1>2 DEF NoLineTwice
  <2>1. \A d \in Containers : \A l \in Lines : kept[d][l] <= written[d][l]
    BY <1>3 DEF IndexInv, NoLineTwice
  <2>2. since = Latest(kept[at]) /\ (already = kept[at] \/ since = None)
    BY <1>3, <1>5 DEF Reading
  <2>3. \A l \in Lines : more[l] <= written[at][l]
    BY <1>0, <1>12, <2>1, <2>2 DEF StaysOnce
  <2>4. QED  BY <1>13, <2>1, <2>3
<1>17. pc' # "store"
  BY <1>2
<1>18. QED  BY <1>14, <1>15, <1>16, <1>17 DEF IndexInv

(* The prune *)

\* Fewer rows than numbers up to n, when each row stands for one of them.
RowsOf(R, c, l, n) == \A r \in R : \E k \in 1 .. n : r = <<c, l, k>>

LEMMA AtMost ==
  ASSUME NEW n \in Nat, NEW R, NEW c, NEW l, RowsOf(R, c, l, n)
  PROVE  IsFiniteSet(R) /\ Cardinality(R) \in Nat /\ Cardinality(R) <= n
<1> DEFINE f == [k \in 1 .. n |-> <<c, l, k>>]
           A == {f[k] : k \in 1 .. n}
<1>1. IsFiniteSet(1 .. n) /\ Cardinality(1 .. n) = n
  BY FS_Interval
<1>2. f \in Surjection(1 .. n, A)
  BY DEF Surjection
<1>3. IsFiniteSet(A) /\ Cardinality(A) <= Cardinality(1 .. n)
  BY <1>1, <1>2, FS_Surjection
<1>4. R \subseteq A
  BY DEF RowsOf
<1> HIDE DEF A
<1>5. IsFiniteSet(R) /\ Cardinality(R) <= Cardinality(A) /\ Cardinality(R) \in Nat /\ Cardinality(A) \in Nat
  BY <1>3, <1>4, FS_Subset, FS_CardinalityType
<1>6. QED  BY <1>1, <1>3, <1>5

\* Losing what is counted as gone.
Loses(have, away, less, more) ==
  \A l \in Lines : less[l] <= have[l] /\ less[l] + more[l] = have[l] + away[l]

LEMMA PruneMirrors ==
  ASSUME NEW have \in Copies, NEW away \in Copies, NEW log \in Seq(Lines), NEW t,
         Mirrors(have, away, log, t), NEW less \in Copies, NEW more,
         Loses(have, away, less, more)
  PROVE  Mirrors(less, more, log, t)
<1>1. \A l \in Lines : less[l] \in Nat /\ have[l] \in Nat
  BY DEF Copies
<1>2. \A l \in Lines : less[l] > 0 => have[l] > 0
  BY <1>1 DEF Loses
<1>3. Latest(less) <= Latest(have)
  BY <1>2, LatestGrows
<1>4. Latest(less) \in Int /\ Latest(have) \in Int
  <2>1. Times \cup {None} \subseteq Int
    BY TimesAre
  <2>2. QED  BY <2>1, LatestIs
<1>5. \A l \in Lines : l.ts < Latest(less) => l.ts < Latest(have)
  <2>1. \A l \in Lines : l.ts \in Int
    BY LinesHave, TimesAre
  <2>2. QED  BY <1>3, <1>4, <2>1
<1>6. QED  BY <1>2, <1>5 DEF Mirrors, Loses

LEMMA PruneKeepsIndex == ASSUME IndexInv, Prune PROVE IndexInv'
<1>0. CollectorTypes
  BY DEF IndexInv
<1>1. PICK away \in SUBSET RowSet :
        LET lost(c) == [l \in Lines |-> Cardinality({r \in away : r[1] = c /\ r[2] = l})]
        IN  /\ kept' = [c \in Containers |-> [l \in Lines |-> kept[c][l] - lost(c)[l]]]
            /\ pruned' = [c \in Containers |-> [l \in Lines |-> pruned[c][l] + lost(c)[l]]]
  BY DEF Prune, kSubset
<1> DEFINE lost(c, l) == Cardinality({r \in away : r[1] = c /\ r[2] = l})
<1>2. /\ kept' = [c \in Containers |-> [l \in Lines |-> kept[c][l] - lost(c, l)]]
      /\ pruned' = [c \in Containers |-> [l \in Lines |-> pruned[c][l] + lost(c, l)]]
  BY <1>1
<1>3. /\ pc' = "idle" /\ mishaps' = mishaps \cup {"pruned"}
      /\ UNCHANGED <<clock, out, written, todo, at, since, batch, recorded, reports>>
  BY DEF Prune, docker
<1>4. ASSUME NEW c \in Containers, NEW l \in Lines
      PROVE  lost(c, l) \in Nat /\ lost(c, l) <= kept[c][l] /\ kept[c][l] \in Nat /\ pruned[c][l] \in Nat
  <2>1. kept[c][l] \in Nat /\ pruned[c][l] \in Nat
    BY <1>0, CopiesAre
  <2> DEFINE R == {r \in away : r[1] = c /\ r[2] = l}
  <2>2. RowsOf(R, c, l, kept[c][l])
    <3> SUFFICES ASSUME NEW r \in R PROVE \E k \in 1 .. kept[c][l] : r = <<c, l, k>>
      BY DEF RowsOf
    <3>0. \A q \in RowSet : \E d \in Containers, m \in Lines : \E k \in 1 .. kept[d][m] : q = <<d, m, k>>
      BY DEF RowSet
    <3>1. PICK d \in Containers, m \in Lines : \E k \in 1 .. kept[d][m] : r = <<d, m, k>>
      BY <3>0
    <3>2. d = c /\ m = l
      BY <3>1
    <3>3. QED  BY <3>1, <3>2
  <2> HIDE DEF R
  <2>3. Cardinality(R) \in Nat /\ Cardinality(R) <= kept[c][l]
    BY <2>1, <2>2, AtMost, Zenon
  <2>4. QED  BY <2>1, <2>3 DEF R
<1> HIDE DEF lost
<1>5. \A c \in Containers : \A l \in Lines :
        /\ kept'[c][l] = kept[c][l] - lost(c, l) /\ pruned'[c][l] = pruned[c][l] + lost(c, l)
        /\ kept'[c][l] \in Nat /\ kept'[c][l] <= kept[c][l] /\ pruned'[c][l] \in Nat
        /\ kept'[c][l] + pruned'[c][l] = kept[c][l] + pruned[c][l]
  <2> SUFFICES ASSUME NEW c \in Containers, NEW l \in Lines
      PROVE  /\ kept'[c][l] = kept[c][l] - lost(c, l) /\ pruned'[c][l] = pruned[c][l] + lost(c, l)
             /\ kept'[c][l] \in Nat /\ kept'[c][l] <= kept[c][l] /\ pruned'[c][l] \in Nat
             /\ kept'[c][l] + pruned'[c][l] = kept[c][l] + pruned[c][l]
    OBVIOUS
  <2>1. kept'[c][l] = kept[c][l] - lost(c, l) /\ pruned'[c][l] = pruned[c][l] + lost(c, l)
    BY <1>2
  <2>2. QED  BY <1>4, <2>1
<1>6. \A c \in Containers : kept'[c] \in Copies /\ pruned'[c] \in Copies
  <2> SUFFICES ASSUME NEW c \in Containers PROVE kept'[c] \in Copies /\ pruned'[c] \in Copies
    OBVIOUS
  <2>1. /\ kept'[c] = [l \in Lines |-> kept'[c][l]] /\ pruned'[c] = [l \in Lines |-> pruned'[c][l]]
    BY <1>2
  <2>2. QED  BY <1>5, <2>1 DEF Copies
<1>7. kept' \in [Containers -> Copies] /\ pruned' \in [Containers -> Copies]
  <2>1. kept' = [c \in Containers |-> kept'[c]] /\ pruned' = [c \in Containers |-> pruned'[c]]
    BY <1>2
  <2>2. QED  BY <1>6, <2>1
<1>8. CollectorTypes'
  BY <1>0, <1>3, <1>7 DEF CollectorTypes
<1>9. ASSUME NEW c \in Containers PROVE Mirrors(kept'[c], pruned'[c], out'[c], clock')
  <2>1. Mirrors(kept[c], pruned[c], out[c], clock)
    BY DEF IndexInv
  <2>2. kept[c] \in Copies /\ pruned[c] \in Copies /\ out[c] \in Seq(Lines)
    BY <1>0 DEF CollectorTypes
  <2>3. Loses(kept[c], pruned[c], kept'[c], pruned'[c])
    BY <1>5 DEF Loses
  <2>5. Mirrors(kept'[c], pruned'[c], out[c], clock)
    BY <1>6, <2>1, <2>2, <2>3, PruneMirrors
  <2>6. QED  BY <1>3, <2>5
<1>10. NoLineTwice'
  <2>1. \A c \in Containers, l \in Lines : kept[c][l] \in Nat /\ written[c][l] \in Nat
    BY <1>0, CopiesAre
  <2>2. \A a, b, d \in Nat : a <= b /\ b <= d => a <= d
    OBVIOUS
  <2>3. QED  BY <1>3, <1>5, <2>1, <2>2 DEF IndexInv, NoLineTwice
<1>11. QED  BY <1>3, <1>8, <1>9, <1>10 DEF IndexInv

\* The steps that leave the index, docker's log and the batch being stored alone.
LEMMA OtherStepsKeepIndex ==
  ASSUME IndexInv,
         \/ Begin(Containers) \/ Skip \/ Record \/ RecordFails \/ NextContainer \/ EndPass
         \/ Restart \/ Triage \/ (\E f \in Fingerprints : Report(f)) \/ UNCHANGED vars
  PROVE  IndexInv'
<1>0. CollectorTypes /\ batch \in Seq(Lines) /\ <<>> \in Seq(Lines)
  BY DEF IndexInv, CollectorTypes
<1>1. CASE Begin(Containers)
  <2>1. CollectorTypes'
    BY <1>0, <1>1 DEF Begin, CollectorTypes, docker
  <2>2. QED  BY <1>1, <2>1, IndexFrame DEF Begin
<1>2. CASE Skip \/ NextContainer \/ EndPass
  <2>1. CollectorTypes'
    BY <1>0, <1>2 DEF Skip, NextContainer, EndPass, CollectorTypes, docker
  <2>2. QED  BY <1>2, <2>1, IndexFrame DEF Skip, NextContainer, EndPass
<1>3. CASE Record
  <2>1. PICK f \in Fingerprints : recorded' = [recorded EXCEPT ![f] = @ + 1]
    BY <1>3 DEF Record
  <2>2. recorded' \in [Fingerprints -> Nat]
    BY <1>0, <2>1 DEF CollectorTypes
  <2>3. batch' \in Seq(Lines) /\ UNCHANGED <<docker, kept, pc, todo, at, since, pruned, mishaps, reports>> /\ pc = "record"
    BY <1>0, <1>3 DEF Record
  <2>4. CollectorTypes'
    BY <1>0, <2>2, <2>3 DEF CollectorTypes, docker
  <2>5. QED  BY <2>3, <2>4, IndexFrame
<1>4. CASE RecordFails
  <2>1. /\ batch' \in Seq(Lines) /\ UNCHANGED <<docker, kept, pc, todo, at, since, pruned, recorded, reports>>
        /\ mishaps \subseteq mishaps' /\ mishaps' \subseteq mishaps \cup Faults /\ pc = "record"
    BY <1>0, <1>4 DEF RecordFails, Mishap
  <2>2. CollectorTypes'
    BY <1>0, <2>1 DEF CollectorTypes, docker
  <2>3. QED  BY <2>1, <2>2, IndexFrame
<1>5. CASE Restart
  <2>1. /\ pc' = "idle" /\ todo' = {} /\ since' = None /\ batch' = <<>>
        /\ UNCHANGED <<docker, kept, at, pruned, recorded, reports>>
        /\ mishaps \subseteq mishaps' /\ mishaps' \subseteq mishaps \cup Faults
    BY <1>5 DEF Restart, Mishap
  <2>2. CollectorTypes'
    BY <1>0, <2>1 DEF CollectorTypes, docker
  <2>3. QED  BY <2>1, <2>2, IndexFrame
<1>6. CASE Triage \/ UNCHANGED vars
  <2>1. UNCHANGED collectorVars
    BY <1>6 DEF Triage, vars
  <2>2. CollectorTypes'
    BY <1>0, <2>1 DEF CollectorTypes, collectorVars
  <2>3. QED  BY <2>1, <2>2, IndexFrame DEF collectorVars, docker
<1>7. CASE \E f \in Fingerprints : Report(f)
  <2>1. reports' = reports + 1 /\ UNCHANGED <<docker, kept, pc, todo, at, since, batch, pruned, recorded, mishaps>>
    BY <1>7 DEF Report
  <2>2. CollectorTypes'
    BY <1>0, <2>1 DEF CollectorTypes, docker
  <2>3. QED  BY <2>1, <2>2, IndexFrame
<1>8. QED  BY <1>1, <1>2, <1>3, <1>4, <1>5, <1>6, <1>7

LEMMA IndexNext == IndexInv /\ [Next]_vars => IndexInv'
<1> SUFFICES ASSUME IndexInv, [Next]_vars PROVE IndexInv'
  OBVIOUS
<1>1. CASE Collector
  <2>1. CASE \E c \in Containers : Fetch(c)
    BY <2>1, FetchKeepsIndex
  <2>2. CASE Store
    BY <2>2, StoreKeepsIndex
  <2>3. CASE Prune
    BY <2>3, PruneKeepsIndex
  <2>4. CASE Begin(Containers) \/ Skip \/ Record \/ RecordFails \/ NextContainer \/ EndPass
    BY <2>4, OtherStepsKeepIndex
  <2>5. QED  BY <1>1, <2>1, <2>2, <2>3, <2>4 DEF Collector
<1>2. CASE Restart \/ Triage \/ (\E f \in Fingerprints : Report(f)) \/ UNCHANGED vars
  BY <1>2, OtherStepsKeepIndex
<1>3. CASE \E c \in Containers : Recreate(c) \/ \E text \in Texts : Write(c, text)
  BY <1>3, RecreateKeepsIndex, WriteKeepsIndex
<1>4. CASE Second
  BY <1>4, SecondKeepsIndex
<1>5. QED  BY <1>1, <1>2, <1>3, <1>4 DEF Next

LEMMA IndexInvariance == Spec => []IndexInv
<1>1. QED  BY IndexInit, IndexNext, PTL DEF Spec

\* Counts is CountIn, line by line.
LEMMA IndexSkips == IndexInv => NothingSkipped
<1> SUFFICES ASSUME IndexInv, NEW c \in Containers, NEW l \in Lines, l.ts < LastTs(c)
             PROVE  kept[c][l] + pruned[c][l] >= Counts(out[c])[l]
  BY DEF NothingSkipped
<1>1. LastTs(c) = Latest(kept[c]) /\ Counts(out[c])[l] = CountIn(out[c], l)
  BY DEF LastTs, Latest, Counts, CountIn
<1>2. Mirrors(kept[c], pruned[c], out[c], clock)
  BY DEF IndexInv
<1>3. QED  BY <1>1, <1>2 DEF Mirrors

-----------------------------------------------------------------------------
(* Issues tell what was recorded *)

(* The tracker's types *)

LEMMA FiniteFingerprints == IsFiniteSet(Fingerprints)
BY CollectorBounds, FS_Subset

\* A new row's id is above every other.
LEMMA NextIdIs ==
  ASSUME issue \in [Fingerprints -> Rows]
  PROVE  NextId \in Nat \ {0} /\ \A f \in Fingerprints : issue[f].id < NextId
<1> DEFINE Ids == {issue[f].id : f \in Fingerprints}
           S == {0} \cup Ids
<1>1. Ids \subseteq Nat
  BY DEF Rows
<1>2. IsFiniteSet(Ids)
  <2> DEFINE h == [f \in Fingerprints |-> issue[f].id]
  <2>2. h \in Surjection(Fingerprints, Ids)
    BY DEF Surjection
  <2> HIDE DEF h, Ids
  <2>3. QED  BY <2>2, FiniteFingerprints, FS_Surjection
<1> HIDE DEF Ids
<1>3. IsFiniteSet(S)
  <2>1. IsFiniteSet(Ids \cup {0})
    BY <1>2, FS_AddElement
  <2>2. S = Ids \cup {0}
    OBVIOUS
  <2>3. QED  BY <2>1, <2>2
<1>4. S # {} /\ S \subseteq Int /\ S \subseteq Nat
  BY <1>1
<1>5. NextId = 1 + Max(S)
  BY DEF NextId, Ids
<1> HIDE DEF S
<1>6. Max(S) \in S /\ \A y \in S : Max(S) >= y
  BY <1>3, <1>4, MaxIs
<1>7. \A f \in Fingerprints : issue[f].id \in S
  BY DEF S, Ids
<1>8. Max(S) \in Nat /\ \A y \in S : y \in Nat
  BY <1>4, <1>6
<1>9. \A f \in Fingerprints : issue[f].id \in Nat /\ Max(S) >= issue[f].id
  BY <1>6, <1>7, <1>8
<1>10. QED  BY <1>5, <1>8, <1>9

LEMMA TimesFinite == \A t \in Nat : IsFiniteSet(Times) /\ IsFiniteSet(t .. MaxTime)
BY TrackerBounds, FS_Interval DEF Times

\* Later occurrences are counted first, up to Keep.
Later(bag, t) == SumFunctionOnSet(bag, t + 1 .. MaxTime)
Left(n) == Max({0, Keep - n})

LEMMA LaterNat ==
  ASSUME NEW bag \in [Times -> Nat], NEW t \in Times PROVE Later(bag, t) \in Nat
<1>1. t \in Nat /\ t + 1 \in Nat
  BY TimesAre
<1>2. \A x \in t + 1 .. MaxTime : bag[x] \in Nat
  BY <1>1, TrackerBounds DEF Times
<1>3. IsFiniteSet(t + 1 .. MaxTime)
  BY <1>1, TimesFinite
<1>4. QED  BY <1>2, <1>3, SumNat DEF Later

LEMMA LeftIs == \A n \in Nat : Left(n) = IF n <= Keep THEN Keep - n ELSE 0
<1> SUFFICES ASSUME NEW n \in Nat PROVE Left(n) = IF n <= Keep THEN Keep - n ELSE 0
  OBVIOUS
<1>1. 0 \in Int /\ Keep - n \in Int /\ Keep \in Nat
  BY TrackerBounds
<1>2. Left(n) = IF 0 >= Keep - n THEN 0 ELSE Keep - n
  BY <1>1, MaxOfTwo DEF Left
<1>3. QED  BY <1>1, <1>2

LEMMA NewestIs ==
  ASSUME NEW bag \in [Times -> Nat]
  PROVE  /\ Newest(bag) \in [Times -> Nat]
         /\ \A t \in Times : Newest(bag)[t] = IF bag[t] <= Left(Later(bag, t)) THEN bag[t] ELSE Left(Later(bag, t))
<1>1. \A t \in Times : Newest(bag)[t] = Min({bag[t], Left(Later(bag, t))})
  BY DEF Newest, Left, Later
<1>2. \A t \in Times : bag[t] \in Nat /\ Left(Later(bag, t)) \in Nat
  <2> SUFFICES ASSUME NEW t \in Times PROVE bag[t] \in Nat /\ Left(Later(bag, t)) \in Nat
    OBVIOUS
  <2>1. Later(bag, t) \in Nat /\ Keep \in Nat
    BY LaterNat, TrackerBounds
  <2>2. QED  BY <2>1, LeftIs
<1>3. \A t \in Times : Newest(bag)[t] = IF bag[t] <= Left(Later(bag, t)) THEN bag[t] ELSE Left(Later(bag, t))
  <2> SUFFICES ASSUME NEW t \in Times
               PROVE  Newest(bag)[t] = IF bag[t] <= Left(Later(bag, t)) THEN bag[t] ELSE Left(Later(bag, t))
    OBVIOUS
  <2>1. PICK a \in Nat, b \in Nat : a = bag[t] /\ b = Left(Later(bag, t))
    BY <1>2
  <2>2. a \in Int /\ b \in Int
    OBVIOUS
  <2>3. Min({a, b}) = IF a <= b THEN a ELSE b
    BY <2>2, MinOfTwo
  <2>4. QED  BY <1>1, <2>1, <2>3
<1>4. Newest(bag) = [t \in Times |-> Newest(bag)[t]]
  BY DEF Newest
<1> HIDE DEF Left
<1>5. \A t \in Times : Newest(bag)[t] \in Nat
  BY <1>2, <1>3
<1>6. QED  BY <1>3, <1>4, <1>5

\* What holds after the last second, and at a second whenever at the one after it,
\* holds of all.
LEMMA Descend ==
  ASSUME NEW T, MaxTime + 1 \in T, \A t \in Times : t + 1 \in T => t \in T
  PROVE  \A t \in Times : t \in T /\ t + 1 \in T
<1> DEFINE U == {n \in Nat : n <= MaxTime + 1 => MaxTime + 1 - n \in T}
<1>0. MaxTime \in Nat /\ Times = 0 .. MaxTime
  BY TrackerBounds DEF Times
<1>1. 0 \in U
  BY <1>0
<1>2. ASSUME NEW n \in Nat, n \in U PROVE n + 1 \in U
  <2> SUFFICES ASSUME n + 1 <= MaxTime + 1 PROVE MaxTime + 1 - (n + 1) \in T
    OBVIOUS
  <2>1. MaxTime + 1 - n \in T
    BY <1>0, <1>2
  <2> DEFINE t == MaxTime + 1 - (n + 1)
  <2>2. t \in Times /\ t + 1 = MaxTime + 1 - n
    BY <1>0
  <2> HIDE DEF t
  <2>3. t \in T
    BY <2>1, <2>2
  <2>4. QED  BY <2>3 DEF t
<1>3. Nat \subseteq U
  <2> HIDE DEF U
  <2>1. QED  BY <1>1, <1>2, Climb
<1>4. ASSUME NEW t \in 0 .. MaxTime + 1 PROVE t \in T
  <2> DEFINE n == MaxTime + 1 - t
  <2>1. n \in Nat /\ n <= MaxTime + 1 /\ t = MaxTime + 1 - n
    BY <1>0
  <2> HIDE DEF n
  <2>2. QED  BY <1>3, <2>1
<1>5. \A t \in Times : t \in 0 .. MaxTime + 1 /\ t + 1 \in 0 .. MaxTime + 1
  BY <1>0
<1>6. QED  BY <1>4, <1>5

\* Occurrences from a second on.
From(bag, t) == SumFunctionOnSet(bag, t .. MaxTime)

LEMMA FromIs ==
  ASSUME NEW bag \in [Times -> Nat]
  PROVE  /\ From(bag, MaxTime + 1) = 0
         /\ \A t \in Times : From(bag, t) \in Nat /\ From(bag, t + 1) \in Nat /\ From(bag, t) = bag[t] + From(bag, t + 1)
<1>0. MaxTime \in Nat /\ Times = 0 .. MaxTime
  BY TrackerBounds DEF Times
<1>1. From(bag, MaxTime + 1) = 0
  <2>1. MaxTime + 1 .. MaxTime = {}
    BY <1>0
  <2>2. QED  BY <2>1, SumNone DEF From
<1>2. ASSUME NEW t \in Times
      PROVE  From(bag, t) \in Nat /\ From(bag, t + 1) \in Nat /\ From(bag, t) = bag[t] + From(bag, t + 1)
  <2> DEFINE A == t .. MaxTime
             B == t + 1 .. MaxTime
  <2>1. A \subseteq Times /\ B \subseteq Times /\ t \in A /\ A \ {t} = B
    BY <1>0
  <2>2. IsFiniteSet(A) /\ IsFiniteSet(B)
    <3>1. t \in Nat /\ t + 1 \in Nat
      BY <1>0
    <3>2. QED  BY <3>1, TimesFinite
  <2> HIDE DEF A, B
  <2>3. \A x \in Times : bag[x] \in Nat
    OBVIOUS
  <2>4. (\A x \in A : bag[x] \in Nat) /\ \A x \in B : bag[x] \in Nat
    BY <2>1, <2>3
  <2>5. SumFunctionOnSet(bag, A) \in Nat /\ SumFunctionOnSet(bag, B) \in Nat
    BY <2>2, <2>4, SumNat
  <2>6. SumFunctionOnSet(bag, A) = bag[t] + SumFunctionOnSet(bag, A \ {t})
    BY <2>1, <2>2, <2>4, SumSplit
  <2>7. QED  BY <2>1, <2>5, <2>6 DEF From, A, B
<1>3. QED  BY <1>1, <1>2

LEMMA WholeIs == \A bag : DOMAIN bag = Times => SumFunction(bag) = From(bag, 0)
BY DEF SumFunction, From, Times

LEMMA NothingFrom == NoEvents \in [Times -> Nat] /\ From(NoEvents, 0) = 0
<1>1. NoEvents \in [Times -> Nat] /\ \A t \in Times : NoEvents[t] = 0
  BY DEF NoEvents
<1> DEFINE T == {t \in Nat : From(NoEvents, t) = 0}
<1>2. MaxTime + 1 \in T
  BY <1>1, FromIs, TrackerBounds
<1>3. ASSUME NEW t \in Times, t + 1 \in T PROVE t \in T
  <2>1. From(NoEvents, t) = NoEvents[t] + From(NoEvents, t + 1) /\ t \in Nat
    BY <1>1, FromIs, TimesAre
  <2>2. QED  BY <1>1, <1>3, <2>1
<1>4. \A t \in Times : t \in T
  <2> HIDE DEF T
  <2>1. QED  BY <1>2, <1>3, Descend
<1>5. 0 \in Times
  BY TrackerBounds DEF Times
<1>6. QED  BY <1>1, <1>4, <1>5

AtMostKeep(n) == IF n <= Keep THEN n ELSE Keep

\* The newest ones, from any second on, are as many as there are and Keep at most.
LEMMA NewestFrom ==
  ASSUME NEW bag \in [Times -> Nat]
  PROVE  \A t \in Times : From(Newest(bag), t) = AtMostKeep(From(bag, t))
<1> DEFINE new == Newest(bag)
           T == {t \in Nat : From(new, t) = AtMostKeep(From(bag, t))}
<1>1. new \in [Times -> Nat] /\ Keep \in Nat /\ MaxTime + 1 \in Nat
  BY NewestIs, TrackerBounds
<1>2. \A t \in Times : new[t] = IF bag[t] <= Left(Later(bag, t)) THEN bag[t] ELSE Left(Later(bag, t))
  BY NewestIs
<1> HIDE DEF new
<1>3. MaxTime + 1 \in T
  <2>1. From(new, MaxTime + 1) = 0 /\ From(bag, MaxTime + 1) = 0
    BY <1>1, FromIs
  <2>2. QED  BY <1>1, <2>1 DEF AtMostKeep
<1>4. ASSUME NEW t \in Times, t + 1 \in T PROVE t \in T
  <2>1. /\ From(new, t) = new[t] + From(new, t + 1) /\ From(bag, t) = bag[t] + From(bag, t + 1)
        /\ From(bag, t + 1) \in Nat /\ From(new, t + 1) \in Nat /\ bag[t] \in Nat /\ t \in Nat
    BY <1>1, FromIs, TimesAre
  <2>2. PICK r \in Nat, b \in Nat : r = From(bag, t + 1) /\ b = bag[t]
    BY <2>1
  <2>3. From(new, t + 1) = AtMostKeep(r)
    BY <1>4, <2>2
  <2>4. Left(Later(bag, t)) = IF r <= Keep THEN Keep - r ELSE 0
    <3>1. Later(bag, t) = r
      BY <2>2 DEF Later, From
    <3>2. QED  BY <3>1, LeftIs
  <2>5. new[t] = IF b <= (IF r <= Keep THEN Keep - r ELSE 0) THEN b ELSE (IF r <= Keep THEN Keep - r ELSE 0)
    BY <1>2, <2>2, <2>4
  <2>6. From(new, t) = AtMostKeep(b + r)
    BY <1>1, <2>1, <2>3, <2>5 DEF AtMostKeep
  <2>7. QED  BY <2>1, <2>2, <2>6
<1>5. QED
  <2> HIDE DEF T
  <2>1. \A t \in Times : t \in T
    BY <1>3, <1>4, Descend
  <2>2. QED  BY <2>1 DEF T, new

\* One more occurrence.
LEMMA MoreFrom ==
  ASSUME NEW bag \in [Times -> Nat], NEW ts \in Times
  PROVE  LET with == [bag EXCEPT ![ts] = @ + 1]
         IN  /\ with \in [Times -> Nat]
             /\ \A t \in Times : From(with, t) = IF t <= ts THEN From(bag, t) + 1 ELSE From(bag, t)
<1> DEFINE with == [bag EXCEPT ![ts] = @ + 1]
           Is(t) == From(with, t) = IF t <= ts THEN From(bag, t) + 1 ELSE From(bag, t)
           T == {t \in Nat : Is(t)}
<1>0. MaxTime \in Nat /\ ts \in Nat /\ ts <= MaxTime /\ Times = 0 .. MaxTime
  BY TrackerBounds DEF Times
<1>1. with \in [Times -> Nat] /\ \A t \in Times : with[t] = IF t = ts THEN bag[t] + 1 ELSE bag[t]
  OBVIOUS
<1> HIDE DEF with
<1>2. MaxTime + 1 \in T
  <2>1. From(with, MaxTime + 1) = 0 /\ From(bag, MaxTime + 1) = 0
    BY <1>1, FromIs
  <2>2. QED  BY <1>0, <2>1
<1>3. ASSUME NEW t \in Times, t + 1 \in T PROVE t \in T
  <2>1. /\ From(with, t) = with[t] + From(with, t + 1) /\ From(bag, t) = bag[t] + From(bag, t + 1)
        /\ From(bag, t + 1) \in Nat /\ From(with, t + 1) \in Nat /\ bag[t] \in Nat /\ t \in Nat
    BY <1>1, FromIs, TimesAre
  <2>2. Is(t + 1)
    BY <1>3
  <2>3. PICK r \in Nat, b \in Nat : r = From(bag, t + 1) /\ b = bag[t]
    BY <2>1
  <2>4. From(with, t + 1) = IF t + 1 <= ts THEN r + 1 ELSE r
    BY <2>2, <2>3
  <2>5. with[t] = IF t = ts THEN b + 1 ELSE b
    BY <1>1, <2>3
  <2>6. From(with, t) = IF t <= ts THEN (b + r) + 1 ELSE b + r
    BY <1>0, <2>1, <2>4, <2>5
  <2>7. Is(t)
    BY <2>1, <2>3, <2>6
  <2>8. QED  BY <2>1, <2>7
<1>4. QED
  <2> HIDE DEF T
  <2>1. \A t \in Times : t \in T
    BY <1>2, <1>3, Descend
  <2>2. \A t \in Times : Is(t)
    BY <2>1 DEF T
  <2>3. QED  BY <1>1, <2>2 DEF with

\* Fewer everywhere are fewer together, fewer somewhere are fewer from before it on.
LEMMA FewerFrom ==
  ASSUME NEW a \in [Times -> Nat], NEW b \in [Times -> Nat], \A t \in Times : a[t] <= b[t], NEW u \in Times, a[u] < b[u]
  PROVE  From(a, 0) < From(b, 0)
<1> DEFINE Is(t) == From(a, t) <= From(b, t) /\ (t <= u => From(a, t) < From(b, t))
           T == {t \in Nat : Is(t)}
<1>0. MaxTime \in Nat /\ u \in Nat /\ u <= MaxTime /\ Times = 0 .. MaxTime
  BY TrackerBounds DEF Times
<1>1. MaxTime + 1 \in T
  <2>1. From(a, MaxTime + 1) = 0 /\ From(b, MaxTime + 1) = 0
    BY FromIs
  <2>2. QED  BY <1>0, <2>1
<1>2. ASSUME NEW t \in Times, t + 1 \in T PROVE t \in T
  <2>1. /\ From(a, t) = a[t] + From(a, t + 1) /\ From(b, t) = b[t] + From(b, t + 1)
        /\ From(a, t + 1) \in Nat /\ From(b, t + 1) \in Nat /\ a[t] \in Nat /\ b[t] \in Nat /\ t \in Nat
    BY FromIs, TimesAre
  <2>2. Is(t + 1)
    BY <1>2
  <2>3. a[t] <= b[t] /\ (t = u => a[t] < b[t])
    OBVIOUS
  <2>4. t <= u => t = u \/ t + 1 <= u
    BY <1>0, <2>1
  <2>5. PICK r \in Nat, q \in Nat, x \in Nat, y \in Nat : r = From(a, t + 1) /\ q = From(b, t + 1) /\ x = a[t] /\ y = b[t]
    BY <2>1
  <2>6. r <= q /\ (t + 1 <= u => r < q) /\ x <= y /\ (t = u => x < y)
    BY <2>2, <2>3, <2>5
  <2>7. x + r <= y + q /\ (t <= u => x + r < y + q)
    BY <2>4, <2>6
  <2>8. Is(t)
    BY <2>1, <2>5, <2>7
  <2>9. QED  BY <2>1, <2>8
<1>3. \A t \in Times : t \in T
  <2> HIDE DEF T
  <2>1. QED  BY <1>1, <1>2, Descend
<1>4. 0 \in Times /\ 0 <= u
  BY <1>0
<1>5. QED  BY <1>3, <1>4

\* What is from an earlier second on, and how much when there is nothing between.
LEMMA EarlierFrom ==
  ASSUME NEW a \in [Times -> Nat], NEW u \in Times
  PROVE  /\ \A t \in Times : t <= u => From(a, t) >= From(a, u)
         /\ (\A t \in 0 .. u - 1 : a[t] = 0) => \A t \in Times : t <= u => From(a, t) = From(a, u)
<1> DEFINE Zero == \A t \in 0 .. u - 1 : a[t] = 0
           Is(t) == t <= u => From(a, t) >= From(a, u) /\ (Zero => From(a, t) = From(a, u))
           T == {t \in Nat : Is(t)}
<1>0. MaxTime \in Nat /\ u \in Nat /\ u <= MaxTime /\ Times = 0 .. MaxTime /\ From(a, u) \in Nat
  BY TrackerBounds, FromIs DEF Times
<1>1. MaxTime + 1 \in T
  BY <1>0
<1>2. ASSUME NEW t \in Times, t + 1 \in T PROVE t \in T
  <2>1. /\ From(a, t) = a[t] + From(a, t + 1)
        /\ From(a, t) \in Nat /\ From(a, t + 1) \in Nat /\ a[t] \in Nat /\ t \in Nat
    BY FromIs, TimesAre
  <2>2. CASE t = u
    BY <1>0, <2>1, <2>2
  <2>3. CASE ~(t <= u)
    BY <2>1, <2>3
  <2>4. CASE t <= u /\ t # u
    <3>1. t + 1 <= u /\ t \in 0 .. u - 1
      BY <1>0, <2>1, <2>4
    <3>2. From(a, t + 1) >= From(a, u) /\ (Zero => From(a, t + 1) = From(a, u))
      BY <1>2, <3>1
    <3>3. Zero => a[t] = 0
      BY <3>1
    <3> HIDE DEF Zero
    <3>4. QED  BY <1>0, <2>1, <3>2, <3>3
  <2>5. QED  BY <2>2, <2>3, <2>4
<1>3. \A t \in Times : t \in T
  <2> HIDE DEF T
  <2>1. QED  BY <1>1, <1>2, Descend
<1>4. QED  BY <1>3

\* A row counts the occurrences there were and tells the last of them.
Counted(row, bag) ==
  /\ row.count = From(bag, 0)
  /\ bag[row.last] > 0
  /\ \A t \in Times : bag[t] > 0 => t <= row.last

\* Of the occurrences there were, the newest are kept, Keep at most.
KeepsNewest(have, bag) ==
  /\ From(have, 0) = AtMostKeep(From(bag, 0))
  /\ \A t \in Times : have[t] <= bag[t]
  /\ \A t \in Times : have[t] < bag[t] => \A u \in 0 .. t - 1 : have[u] = 0

\* An issue tells of what was recorded of it.
Tells(f) ==
  /\ Exists(f) => Counted(issue[f], all[f]) /\ KeepsNewest(EventsOf(issue[f].id), all[f])
  /\ ~Exists(f) => all[f] = NoEvents

TrackerInv ==
  /\ TrackerTypeOK
  /\ IdsAreDistinct
  /\ \A id \in DOMAIN events : \E f \in Fingerprints : Exists(f) /\ issue[f].id = id
  /\ \A f \in Fingerprints : Tells(f)

\* Another occurrence is kept, and the oldest is not, beyond Keep.
LEMMA KeepsNewestMore ==
  ASSUME NEW have \in [Times -> Nat], NEW bag \in [Times -> Nat], NEW ts \in Times, KeepsNewest(have, bag)
  PROVE  KeepsNewest(Newest([have EXCEPT ![ts] = @ + 1]), [bag EXCEPT ![ts] = @ + 1])
<1> DEFINE with == [have EXCEPT ![ts] = @ + 1]
           more == [bag EXCEPT ![ts] = @ + 1]
           new == Newest(with)
<1>0. MaxTime \in Nat /\ ts \in Nat /\ ts <= MaxTime /\ Times = 0 .. MaxTime /\ 0 \in Times /\ Keep \in Nat
  BY TrackerBounds DEF Times
<1>1. /\ with \in [Times -> Nat] /\ more \in [Times -> Nat]
      /\ \A t \in Times : with[t] = IF t = ts THEN have[t] + 1 ELSE have[t]
      /\ \A t \in Times : more[t] = IF t = ts THEN bag[t] + 1 ELSE bag[t]
  OBVIOUS
<1>2. /\ \A t \in Times : From(with, t) = IF t <= ts THEN From(have, t) + 1 ELSE From(have, t)
      /\ \A t \in Times : From(more, t) = IF t <= ts THEN From(bag, t) + 1 ELSE From(bag, t)
  BY MoreFrom
<1> HIDE DEF with, more
<1>3. /\ new \in [Times -> Nat]
      /\ \A t \in Times : new[t] = IF with[t] <= Left(Later(with, t)) THEN with[t] ELSE Left(Later(with, t))
      /\ \A t \in Times : From(new, t) = AtMostKeep(From(with, t))
  BY <1>1, NewestIs, NewestFrom
<1> HIDE DEF new
<1>4. \A t \in Times :
        /\ From(with, t + 1) \in Nat /\ From(with, t) \in Nat /\ with[t] \in Nat /\ Left(Later(with, t)) \in Nat
        /\ From(with, t + 1) >= Keep => Left(Later(with, t)) = 0
        /\ ~(with[t] <= Left(Later(with, t))) => From(with, t) >= Keep
  <2> SUFFICES ASSUME NEW t \in Times
               PROVE  /\ From(with, t + 1) \in Nat /\ From(with, t) \in Nat /\ with[t] \in Nat
                      /\ Left(Later(with, t)) \in Nat
                      /\ From(with, t + 1) >= Keep => Left(Later(with, t)) = 0
                      /\ ~(with[t] <= Left(Later(with, t))) => From(with, t) >= Keep
    OBVIOUS
  <2>1. /\ From(with, t + 1) \in Nat /\ From(with, t) \in Nat /\ with[t] \in Nat
        /\ From(with, t) = with[t] + From(with, t + 1)
    BY <1>1, FromIs
  <2>2. PICK r \in Nat, w \in Nat : r = From(with, t + 1) /\ w = with[t]
    BY <2>1
  <2>3. From(with, t) = w + r
    BY <2>1, <2>2
  <2>4. Left(Later(with, t)) = IF r <= Keep THEN Keep - r ELSE 0
    <3>1. Later(with, t) = r
      BY <2>2 DEF Later, From
    <3>2. QED  BY <3>1, LeftIs
  <2> DEFINE f == From(with, t)
             y == Left(Later(with, t))
             g == From(with, t + 1)
             v == with[t]
  <2>5. f = w + r /\ y = (IF r <= Keep THEN Keep - r ELSE 0) /\ g = r /\ v = w
    BY <2>2, <2>3, <2>4
  <2> HIDE DEF f, y, g, v
  <2>6. g \in Nat /\ f \in Nat /\ v \in Nat /\ y \in Nat /\ (g >= Keep => y = 0) /\ (~(v <= y) => f >= Keep)
    BY <1>0, <2>5
  <2>7. QED  BY <2>6 DEF f, y, g, v
<1>5. From(new, 0) = AtMostKeep(From(more, 0))
  <2>1. PICK h \in Nat, b \in Nat : h = From(have, 0) /\ b = From(bag, 0)
    BY <1>0, FromIs
  <2>2. From(with, 0) = h + 1 /\ From(more, 0) = b + 1
    BY <1>0, <1>2, <2>1
  <2>3. h = AtMostKeep(b)
    BY <2>1 DEF KeepsNewest
  <2>4. AtMostKeep(h + 1) = AtMostKeep(b + 1)
    BY <1>0, <2>3 DEF AtMostKeep
  <2>5. QED  BY <1>0, <1>3, <2>2, <2>4
<1>6. \A t \in Times : new[t] <= with[t] /\ with[t] <= more[t] /\ new[t] \in Nat /\ have[t] \in Nat /\ bag[t] \in Nat
  <2> SUFFICES ASSUME NEW t \in Times
               PROVE  new[t] <= with[t] /\ with[t] <= more[t] /\ new[t] \in Nat /\ have[t] \in Nat /\ bag[t] \in Nat
    OBVIOUS
  <2>1. new[t] \in Nat /\ with[t] \in Nat /\ more[t] \in Nat /\ have[t] \in Nat /\ bag[t] \in Nat /\ have[t] <= bag[t]
    BY <1>1, <1>3 DEF KeepsNewest
  <2>2. with[t] <= more[t]
    BY <1>1, <2>1
  <2>3. Left(Later(with, t)) \in Nat
    BY <1>0, <1>4
  <2>4. new[t] <= with[t]
    BY <1>3, <2>1, <2>3
  <2>5. QED  BY <2>1, <2>2, <2>4
<1>7. ASSUME NEW t \in Times, new[t] < more[t], NEW u \in 0 .. t - 1 PROVE new[u] = 0
  <2>0. u \in Times /\ u + 1 \in Times /\ u + 1 <= t /\ t \in Nat /\ u \in Nat /\ u < t
    BY <1>0
  <2>1. ASSUME From(with, u + 1) >= Keep PROVE new[u] = 0
    <3>1. Left(Later(with, u)) = 0
      BY <1>0, <1>4, <2>0, <2>1
    <3>2. with[u] \in Nat
      BY <1>4, <2>0
    <3>3. QED  BY <1>3, <2>0, <3>1, <3>2
  <2>2. CASE new[t] < with[t]
    <3>1. From(with, t) >= Keep
      <4>1. new[t] = Left(Later(with, t)) /\ ~(with[t] <= Left(Later(with, t)))
        BY <1>3, <1>6, <2>2
      <4>2. QED  BY <1>0, <1>4, <4>1
    <3>2. From(with, u + 1) >= From(with, t)
      BY <1>1, <2>0, EarlierFrom
    <3>3. From(with, u + 1) \in Nat /\ From(with, t) \in Nat
      BY <1>4, <2>0
    <3>4. From(with, u + 1) >= Keep
      BY <1>0, <3>1, <3>2, <3>3
    <3>5. QED  BY <2>1, <3>4
  <2>3. CASE ~(new[t] < with[t])
    <3>1. have[t] < bag[t]
      <4>1. with[t] < more[t]
        BY <1>1, <1>3, <1>6, <2>3, <1>7
      <4>2. QED  BY <1>1, <1>6, <4>1
    <3>2. \A v \in 0 .. t - 1 : have[v] = 0
      BY <3>1 DEF KeepsNewest
    <3>3. CASE u # ts
      <4>1. with[u] = 0
        BY <1>1, <2>0, <3>2, <3>3
      <4>2. QED  BY <1>6, <2>0, <4>1
    <3>4. CASE u = ts
      <4>1. From(have, 0) = Keep
        <5>1. From(have, 0) < From(bag, 0)
          BY <3>1, FewerFrom DEF KeepsNewest
        <5>2. From(have, 0) = AtMostKeep(From(bag, 0)) /\ From(have, 0) \in Nat /\ From(bag, 0) \in Nat
          BY <1>0, FromIs DEF KeepsNewest
        <5>3. QED  BY <1>0, <5>1, <5>2 DEF AtMostKeep
      <4>2. From(have, u + 1) = From(have, 0)
        <5>1. \A v \in 0 .. (u + 1) - 1 : have[v] = 0
          BY <2>0, <3>2
        <5>2. \A v \in Times : v <= u + 1 => From(have, v) = From(have, u + 1)
          BY <2>0, <5>1, EarlierFrom
        <5>3. QED  BY <1>0, <2>0, <5>2
      <4>3. From(with, u + 1) = From(have, u + 1)
        <5>1. ~(u + 1 <= ts)
          BY <2>0, <3>4
        <5>2. QED  BY <1>2, <2>0, <5>1
      <4>4. QED  BY <1>0, <2>1, <4>1, <4>2, <4>3
    <3>5. QED  BY <3>3, <3>4
  <2>4. QED  BY <2>2, <2>3
<1>8. \A t \in Times : new[t] <= more[t]
  <2>1. \A t \in Times : with[t] \in Nat /\ more[t] \in Nat
    BY <1>1
  <2>2. QED  BY <1>6, <2>1
<1>9. KeepsNewest(new, more)
  BY <1>5, <1>7, <1>8 DEF KeepsNewest
<1>10. QED  BY <1>9 DEF new, with, more

LEMMA NoneKept == KeepsNewest(NoEvents, NoEvents)
<1>1. /\ From(NoEvents, 0) = 0 /\ Keep \in Nat /\ \A t \in Times : NoEvents[t] = 0
      /\ \A t \in Times : \A u \in 0 .. t - 1 : u \in Times
  BY NothingFrom, TrackerBounds DEF NoEvents, Times
<1>2. QED  BY <1>1 DEF KeepsNewest, AtMostKeep

\* The first occurrence of an issue, and another.
LEMMA CountedFirst ==
  ASSUME NEW ts \in Times, NEW row, row.count = 1, row.last = ts
  PROVE  Counted(row, [NoEvents EXCEPT ![ts] = @ + 1])
<1> DEFINE with == [NoEvents EXCEPT ![ts] = @ + 1]
<1>0. 0 \in Times /\ 0 <= ts /\ ts \in Nat
  BY TrackerBounds DEF Times
<1>1. \A t \in Times : with[t] = IF t = ts THEN 1 ELSE 0
  BY DEF NoEvents
<1>2. From(with, 0) = 1
  <2>1. From(with, 0) = From(NoEvents, 0) + 1
    BY <1>0, NothingFrom, MoreFrom
  <2>2. QED  BY <2>1, NothingFrom
<1> HIDE DEF with
<1>3. Counted(row, with)
  BY <1>0, <1>1, <1>2 DEF Counted
<1>4. QED  BY <1>3 DEF with

LEMMA CountedMore ==
  ASSUME NEW bag \in [Times -> Nat], NEW ts \in Times, NEW row, NEW new, Counted(row, bag), row.last \in Times,
         new.count = row.count + 1, new.last = Max({row.last, ts})
  PROVE  Counted(new, [bag EXCEPT ![ts] = @ + 1])
<1> DEFINE with == [bag EXCEPT ![ts] = @ + 1]
<1>0. 0 \in Times /\ 0 <= ts /\ ts \in Nat /\ row.last \in Nat /\ Times \subseteq Nat
  BY TrackerBounds DEF Times
<1>1. \A t \in Times : with[t] = (IF t = ts THEN bag[t] + 1 ELSE bag[t]) /\ bag[t] \in Nat
  OBVIOUS
<1>2. From(with, 0) = From(bag, 0) + 1
  BY <1>0, MoreFrom
<1>3. new.last = IF row.last >= ts THEN row.last ELSE ts
  <2>1. row.last \in Int /\ ts \in Int
    BY <1>0
  <2>2. QED  BY <2>1, MaxOfTwo
<1> HIDE DEF with
<1>4. new.count = From(with, 0)
  BY <1>2 DEF Counted
<1>5. with[new.last] > 0
  BY <1>0, <1>1, <1>3 DEF Counted
<1>6. \A t \in Times : with[t] > 0 => t <= new.last
  <2> SUFFICES ASSUME NEW t \in Times, with[t] > 0 PROVE t <= new.last
    OBVIOUS
  <2>1. t = ts \/ t <= row.last
    BY <1>1 DEF Counted
  <2>2. QED  BY <1>0, <1>3, <2>1
<1>7. QED  BY <1>4, <1>5, <1>6 DEF Counted, with

LEMMA EventsAre ==
  ASSUME TrackerTypeOK PROVE \A id : EventsOf(id) \in [Times -> Nat]
BY NothingFrom DEF TrackerTypeOK, EventsOf

\* The row an occurrence leaves.
RowAfter(f, ts) ==
  IF Exists(f) THEN Occurred(issue[f], ts)
  ELSE [id |-> NextId, state |-> "open", resolved |-> FALSE, count |-> 1, last |-> ts]

LEMMA RowAfterIs ==
  ASSUME TrackerTypeOK, NEW f \in Fingerprints, NEW ts \in Times
  PROVE  LET row == RowAfter(f, ts)
         IN  /\ row \in Rows /\ row.id # 0
             /\ Exists(f) => /\ row.id = issue[f].id /\ row.count = issue[f].count + 1
                             /\ row.last = Max({issue[f].last, ts})
             /\ ~Exists(f) => row.id = NextId /\ row.count = 1 /\ row.last = ts
<1> DEFINE row == RowAfter(f, ts)
<1>1. issue \in [Fingerprints -> Rows] /\ issue[f] \in Rows
  BY DEF TrackerTypeOK
<1>2. CASE Exists(f)
  <2>1. /\ issue[f].id \in Nat /\ issue[f].state \in States /\ issue[f].resolved \in BOOLEAN
        /\ issue[f].count \in Nat /\ issue[f].last \in Times
    BY <1>1 DEF Rows
  <2>2. Max({issue[f].last, ts}) \in Times
    <3>1. issue[f].last \in Int /\ ts \in Int
      BY <2>1 DEF Times
    <3>2. Max({issue[f].last, ts}) = issue[f].last \/ Max({issue[f].last, ts}) = ts
      BY <3>1, MaxOfTwo
    <3>3. QED  BY <2>1, <3>2
  <2>3. issue[f].count + 1 \in Nat /\ "ignored" \in States /\ "open" \in States /\ FALSE \in BOOLEAN
    BY <2>1 DEF States
  <2>4. row = Occurred(issue[f], ts)
    BY <1>2 DEF RowAfter
  <2>5. /\ row.id = issue[f].id /\ row.count = issue[f].count + 1 /\ row.last = Max({issue[f].last, ts})
        /\ row.state \in States /\ row.resolved \in BOOLEAN
        /\ row = [id |-> row.id, state |-> row.state, resolved |-> row.resolved, count |-> row.count, last |-> row.last]
    <3> HIDE DEF row
    <3>1. QED  BY <2>1, <2>3, <2>4 DEF Occurred, Bumped
  <2> HIDE DEF row
  <2>6. row \in Rows
    BY <2>1, <2>2, <2>3, <2>5 DEF Rows
  <2>7. row.id # 0
    BY <1>2, <2>5 DEF Exists
  <2>8. QED  BY <1>2, <2>5, <2>6, <2>7 DEF row
<1>3. CASE ~Exists(f)
  <2>1. NextId \in Nat \ {0}
    BY <1>1, NextIdIs
  <2>2. row = [id |-> NextId, state |-> "open", resolved |-> FALSE, count |-> 1, last |-> ts]
    BY <1>3 DEF RowAfter
  <2>3. row \in Rows /\ row.id = NextId /\ row.count = 1 /\ row.last = ts
    <3> HIDE DEF row
    <3>1. QED  BY <2>1, <2>2 DEF Rows, States
  <2>4. QED  BY <1>3, <2>1, <2>3
<1>4. QED  BY <1>2, <1>3

LEMMA RecordTells ==
  ASSUME TrackerInv, NEW f \in Fingerprints, NEW ts \in Times, RecordError(f, ts) PROVE TrackerInv'
<1> DEFINE row == RowAfter(f, ts)
           with == [EventsOf(row.id) EXCEPT ![ts] = @ + 1]
           more == [all[f] EXCEPT ![ts] = @ + 1]
<1>0. TrackerTypeOK /\ IdsAreDistinct
  BY DEF TrackerInv
<1>1. /\ issue' = [issue EXCEPT ![f] = row]
      /\ events' = [id \in DOMAIN events \cup {row.id} |-> IF id = row.id THEN Newest(with) ELSE events[id]]
      /\ verdict' = [verdict EXCEPT ![f] = IF Exists(f) THEN @ ELSE "open"]
      /\ again' = [again EXCEPT ![f] = TRUE]
      /\ all' = [all EXCEPT ![f] = more]
      /\ deletes' = deletes
  BY DEF RecordError, RowAfter
<1>2. /\ row \in Rows /\ row.id # 0 /\ row.id \in Nat
      /\ Exists(f) => row.id = issue[f].id /\ row.count = issue[f].count + 1 /\ row.last = Max({issue[f].last, ts})
      /\ ~Exists(f) => row.id = NextId /\ row.count = 1 /\ row.last = ts
  <2>1. \A r \in Rows : r.id \in Nat
    BY DEF Rows
  <2>2. QED  BY <1>0, <2>1, RowAfterIs
<1>3. EventsOf(row.id) \in [Times -> Nat] /\ all[f] \in [Times -> Nat]
  <2>1. all[f] \in [Times -> Nat]
    BY <1>0 DEF TrackerTypeOK
  <2> HIDE DEF row
  <2>2. QED  BY <1>0, <2>1, EventsAre
<1>4. with \in [Times -> Nat] /\ more \in [Times -> Nat]
  <2> HIDE DEF row
  <2>1. QED  BY <1>3
<1> HIDE DEF row, with, more
<1>5. Newest(with) \in [Times -> Nat]
  BY <1>4, NewestIs
<1>6. \A g \in Fingerprints : /\ issue'[g] = IF g = f THEN row ELSE issue[g]
                              /\ all'[g] = IF g = f THEN more ELSE all[g]
  BY <1>0, <1>1 DEF TrackerTypeOK
<1>7. TrackerTypeOK'
  <2>1. issue' \in [Fingerprints -> Rows] /\ all' \in [Fingerprints -> [Times -> Nat]]
    BY <1>0, <1>1, <1>2, <1>4 DEF TrackerTypeOK
  <2>2. /\ DOMAIN events' \in SUBSET Nat
        /\ \A id \in DOMAIN events' : events'[id] \in [Times -> Nat]
    BY <1>0, <1>1, <1>2, <1>5 DEF TrackerTypeOK
  <2>3. verdict' \in [Fingerprints -> States] /\ again' \in [Fingerprints -> BOOLEAN] /\ deletes' \in Nat
    BY <1>0, <1>1 DEF TrackerTypeOK, States
  <2>4. QED  BY <2>1, <2>2, <2>3 DEF TrackerTypeOK
\* Nobody else has the id.
<1>8. \A g \in Fingerprints : g # f => issue[g].id # row.id
  <2> SUFFICES ASSUME NEW g \in Fingerprints, g # f PROVE issue[g].id # row.id
    OBVIOUS
  <2>1. CASE Exists(f)
    BY <1>0, <1>2, <2>1 DEF IdsAreDistinct
  <2>2. CASE ~Exists(f)
    <3>1. issue \in [Fingerprints -> Rows] /\ issue[g].id \in Nat
      BY <1>0 DEF TrackerTypeOK, Rows
    <3>2. issue[g].id < NextId /\ NextId \in Nat
      BY <3>1, NextIdIs
    <3>3. QED  BY <1>2, <2>2, <3>1, <3>2
  <2>3. QED  BY <2>1, <2>2
<1>9. \A g \in Fingerprints : Exists(g)' <=> g = f \/ Exists(g)
  BY <1>2, <1>6 DEF Exists
<1>10. IdsAreDistinct'
  <2> SUFFICES ASSUME NEW g \in Fingerprints, NEW h \in Fingerprints, Exists(g)', issue'[g].id = issue'[h].id PROVE g = h
    BY DEF IdsAreDistinct
  <2>1. CASE g # f /\ h # f
    BY <1>0, <1>6, <1>9, <2>1 DEF IdsAreDistinct
  <2>2. CASE g = f \/ h = f
    BY <1>6, <1>8, <2>2
  <2>3. QED  BY <2>1, <2>2
<1>11. \A id \in DOMAIN events' : \E g \in Fingerprints : Exists(g)' /\ issue'[g].id = id
  <2> SUFFICES ASSUME NEW id \in DOMAIN events' PROVE \E g \in Fingerprints : Exists(g)' /\ issue'[g].id = id
    OBVIOUS
  <2>1. CASE id = row.id
    BY <1>6, <1>9, <2>1
  <2>2. CASE id # row.id
    <3>1. id \in DOMAIN events
      BY <1>1, <2>2
    <3>2. PICK g \in Fingerprints : Exists(g) /\ issue[g].id = id
      BY <3>1 DEF TrackerInv
    <3>3. CASE g = f
      BY <1>2, <2>2, <3>2, <3>3
    <3>4. CASE g # f
      BY <1>6, <1>9, <3>2, <3>4
    <3>5. QED  BY <3>3, <3>4
  <2>3. QED  BY <2>1, <2>2
\* Before it, what was kept is the newest of what there was.
<1>12. KeepsNewest(EventsOf(row.id), all[f])
  <2>1. CASE Exists(f)
    BY <1>2, <2>1 DEF TrackerInv, Tells
  <2>2. CASE ~Exists(f)
    <3>1. row.id \notin DOMAIN events
      <4> SUFFICES ASSUME row.id \in DOMAIN events PROVE FALSE
        OBVIOUS
      <4>1. PICK g \in Fingerprints : Exists(g) /\ issue[g].id = row.id
        BY DEF TrackerInv
      <4>2. QED  BY <1>8, <2>2, <4>1
    <3>2. EventsOf(row.id) = NoEvents /\ all[f] = NoEvents
      BY <2>2, <3>1 DEF EventsOf, TrackerInv, Tells
    <3>3. QED  BY <3>2, NoneKept
  <2>3. QED  BY <2>1, <2>2
<1>13. Tells(f)'
  <2>1. KeepsNewest(Newest(with), more)
    BY <1>3, <1>12, KeepsNewestMore DEF with, more
  <2>2. row.id \in DOMAIN events' /\ events'[row.id] = Newest(with)
    BY <1>1
  <2>3. Counted(row, more)
    <3>1. CASE Exists(f)
      <4>1. Counted(issue[f], all[f]) /\ issue[f].last \in Times
        BY <1>0, <3>1 DEF TrackerInv, Tells, TrackerTypeOK, Rows
      <4>2. QED  BY <1>2, <1>3, <3>1, <4>1, CountedMore DEF more
    <3>2. CASE ~Exists(f)
      <4>1. all[f] = NoEvents
        BY <3>2 DEF TrackerInv, Tells
      <4>2. QED  BY <1>2, <3>2, <4>1, CountedFirst DEF more
    <3>3. QED  BY <3>1, <3>2
  <2>4. Exists(f)' /\ issue'[f] = row /\ all'[f] = more
    BY <1>6, <1>9
  <2>5. EventsOf(issue[f].id)' = Newest(with)
    BY <2>2, <2>4 DEF EventsOf
  <2>6. QED  BY <2>1, <2>3, <2>4, <2>5 DEF Tells
<1>14. ASSUME NEW g \in Fingerprints, g # f PROVE Tells(g)'
  <2>1. issue'[g] = issue[g] /\ all'[g] = all[g] /\ (Exists(g)' <=> Exists(g)) /\ issue[g].id # row.id
    BY <1>6, <1>8, <1>9, <1>14
  <2>3. (issue[g].id \in DOMAIN events' <=> issue[g].id \in DOMAIN events)
        /\ (issue[g].id \in DOMAIN events => events'[issue[g].id] = events[issue[g].id])
    BY <1>1, <2>1
  <2>4. Tells(g)
    BY DEF TrackerInv
  <2>5. QED  BY <2>1, <2>3, <2>4 DEF Tells, EventsOf
<1>15. \A g \in Fingerprints : Tells(g)'
  BY <1>13, <1>14
<1>16. QED  BY <1>7, <1>10, <1>11, <1>15 DEF TrackerInv

LEMMA MarkedIs ==
  \A row \in Rows, s \in States, flag \in BOOLEAN :
    LET new == Marked(row, s, flag)
    IN  new \in Rows /\ new.id = row.id /\ new.count = row.count /\ new.last = row.last
BY DEF Marked, Rows

\* Another state and flag tell as much.
LEMMA MarkedTells ==
  ASSUME TrackerInv, UNCHANGED <<events, all, deletes>>, issue' \in [Fingerprints -> Rows],
         \A f \in Fingerprints : /\ issue'[f].id = issue[f].id /\ issue'[f].count = issue[f].count
                                 /\ issue'[f].last = issue[f].last,
         verdict' \in [Fingerprints -> States], again' \in [Fingerprints -> BOOLEAN]
  PROVE  TrackerInv'
<1>1. TrackerTypeOK'
  BY DEF TrackerInv, TrackerTypeOK
<1>2. \A f \in Fingerprints : Exists(f)' <=> Exists(f)
  BY DEF Exists
<1>3. IdsAreDistinct'
  BY <1>2 DEF TrackerInv, IdsAreDistinct
<1>4. (\A id \in DOMAIN events : \E f \in Fingerprints : Exists(f) /\ issue[f].id = id)'
  BY <1>2 DEF TrackerInv
<1>5. \A f \in Fingerprints : Tells(f)'
  BY <1>2 DEF TrackerInv, Tells, Counted, EventsOf
<1>6. QED  BY <1>1, <1>3, <1>4, <1>5 DEF TrackerInv

LEMMA SetStateTells == ASSUME TrackerInv, NEW ids, NEW s \in States, SetState(ids, s) PROVE TrackerInv'
<1> DEFINE hit == {f \in Fingerprints : Exists(f) /\ issue[f].id \in ids}
           flag == s = "resolved"
<1>1. /\ issue' = [f \in Fingerprints |-> IF f \in hit THEN Marked(issue[f], s, flag) ELSE issue[f]]
      /\ verdict' = [f \in Fingerprints |-> IF f \in hit THEN s ELSE verdict[f]]
      /\ again' = [f \in Fingerprints |-> f \notin hit /\ again[f]]
      /\ UNCHANGED <<events, all, deletes>>
  BY DEF SetState
<1>2. flag \in BOOLEAN
  OBVIOUS
<1> HIDE DEF hit, flag
<1>3. /\ issue \in [Fingerprints -> Rows] /\ verdict \in [Fingerprints -> States]
      /\ again \in [Fingerprints -> BOOLEAN]
  BY DEF TrackerInv, TrackerTypeOK
<1>4. \A f \in Fingerprints :
        LET new == Marked(issue[f], s, flag)
        IN  new \in Rows /\ new.id = issue[f].id /\ new.count = issue[f].count /\ new.last = issue[f].last
  BY <1>2, <1>3, MarkedIs
<1>5. /\ issue' \in [Fingerprints -> Rows]
      /\ \A f \in Fingerprints : /\ issue'[f].id = issue[f].id /\ issue'[f].count = issue[f].count
                                 /\ issue'[f].last = issue[f].last
  BY <1>1, <1>3, <1>4
<1>6. verdict' \in [Fingerprints -> States]
  BY <1>1, <1>3
<1>7. again' \in [Fingerprints -> BOOLEAN]
  BY <1>1, <1>3
<1>8. QED  BY <1>1, <1>5, <1>6, <1>7, MarkedTells

LEMMA MigrateTells == ASSUME TrackerInv, Migrate PROVE TrackerInv'
<1> DEFINE old(f) == Exists(f) /\ issue[f].resolved /\ issue[f].state = "open"
<1>1. /\ issue' = [f \in Fingerprints |-> IF old(f) THEN Marked(issue[f], "resolved", TRUE) ELSE issue[f]]
      /\ UNCHANGED <<events, verdict, again, all, deletes>>
  BY DEF Migrate
<1> HIDE DEF old
<1>2. /\ issue \in [Fingerprints -> Rows] /\ verdict \in [Fingerprints -> States]
      /\ again \in [Fingerprints -> BOOLEAN]
  BY DEF TrackerInv, TrackerTypeOK
<1>3. \A f \in Fingerprints :
        LET new == Marked(issue[f], "resolved", TRUE)
        IN  new \in Rows /\ new.id = issue[f].id /\ new.count = issue[f].count /\ new.last = issue[f].last
  BY <1>2, MarkedIs DEF States
<1>4. /\ issue' \in [Fingerprints -> Rows]
      /\ \A f \in Fingerprints : /\ issue'[f].id = issue[f].id /\ issue'[f].count = issue[f].count
                                 /\ issue'[f].last = issue[f].last
  BY <1>1, <1>2, <1>3
<1>5. QED  BY <1>1, <1>2, <1>4, MarkedTells

\* A deleted issue takes its occurrences along, and no other's.
LEMMA DeleteTells == ASSUME TrackerInv, NEW ids, DeleteIssues(ids) PROVE TrackerInv'
<1> DEFINE hit == {f \in Fingerprints : Exists(f) /\ issue[f].id \in ids}
           dead == {issue[f].id : f \in hit}
<1>1. /\ deletes' = deletes + Cardinality(hit)
      /\ issue' = [f \in Fingerprints |-> IF f \in hit THEN NoIssue ELSE issue[f]]
      /\ events' = [id \in DOMAIN events \ dead |-> events[id]]
      /\ all' = [f \in Fingerprints |-> IF f \in hit THEN NoEvents ELSE all[f]]
      /\ UNCHANGED <<verdict, again>>
  BY DEF DeleteIssues
<1>2. TrackerTypeOK /\ IdsAreDistinct /\ \A f \in Fingerprints : Tells(f)
  BY DEF TrackerInv
<1>3. hit \subseteq Fingerprints /\ \A f \in hit : Exists(f)
  OBVIOUS
<1>4. \A f \in Fingerprints : Exists(f) /\ issue[f].id \in dead => f \in hit
  BY <1>2 DEF IdsAreDistinct
<1>5. \A f \in hit : issue[f].id \in dead
  OBVIOUS
<1>6. Cardinality(hit) \in Nat
  <2> HIDE DEF hit
  <2>1. IsFiniteSet(hit)
    BY <1>3, FiniteFingerprints, FS_Subset
  <2>2. QED  BY <2>1, FS_CardinalityType
<1> HIDE DEF hit, dead
<1>7. NoIssue \in Rows /\ NoIssue.id = 0
  BY TrackerBounds DEF NoIssue, Rows, States, Times
<1>8. TrackerTypeOK'
  <2>1. issue' \in [Fingerprints -> Rows]
    BY <1>1, <1>2, <1>7 DEF TrackerTypeOK
  <2>2. all' \in [Fingerprints -> [Times -> Nat]]
    BY <1>1, <1>2, NothingFrom DEF TrackerTypeOK
  <2>3. deletes' \in Nat
    BY <1>1, <1>2, <1>6 DEF TrackerTypeOK
  <2>4. DOMAIN events' \in SUBSET Nat /\ \A id \in DOMAIN events' : events'[id] \in [Times -> Nat]
    BY <1>1, <1>2 DEF TrackerTypeOK
  <2>5. QED  BY <1>1, <1>2, <2>1, <2>2, <2>3, <2>4 DEF TrackerTypeOK
<1>9. \A f \in Fingerprints : /\ Exists(f)' <=> Exists(f) /\ f \notin hit
                              /\ f \in hit => issue'[f].id = 0 /\ all'[f] = NoEvents
                              /\ f \notin hit => issue'[f] = issue[f] /\ all'[f] = all[f]
  BY <1>1, <1>7 DEF Exists
<1>10. IdsAreDistinct'
  <2> SUFFICES ASSUME NEW f \in Fingerprints, NEW g \in Fingerprints, Exists(f)', issue'[f].id = issue'[g].id PROVE f = g
    BY DEF IdsAreDistinct
  <2>1. f \notin hit /\ Exists(f) /\ issue'[f].id = issue[f].id /\ issue[f].id # 0
    BY <1>9 DEF Exists
  <2>2. g \notin hit /\ issue'[g].id = issue[g].id
    BY <1>9, <2>1
  <2>3. QED  BY <1>2, <2>1, <2>2 DEF IdsAreDistinct
<1>11. \A id \in DOMAIN events' : \E f \in Fingerprints : Exists(f)' /\ issue'[f].id = id
  <2> SUFFICES ASSUME NEW id \in DOMAIN events' PROVE \E f \in Fingerprints : Exists(f)' /\ issue'[f].id = id
    OBVIOUS
  <2>1. id \in DOMAIN events /\ id \notin dead
    BY <1>1
  <2>2. PICK f \in Fingerprints : Exists(f) /\ issue[f].id = id
    BY <2>1 DEF TrackerInv
  <2>3. f \notin hit
    BY <1>5, <2>1, <2>2
  <2>4. QED  BY <1>9, <2>2, <2>3
<1>12. ASSUME NEW f \in Fingerprints PROVE Tells(f)'
  <2>1. CASE f \in hit
    BY <1>9, <2>1 DEF Tells
  <2>2. CASE f \notin hit /\ ~Exists(f)
    BY <1>2, <1>9, <2>2 DEF Tells
  <2>3. CASE f \notin hit /\ Exists(f)
    <3>1. issue'[f] = issue[f] /\ all'[f] = all[f] /\ issue[f].id \notin dead
      BY <1>4, <1>9, <2>3
    <3>2. EventsOf(issue[f].id)' = EventsOf(issue[f].id)
      BY <1>1, <3>1 DEF EventsOf
    <3>3. QED  BY <1>2, <1>9, <2>3, <3>1, <3>2 DEF Tells
  <2>4. QED  BY <2>1, <2>2, <2>3
<1>13. QED  BY <1>8, <1>10, <1>11, <1>12 DEF TrackerInv

LEMMA TrackerTellsInit == TrackerInit => TrackerInv
<1> SUFFICES ASSUME TrackerInit PROVE TrackerInv
  OBVIOUS
<1>1. NoIssue \in Rows /\ NoIssue.id = 0
  BY TrackerBounds DEF NoIssue, Rows, States, Times
<1>2. \A f \in Fingerprints : issue[f] = NoIssue /\ ~Exists(f) /\ all[f] = NoEvents
  BY <1>1 DEF TrackerInit, Exists
<1>3. DOMAIN events = {}
  BY DEF TrackerInit
<1>4. TrackerTypeOK
  BY <1>1, <1>3, NothingFrom DEF TrackerInit, TrackerTypeOK, States
<1>5. QED  BY <1>2, <1>3, <1>4 DEF TrackerInv, IdsAreDistinct, Tells

LEMMA TrackerTellsNext == TrackerInv /\ [TrackerNext]_trackerVars => TrackerInv'
<1> SUFFICES ASSUME TrackerInv, [TrackerNext]_trackerVars PROVE TrackerInv'
  OBVIOUS
<1>1. CASE \E f \in Fingerprints, ts \in Times : RecordError(f, ts)
  BY <1>1, RecordTells
<1>2. CASE \E ids \in SUBSET ListedIds, s \in States : SetState(ids, s)
  BY <1>2, SetStateTells
<1>3. CASE \E ids \in SUBSET ListedIds : DeleteIssues(ids)
  BY <1>3, DeleteTells
<1>4. CASE Migrate
  BY <1>4, MigrateTells
<1>5. CASE UNCHANGED trackerVars
  BY <1>5 DEF trackerVars, TrackerInv, TrackerTypeOK, IdsAreDistinct, Tells, Counted, EventsOf, Exists
<1>6. QED  BY <1>1, <1>2, <1>3, <1>4, <1>5 DEF TrackerNext

LEMMA TrackerInvariance == TrackerSpec => []TrackerInv
<1>1. QED  BY TrackerTellsInit, TrackerTellsNext, PTL DEF TrackerSpec

LEMMA TellingSummarises == TrackerInv => IssueSummarises
<1> SUFFICES ASSUME TrackerInv, NEW f \in Fingerprints, Exists(f)
    PROVE  LET have == EventsOf(issue[f].id)
           IN  /\ issue[f].count = SumFunction(all[f])
               /\ issue[f].last = Max({t \in Times : all[f][t] > 0})
               /\ SumFunction(have) = Min({Keep, SumFunction(all[f])})
               /\ \A t \in Times : have[t] <= all[f][t]
               /\ \A t \in Times : have[t] < all[f][t] => \A u \in 0..t-1 : have[u] = 0
  BY DEF IssueSummarises
<1> DEFINE have == EventsOf(issue[f].id)
           bag == all[f]
           S == {t \in Times : bag[t] > 0}
<1>1. have \in [Times -> Nat] /\ bag \in [Times -> Nat] /\ issue[f].last \in Times
  <2>1. TrackerTypeOK
    BY DEF TrackerInv
  <2>2. QED  BY <2>1, EventsAre DEF TrackerTypeOK, Rows
<1>2. Counted(issue[f], bag) /\ KeepsNewest(have, bag)
  BY DEF TrackerInv, Tells
<1> HIDE DEF have, bag
<1>3. SumFunction(bag) = From(bag, 0) /\ SumFunction(have) = From(have, 0) /\ From(bag, 0) \in Nat
  <2>1. 0 \in Times
    BY TrackerBounds DEF Times
  <2>2. QED  BY <1>1, <2>1, WholeIs, FromIs
<1>4. issue[f].count = SumFunction(bag)
  BY <1>2, <1>3 DEF Counted
<1>5. issue[f].last = Max(S)
  <2>1. issue[f].last \in S /\ S \subseteq Times /\ \A t \in S : t <= issue[f].last
    BY <1>1, <1>2 DEF Counted
  <2> HIDE DEF S
  <2>0. IsFiniteSet(Times)
    <3>1. 0 \in Nat
      OBVIOUS
    <3>2. QED  BY <3>1, TimesFinite
  <2>2. S \subseteq Int /\ S # {} /\ IsFiniteSet(Times) /\ issue[f].last \in Int
    <3>1. Times \subseteq Int /\ issue[f].last \in Times
      BY <1>1, TimesAre
    <3>2. S # {} /\ S \subseteq Times
      BY <2>1
    <3>3. QED  BY <2>0, <3>1, <3>2
  <2>3. IsFiniteSet(S)
    BY <2>1, <2>2, FS_Subset
  <2>4. Max(S) \in S /\ \A y \in S : Max(S) >= y
    BY <2>2, <2>3, MaxIs
  <2>5. Max(S) \in Int /\ Max(S) >= issue[f].last /\ Max(S) <= issue[f].last
    BY <2>1, <2>2, <2>4
  <2>6. QED  BY <2>2, <2>5
<1>6. SumFunction(have) = Min({Keep, SumFunction(bag)})
  <2>1. Keep \in Int /\ From(bag, 0) \in Int /\ Keep \in Nat
    BY <1>3, TrackerBounds
  <2>2. Min({Keep, From(bag, 0)}) = IF Keep <= From(bag, 0) THEN Keep ELSE From(bag, 0)
    BY <2>1, MinOfTwo
  <2>3. AtMostKeep(From(bag, 0)) = Min({Keep, From(bag, 0)})
    <3> DEFINE n == From(bag, 0)
    <3>1. n \in Nat /\ Min({Keep, n}) = IF Keep <= n THEN Keep ELSE n
      BY <1>3, <2>2
    <3> HIDE DEF n
    <3>2. AtMostKeep(n) = Min({Keep, n})
      BY <2>1, <3>1 DEF AtMostKeep
    <3>3. QED  BY <3>2 DEF n
  <2>4. QED  BY <1>2, <1>3, <2>3 DEF KeepsNewest
<1>7. QED  BY <1>2, <1>4, <1>5, <1>6 DEF KeepsNewest, have, bag

\* An issue is told apart from every other, and tells what was recorded of it:
\* how often, when last, and the newest occurrences, whoever had its id before
\* (record_error, delete_issues and the rowids SQLite hands out again).
THEOREM IssuesTellTheirOwn == TrackerSpec => []IssuesAreTheirOwn
<1>1. TrackerInv => IssuesAreTheirOwn
  BY TellingSummarises DEF TrackerInv, IssuesAreTheirOwn
<1>2. QED  BY <1>1, TrackerInvariance, PTL

\* The collector and people move the tracker by its own operations only.
THEOREM IssuesTellTheirOwnAgainstTheCollector == Spec => []IssuesAreTheirOwn
<1>1. QED  BY CollectorUsesTheTracker, IssuesTellTheirOwn, PTL

\* No line that docker has had is left out up to the cursor of a container, and
\* none is there twice, through overlapping reads, prunes, recreated containers
\* and restarts (newer_than, insert_logs, prune_logs).
THEOREM TheIndexMirrorsTheLog == Spec => []IndexMirrorsTheLog
<1>1. IndexInv /\ TrackerInv => IndexMirrorsTheLog
  <2>1. IndexInv => NothingSkipped /\ NoLineTwice /\ CollectorTypes
    BY IndexSkips DEF IndexInv
  <2>2. CollectorTypes /\ TrackerInv => TypeOK
    BY DEF CollectorTypes, TrackerInv, TypeOK
  <2>3. QED  BY <2>1, <2>2 DEF IndexMirrorsTheLog
<1>2. Spec => []TrackerInv
  BY CollectorUsesTheTracker, TrackerInvariance, PTL
<1>3. QED  BY <1>1, <1>2, IndexInvariance, PTL

-----------------------------------------------------------------------------
(* Errors are recorded once *)

\* The lines that say f.
Saying(f) == {l \in Lines : l.text = f}

LEMMA SayingFinite == \A f : Saying(f) \subseteq Lines /\ IsFiniteSet(Saying(f))
<1>1. IsFiniteSet(Times \X Texts)
  BY TimesFinite, CollectorBounds, FS_Product
<1> DEFINE h == [p \in Times \X Texts |-> [ts |-> p[1], text |-> p[2]]]
<1>2. h \in Surjection(Times \X Texts, Lines)
  <2>1. \A p \in Times \X Texts : h[p] \in Lines
    BY DEF Lines
  <2>2. ASSUME NEW l \in Lines PROVE \E p \in Times \X Texts : h[p] = l
    <3>1. l = [ts |-> l.ts, text |-> l.text] /\ l.ts \in Times /\ l.text \in Texts
      BY LinesHave
    <3>2. <<l.ts, l.text>> \in Times \X Texts /\ h[<<l.ts, l.text>>] = [ts |-> l.ts, text |-> l.text]
      BY <3>1
    <3>3. QED  BY <3>1, <3>2
  <2>3. h = [p \in Times \X Texts |-> h[p]]
    OBVIOUS
  <2> HIDE DEF h
  <2>4. QED  BY <2>1, <2>2, <2>3 DEF Surjection
<1> HIDE DEF h
<1>3. IsFiniteSet(Lines)
  BY <1>1, <1>2, FS_Surjection
<1>4. QED  BY <1>3, FS_Subset DEF Saying

\* How many lines of a list say f.
SayingIn(s, f) == Where(s, Saying(f), DOMAIN s)

LEMMA SayingMore ==
  ASSUME NEW s \in Seq(Lines), NEW x \in Lines, NEW f
  PROVE  /\ SayingIn(s, f) \in Nat
         /\ x.text = f => SayingIn(Append(s, x), f) = SayingIn(s, f) + 1
         /\ x.text # f => SayingIn(Append(s, x), f) = SayingIn(s, f)
<1> DEFINE v == Append(s, x)
           P == DOMAIN s
           Q == DOMAIN v
<1>1. (\A i \in 1 .. Len(s) : i \in P <=> i \in Q) /\ Len(s) + 1 \in Q
  OBVIOUS
<1>2. x \in Saying(f) <=> x.text = f
  BY DEF Saying
<1> HIDE DEF P, Q
<1>3. /\ Where(s, Saying(f), P) \in Nat
      /\ x \in Saying(f) => Where(v, Saying(f), Q) = Where(s, Saying(f), P) + 1
      /\ x \notin Saying(f) => Where(v, Saying(f), Q) = Where(s, Saying(f), P)
  BY <1>1, WhereOfMore
<1>4. QED  BY <1>2, <1>3 DEF SayingIn, P, Q

Plus(have, s) == [l \in Lines |-> have[l] + CountIn(s, l)]

\* The copies a list adds to a bag are its lines.
LEMMA SumOfCounts ==
  ASSUME NEW have \in Copies, NEW s \in Seq(Lines), NEW f
  PROVE  \A n \in Nat : SumFunctionOnSet(have, Saying(f)) = n
                          => SumFunctionOnSet(Plus(have, s), Saying(f)) = n + SayingIn(s, f)
<1> SUFFICES ASSUME NEW n \in Nat, SumFunctionOnSet(have, Saying(f)) = n
             PROVE  SumFunctionOnSet(Plus(have, s), Saying(f)) = n + SayingIn(s, f)
  OBVIOUS
<1> DEFINE L == Saying(f)
           Is(t) == SumFunctionOnSet(Plus(have, t), L) = n + SayingIn(t, f)
           T == {t \in Seq(Lines) : Is(t)}
<1>0. /\ L \subseteq Lines /\ IsFiniteSet(L)
      /\ \A t \in Seq(Lines) : \A l \in Lines : Plus(have, t)[l] = have[l] + CountIn(t, l) /\ Plus(have, t)[l] \in Nat
  <2>1. \A t \in Seq(Lines) : \A l \in Lines : have[l] \in Nat /\ CountIn(t, l) \in Nat
    BY CountNat DEF Copies
  <2>2. \A t \in Seq(Lines) : \A l \in Lines : have[l] + CountIn(t, l) \in Nat
    BY <2>1
  <2>3. QED  BY <2>2, SayingFinite DEF Plus
<1>1. <<>> \in T
  <2>1. \A l \in L : Plus(have, <<>>)[l] = have[l]
    <3>1. \A l \in L : CountIn(<<>>, l) = 0 /\ have[l] \in Nat /\ l \in Lines
      BY <1>0, CountOfNone DEF Copies
    <3>2. QED  BY <3>1 DEF Plus
  <2>2. SumFunctionOnSet(Plus(have, <<>>), L) = SumFunctionOnSet(have, L)
    BY <1>0, <2>1, SumAlike
  <2>3. SayingIn(<<>>, f) = 0
    BY WhereOfNone DEF SayingIn
  <2>4. QED  BY <2>2, <2>3
<1>2. ASSUME NEW t \in Seq(Lines), NEW x \in Lines, t \in T PROVE Append(t, x) \in T
  <2>0. Append(t, x) \in Seq(Lines) /\ Is(t)
    BY <1>2
  <2>1. /\ SayingIn(t, f) \in Nat
        /\ x.text = f => SayingIn(Append(t, x), f) = SayingIn(t, f) + 1
        /\ x.text # f => SayingIn(Append(t, x), f) = SayingIn(t, f)
    BY SayingMore
  <2>2. \A l : /\ x = l => CountIn(Append(t, x), l) = CountIn(t, l) + 1
               /\ x # l => CountIn(Append(t, x), l) = CountIn(t, l)
    BY CountOfMore
  <2>3. \A l \in Lines : Plus(have, t)[l] \in Nat /\ CountIn(t, l) \in Nat /\ have[l] \in Nat
    BY <1>0, CountNat DEF Copies
  <2>4. \A l \in Lines \ {x} : Plus(have, Append(t, x))[l] = Plus(have, t)[l]
    BY <2>2 DEF Plus
  <2>5. Plus(have, Append(t, x))[x] = Plus(have, t)[x] + 1
    <3>1. Plus(have, Append(t, x))[x] = have[x] + (CountIn(t, x) + 1) /\ Plus(have, t)[x] = have[x] + CountIn(t, x)
      BY <2>2 DEF Plus
    <3>2. PICK p \in Nat, q \in Nat : p = have[x] /\ q = CountIn(t, x)
      BY <2>3
    <3>3. Plus(have, Append(t, x))[x] = p + (q + 1) /\ Plus(have, t)[x] = p + q
      BY <3>1, <3>2
    <3>4. p + (q + 1) = (p + q) + 1
      OBVIOUS
    <3>5. QED  BY <3>3, <3>4
  <2>6. CASE x.text = f
    <3>1. x \in L
      BY <2>6 DEF Saying
    <3>2. n + SayingIn(t, f) \in Nat /\ SumFunctionOnSet(Plus(have, t), L) = n + SayingIn(t, f)
      BY <2>0, <2>1
    <3>3. SumFunctionOnSet(Plus(have, Append(t, x)), L) = (n + SayingIn(t, f)) + 1
      <4> DEFINE a == Plus(have, t)
                 b == Plus(have, Append(t, x))
                 m == n + SayingIn(t, f)
      <4>1. /\ \A y \in L : a[y] \in Nat
            /\ \A y \in L \ {x} : b[y] = a[y]
            /\ b[x] = a[x] + 1 /\ m \in Nat /\ SumFunctionOnSet(a, L) = m
        BY <1>0, <2>3, <2>4, <2>5, <3>2
      <4> HIDE DEF a, b, L, m
      <4>2. SumFunctionOnSet(b, L) = m + 1
        BY <1>0, <3>1, <4>1, SumMore
      <4>3. QED  BY <4>2 DEF a, b, L, m
    <3>4. Is(Append(t, x))
      BY <2>1, <2>6, <3>3
    <3>5. QED  BY <2>0, <3>4
  <2>7. CASE x.text # f
    <3>1. \A y \in L : Plus(have, Append(t, x))[y] = Plus(have, t)[y]
      BY <1>0, <2>4, <2>7 DEF Saying
    <3>2. SumFunctionOnSet(Plus(have, Append(t, x)), L) = SumFunctionOnSet(Plus(have, t), L)
      BY <1>0, <3>1, SumAlike
    <3>3. Is(Append(t, x))
      BY <2>0, <2>1, <2>7, <3>2
    <3>4. QED  BY <2>0, <3>3
  <2>8. QED  BY <2>6, <2>7
<1>3. Seq(Lines) \subseteq T
  <2> HIDE DEF T
  <2>1. QED  BY <1>1, <1>2, Grow
<1>4. QED  BY <1>3

\* Indexed, container by container.
Each(k, f) == [c \in Containers |-> SumFunctionOnSet(k[c], Saying(f))]

\* What makes the line at i the head of an error, by what heads there are before.
Opens(lines, h, i) ==
  /\ lines[i].text \in Fingerprints
  /\ \A j \in 1..i-1 :
       h[j] => \E k \in j+1..i : k - j > MaxFold \/ ~Continues(lines[j], lines[k])

LEMMA HeadsExist ==
  ASSUME NEW lines, NEW n \in Nat PROVE \E h : h = [i \in 1 .. n |-> Opens(lines, h, i)]
<1> DEFINE Good(m, h) == h = [i \in 1 .. m |-> Opens(lines, h, i)]
           T == {m \in Nat : \E h : Good(m, h)}
<1>1. 0 \in T
  <2> DEFINE g == [i \in 1 .. 0 |-> TRUE]
  <2>1. Good(0, g)
    OBVIOUS
  <2>2. QED  BY <2>1
<1>2. ASSUME NEW m \in Nat, NEW h, Good(m, h) PROVE \E g : Good(m + 1, g)
  <2> DEFINE g == [i \in 1 .. m + 1 |-> IF i \in 1 .. m THEN h[i] ELSE Opens(lines, h, i)]
  <2>1. \A i \in 1 .. m : g[i] = h[i] /\ i \in 1 .. m + 1
    OBVIOUS
  <2>2. \A i \in 1 .. m : h[i] = Opens(lines, h, i)
    BY <1>2
  <2>3. \A i \in 1 .. m + 1 : g[i] = Opens(lines, h, i)
    BY <2>2
  <2>4. \A i \in 1 .. m + 1 : \A j \in 1 .. i - 1 : j \in 1 .. m
    OBVIOUS
  <2>5. \A i \in 1 .. m + 1 : Opens(lines, g, i) = Opens(lines, h, i)
    <3> HIDE DEF g
    <3> SUFFICES ASSUME NEW i \in 1 .. m + 1 PROVE Opens(lines, g, i) = Opens(lines, h, i)
      OBVIOUS
    <3>1. \A j \in 1 .. i - 1 : g[j] = h[j]
      BY <2>1, <2>4
    <3>2. (\A j \in 1..i-1 : g[j] => \E k \in j+1..i : k - j > MaxFold \/ ~Continues(lines[j], lines[k]))
          <=> (\A j \in 1..i-1 : h[j] => \E k \in j+1..i : k - j > MaxFold \/ ~Continues(lines[j], lines[k]))
      BY <3>1, Zenon
    <3>3. QED  BY <3>2, Zenon DEF Opens
  <2>6. \A i \in 1 .. m + 1 : g[i] = Opens(lines, g, i)
    BY <2>3, <2>5
  <2>7. g = [i \in 1 .. m + 1 |-> g[i]]
    OBVIOUS
  <2> HIDE DEF g
  <2>8. Good(m + 1, g)
    BY <2>6, <2>7, Zenon
  <2>9. QED  BY <2>8
<1>3. Nat \subseteq T
  <2>1. ASSUME NEW m \in Nat, m \in T PROVE m + 1 \in T
    <3>1. PICK h : Good(m, h)
      BY <2>1
    <3>2. \E g : Good(m + 1, g)
      BY <1>2, <3>1
    <3> HIDE DEF Good
    <3>3. QED  BY <3>2
  <2> HIDE DEF T
  <2>2. QED  BY <1>1, <2>1, Climb
<1>4. QED  BY <1>3

\* Heads are lines of the list, and an error that opens its own record is one.
LEMMA HeadsAre ==
  ASSUME NEW lines \in Seq(Lines), NEW i \in DOMAIN lines, lines[i].text \in Fingerprints \cap Openers
  PROVE  i \in Heads(lines)
<1> DEFINE n == Len(lines)
           h == CHOOSE g : g = [j \in 1 .. n |-> Opens(lines, g, j)]
<1>1. n \in Nat /\ DOMAIN lines = 1 .. n
  OBVIOUS
<1>2. Heads(lines) = {j \in DOMAIN lines : h[j]}
  BY DEF Heads, Opens
<1> HIDE DEF n
<1>3. h = [j \in 1 .. n |-> Opens(lines, h, j)]
  BY <1>1, HeadsExist
<1> HIDE DEF h
<1>4. h[i] = Opens(lines, h, i)
  BY <1>1, <1>3, Zenon
<1>5. ASSUME NEW j \in 1 .. i - 1 PROVE \E k \in j + 1 .. i : ~Continues(lines[j], lines[k])
  <2>1. lines[i].text \notin Frames
    BY CollectorBounds
  <2>2. ~Continues(lines[j], lines[i])
    BY <2>1 DEF Continues
  <2>3. i \in j + 1 .. i
    BY <1>1
  <2>4. QED  BY <2>2, <2>3
<1>6. Opens(lines, h, i)
  BY <1>5, Zenon DEF Opens
<1>7. QED  BY <1>2, <1>4, <1>6

\* The errors of a batch that say f, of its lines that do.
LEMMA ErrorsSaying ==
  ASSUME NEW lines \in Seq(Lines), NEW f \in Fingerprints
  PROVE  /\ ErrorsIn(lines) \in Seq(Lines)
         /\ SayingIn(ErrorsIn(lines), f) \in Nat /\ SayingIn(lines, f) \in Nat
         /\ SayingIn(ErrorsIn(lines), f) <= SayingIn(lines, f)
         /\ f \in Openers => SayingIn(ErrorsIn(lines), f) = SayingIn(lines, f)
<1> DEFINE H == Heads(lines)
           L == Saying(f)
           P == {i \in DOMAIN lines : i \in H /\ lines[i] \in L}
           Q == {i \in DOMAIN lines : i \in DOMAIN lines /\ lines[i] \in L}
<1>1. ErrorsIn(lines) \in Seq(Lines)
  BY PickedIn DEF ErrorsIn
<1>2. SayingIn(ErrorsIn(lines), f) = Where(lines, L, H)
  <2> HIDE DEF H, L
  <2>1. Where(Picked(lines, H), L, DOMAIN Picked(lines, H)) = Where(lines, L, H)
    BY WherePicked
  <2>2. QED  BY <2>1 DEF SayingIn, ErrorsIn, H, L
<1>3. Where(lines, L, H) = Cardinality(P) /\ SayingIn(lines, f) = Cardinality(Q)
  BY DEF Where, SayingIn
<1>4. P \subseteq Q /\ Q \subseteq 1 .. Len(lines) /\ Len(lines) \in Nat
  OBVIOUS
<1>5. f \in Openers => P = Q
  <2> SUFFICES ASSUME f \in Openers, NEW i \in DOMAIN lines, lines[i] \in L PROVE i \in H
    OBVIOUS
  <2>1. lines[i].text = f
    BY DEF Saying
  <2>2. QED  BY <2>1, HeadsAre
<1> HIDE DEF P, Q, H, L
<1>6. IsFiniteSet(Q) /\ Cardinality(Q) \in Nat
  BY <1>4, PositionsFinite
<1>7. Cardinality(P) \in Nat /\ Cardinality(P) <= Cardinality(Q)
  BY <1>4, <1>6, FS_Subset, FS_CardinalityType
<1>8. QED  BY <1>1, <1>2, <1>3, <1>5, <1>6, <1>7

\* What is pending is what the batch says.
LEMMA PendingIs ==
  ASSUME batch \in Seq(Lines), NEW f PROVE Pending(f) = IF pc = "record" THEN SayingIn(batch, f) ELSE 0
<1>1. {i \in DOMAIN batch : batch[i].text = f} = {i \in DOMAIN batch : i \in DOMAIN batch /\ batch[i] \in Saying(f)}
  BY DEF Saying
<1>2. QED  BY <1>1 DEF Pending, SayingIn, Where

Once(f) ==
  /\ recorded[f] + Pending(f) <= Indexed(f)
  /\ f \in Openers => recorded[f] + Pending(f) = Indexed(f)

LEMMA IndexedNow ==
  \A f : /\ Indexed(f) = SumFunctionOnSet(Each(kept, f), Containers)
         /\ Indexed(f)' = SumFunctionOnSet(Each(kept', f), Containers)
BY DEF Indexed, Each, Saying, SumFunction

LEMMA OnceFrame ==
  ASSUME NEW f, Once(f), UNCHANGED <<kept, recorded>>, Pending(f)' = Pending(f) PROVE Once(f)'
<1>1. Indexed(f)' = Indexed(f)
  BY IndexedNow
<1>2. QED  BY <1>1 DEF Once

LEMMA IndexedNat ==
  ASSUME CollectorTypes, NEW f
  PROVE  /\ \A c \in Containers : SumFunctionOnSet(kept[c], Saying(f)) \in Nat
         /\ Indexed(f) \in Nat
<1>1. IsFiniteSet(Containers) /\ IsFiniteSet(Saying(f)) /\ Saying(f) \subseteq Lines
  BY CollectorBounds, SayingFinite
<1>2. ASSUME NEW c \in Containers PROVE SumFunctionOnSet(kept[c], Saying(f)) \in Nat
  <2>1. \A l \in Saying(f) : kept[c][l] \in Nat
    BY <1>1 DEF CollectorTypes, Copies
  <2>2. QED  BY <1>1, <2>1, SumNat
<1>3. \A c \in Containers : Each(kept, f)[c] \in Nat
  BY <1>2 DEF Each
<1>4. SumFunctionOnSet(Each(kept, f), Containers) \in Nat
  BY <1>1, <1>3, SumNat
<1>5. Indexed(f) = SumFunctionOnSet(Each(kept, f), Containers)
  BY IndexedNow
<1>6. QED  BY <1>2, <1>4, <1>5

\* The next error is recorded, and no longer pending.
LEMMA RecordOnce ==
  ASSUME CollectorTypes, NEW f \in Fingerprints, Once(f), Record PROVE Once(f)'
<1>1. /\ pc = "record" /\ pc' = "record" /\ batch # <<>> /\ batch' = Tail(batch) /\ kept' = kept
      /\ \E g \in Fingerprints, ts \in Times : /\ Head(batch) = [ts |-> ts, text |-> g]
                                               /\ recorded' = [recorded EXCEPT ![g] = @ + 1]
  BY DEF Record
<1>2. PICK g \in Fingerprints, ts \in Times :
        Head(batch) = [ts |-> ts, text |-> g] /\ recorded' = [recorded EXCEPT ![g] = @ + 1]
  BY <1>1
<1>3. batch \in Seq(Lines) /\ Tail(batch) \in Seq(Lines) /\ Head(batch) \in Lines
  BY <1>1 DEF CollectorTypes
<1>4. Pending(f) = SayingIn(batch, f) /\ Pending(f)' = SayingIn(Tail(batch), f)
  <2>1. Pending(f) = SayingIn(batch, f)
    BY <1>1, <1>3, PendingIs
  <2>2. {i \in DOMAIN batch' : batch'[i].text = f} = {i \in DOMAIN batch' : i \in DOMAIN batch' /\ batch'[i] \in Saying(f)}
    BY <1>1, <1>3 DEF Saying
  <2>3. Pending(f)' = SayingIn(Tail(batch), f)
    BY <1>1, <2>2 DEF Pending, SayingIn, Where
  <2>4. QED  BY <2>1, <2>3
<1>5. Head(batch) \in Saying(f) <=> g = f
  BY <1>2, <1>3 DEF Saying
<1>6. /\ SayingIn(Tail(batch), f) \in Nat
      /\ g = f => OneMore(SayingIn(Tail(batch), f), SayingIn(batch, f))
      /\ g # f => SayingIn(Tail(batch), f) = SayingIn(batch, f)
  BY <1>1, <1>3, <1>5, WhereOfTail DEF SayingIn
<1>7. recorded[f] \in Nat /\ recorded'[f] = IF g = f THEN recorded[f] + 1 ELSE recorded[f]
  BY <1>2 DEF CollectorTypes
<1>8. Indexed(f)' = Indexed(f) /\ Indexed(f) \in Nat
  BY <1>1, IndexedNat, IndexedNow
<1>9. CASE g = f
  <2>1. SayingIn(batch, f) = SayingIn(Tail(batch), f) + 1 /\ recorded'[f] = recorded[f] + 1
    BY <1>6, <1>7, <1>9 DEF OneMore
  <2>2. recorded'[f] + Pending(f)' = recorded[f] + Pending(f)
    <3>1. PICK a \in Nat, b \in Nat : a = SayingIn(Tail(batch), f) /\ b = recorded[f]
      BY <1>6, <1>7
    <3>2. recorded'[f] + Pending(f)' = (b + 1) + a /\ recorded[f] + Pending(f) = b + (a + 1)
      BY <1>4, <2>1, <3>1
    <3>3. (b + 1) + a = b + (a + 1)
      OBVIOUS
    <3>4. QED  BY <3>2, <3>3
  <2>3. QED  BY <1>8, <2>2 DEF Once
<1>10. CASE g # f
  <2>1. recorded'[f] + Pending(f)' = recorded[f] + Pending(f)
    BY <1>4, <1>6, <1>7, <1>10
  <2>2. QED  BY <1>8, <2>1 DEF Once
<1>11. QED  BY <1>9, <1>10

\* A batch is indexed whole, and its errors are pending.
LEMMA StoreOnce ==
  ASSUME CollectorTypes, IndexInv, NEW f \in Fingerprints, Once(f), Store, "insert" \notin mishaps' PROVE Once(f)'
<1>0. at \in Containers /\ batch \in Seq(Lines) /\ kept[at] \in Copies /\ IsFiniteSet(Containers)
  BY CollectorBounds DEF CollectorTypes
<1>1. PICK already \in {kept[at], Nothing}, inserts \in BOOLEAN :
        LET lines == Fresh(already)
        IN  /\ kept' = IF inserts
                       THEN [kept EXCEPT ![at] = [l \in Lines |-> @[l] + Counts(lines)[l]]]
                       ELSE kept
            /\ batch' = ErrorsIn(lines)
            /\ Mishap({g \in {"read", "insert"} :
                         IF g = "read" THEN already # kept[at] /\ since # None ELSE ~inserts})
  BY DEF Store
<1> DEFINE new == NewerThan(batch, since, already)
<1>2. inserts = TRUE /\ batch' = ErrorsIn(new)
  BY <1>1 DEF Mishap, Fresh
<1>3. pc = "store" /\ pc' = "record" /\ recorded' = recorded
  BY DEF Store
<1>4. kept' = [kept EXCEPT ![at] = Plus(kept[at], new)]
  <2>1. \A l \in Lines : Counts(new)[l] = CountIn(new, l)
    BY DEF Counts, CountIn
  <2>2. [l \in Lines |-> kept[at][l] + Counts(new)[l]] = Plus(kept[at], new)
    BY <2>1 DEF Plus
  <2>3. kept' = [kept EXCEPT ![at] = [l \in Lines |-> kept[at][l] + Counts(new)[l]]]
    BY <1>1, <1>2 DEF Fresh
  <2>4. QED  BY <2>2, <2>3
<1>5. new \in Seq(Lines)
  <2>1. CASE Lines = {}
    <3>1. Latest(kept[at]) = None
      BY <1>0, <2>1, LatestIs
    <3>2. since = None
      BY <1>3, <3>1 DEF IndexInv, Reading
    <3>3. QED  BY <1>0, <3>2 DEF NewerThan
  <2>2. CASE Lines # {}
    <3>1. PICK l : l \in Lines
      BY <2>2
    <3>2. already \in Copies /\ since \in Times \cup {None}
      BY <1>0, <1>1, NothingKept DEF CollectorTypes
    <3>3. QED  BY <1>0, <3>1, <3>2, NewerCounts
  <2>3. QED  BY <2>1, <2>2
<1> HIDE DEF new
<1>6. /\ batch' \in Seq(Lines)
      /\ SayingIn(batch', f) \in Nat /\ SayingIn(new, f) \in Nat /\ SayingIn(batch', f) <= SayingIn(new, f)
      /\ f \in Openers => SayingIn(batch', f) = SayingIn(new, f)
  BY <1>2, <1>5, ErrorsSaying
<1>7. Pending(f) = 0 /\ Pending(f)' = SayingIn(batch', f)
  <2>1. {i \in DOMAIN batch' : batch'[i].text = f} = {i \in DOMAIN batch' : i \in DOMAIN batch' /\ batch'[i] \in Saying(f)}
    BY <1>6 DEF Saying
  <2>2. Pending(f)' = SayingIn(batch', f)
    BY <1>3, <2>1 DEF Pending, SayingIn, Where
  <2>3. QED  BY <1>3, <2>2 DEF Pending
<1>8. Indexed(f)' = Indexed(f) + SayingIn(new, f)
  <2>1. Indexed(f) = SumFunctionOnSet(Each(kept, f), Containers) /\ Indexed(f) \in Nat
    BY IndexedNow, IndexedNat
  <2>2. Indexed(f)' = SumFunctionOnSet(Each(kept', f), Containers)
    BY IndexedNow
  <2>3. \A c \in Containers : Each(kept, f)[c] \in Nat
    BY IndexedNat DEF Each
  <2>4. \A c \in Containers \ {at} : Each(kept', f)[c] = Each(kept, f)[c]
    BY <1>0, <1>4 DEF Each, CollectorTypes
  <2>5. Each(kept', f)[at] = Each(kept, f)[at] + SayingIn(new, f)
    <3>1. kept'[at] = Plus(kept[at], new)
      BY <1>0, <1>4 DEF CollectorTypes
    <3>2. Each(kept', f)[at] = SumFunctionOnSet(Plus(kept[at], new), Saying(f))
      BY <1>0, <3>1 DEF Each
    <3>3. Each(kept, f)[at] = SumFunctionOnSet(kept[at], Saying(f)) /\ Each(kept, f)[at] \in Nat
      BY <1>0, <2>3 DEF Each
    <3>4. QED  BY <1>0, <1>5, <3>2, <3>3, SumOfCounts
  <2> DEFINE a == Each(kept, f)
             b == Each(kept', f)
             k == SayingIn(new, f)
  <2>6. /\ \A c \in Containers : a[c] \in Nat
        /\ \A c \in Containers \ {at} : b[c] = a[c]
        /\ b[at] = a[at] + k /\ k \in Nat
    BY <1>6, <2>3, <2>4, <2>5
  <2> HIDE DEF a, b, k
  <2>7. \A n \in Nat : SumFunctionOnSet(a, Containers) = n => SumFunctionOnSet(b, Containers) = n + k
    BY <1>0, <2>6, SumMore
  <2>8. QED  BY <2>1, <2>2, <2>7 DEF a, b, k
<1>9. recorded[f] \in Nat /\ Indexed(f) \in Nat
  BY IndexedNat DEF CollectorTypes
<1>10. PICK r \in Nat, n \in Nat, p \in Nat, q \in Nat :
         r = recorded[f] /\ n = Indexed(f) /\ p = SayingIn(batch', f) /\ q = SayingIn(new, f)
  BY <1>6, <1>9
<1>11. r <= n /\ (f \in Openers => r = n) /\ p <= q /\ (f \in Openers => p = q)
  BY <1>6, <1>7, <1>10 DEF Once
<1>12. r + p <= n + q /\ (f \in Openers => r + p = n + q)
  BY <1>11
<1>13. recorded'[f] + Pending(f)' = r + p /\ Indexed(f)' = n + q
  BY <1>3, <1>7, <1>8, <1>10
<1>14. QED  BY <1>12, <1>13 DEF Once

LEMMA OnceNext ==
  ASSUME IndexInv, EachErrorOnce, [Next]_vars PROVE EachErrorOnce'
<1> SUFFICES ASSUME mishaps' \subseteq {"stream", "recreate"}, NEW f \in Fingerprints PROVE Once(f)'
  BY DEF EachErrorOnce, Once
<1>0. CollectorTypes
  BY DEF IndexInv
\* A mishap is not forgotten.
<1>1. mishaps \subseteq mishaps'
  <2>1. CASE Collector
    BY <2>1 DEF Collector, Begin, Fetch, Skip, Store, Record, RecordFails, NextContainer, Prune, EndPass, Mishap
  <2>2. CASE Restart \/ Triage \/ Second \/ \E g \in Fingerprints : Report(g)
    BY <2>2 DEF Restart, Triage, Second, Report, Mishap, collectorVars
  <2>3. CASE \E c \in Containers : Recreate(c) \/ \E text \in Texts : Write(c, text)
    BY <2>3 DEF Recreate, Write, Mishap
  <2>4. CASE UNCHANGED vars
    BY <2>4 DEF vars, collectorVars
  <2>5. QED  BY <2>1, <2>2, <2>3, <2>4 DEF Next
<1>2. Once(f)
  BY <1>1 DEF EachErrorOnce, Once
<1>3. CASE Begin(Containers) \/ Skip \/ EndPass \/ \E c \in Containers : Fetch(c)
  <2>1. pc # "record" /\ pc' # "record" /\ UNCHANGED <<kept, recorded>>
    BY <1>3 DEF Begin, Skip, EndPass, Fetch
  <2>2. Pending(f)' = Pending(f)
    BY <2>1 DEF Pending
  <2>3. QED  BY <1>2, <2>1, <2>2, OnceFrame
<1>4. CASE NextContainer
  <2>1. pc = "record" /\ batch = <<>> /\ pc' # "record" /\ UNCHANGED <<kept, recorded>>
    BY <1>4 DEF NextContainer
  <2>2. {i \in DOMAIN batch : batch[i].text = f} = {}
    BY <2>1
  <2>3. Pending(f)' = Pending(f)
    BY <2>1, <2>2, FS_EmptySet DEF Pending
  <2>4. QED  BY <1>2, <2>1, <2>3, OnceFrame
<1>5. CASE Record
  BY <1>0, <1>2, <1>5, RecordOnce
<1>6. CASE Store
  <2>1. "insert" \notin mishaps'
    OBVIOUS
  <2>2. QED  BY <1>0, <1>2, <1>6, <2>1, StoreOnce
<1>7. ~RecordFails /\ ~Prune /\ ~Restart
  <2>1. RecordFails => "record" \in mishaps'
    BY DEF RecordFails, Mishap
  <2>2. Prune => "pruned" \in mishaps'
    BY DEF Prune
  <2>3. Restart => "restart" \in mishaps'
    BY DEF Restart, Mishap
  <2>4. QED  BY <2>1, <2>2, <2>3
<1>8. CASE Triage \/ Second \/ (\E g \in Fingerprints : Report(g)) \/ UNCHANGED vars
  <2>1. UNCHANGED <<kept, recorded, pc, batch>>
    BY <1>8 DEF Triage, Second, Report, vars, collectorVars
  <2>2. Pending(f)' = Pending(f)
    BY <2>1 DEF Pending
  <2>3. QED  BY <1>2, <2>1, <2>2, OnceFrame
<1>9. CASE \E c \in Containers : Recreate(c) \/ \E text \in Texts : Write(c, text)
  <2>1. UNCHANGED <<kept, recorded, pc, batch>>
    BY <1>9 DEF Recreate, Write
  <2>2. Pending(f)' = Pending(f)
    BY <2>1 DEF Pending
  <2>3. QED  BY <1>2, <2>1, <2>2, OnceFrame
<1>10. QED  BY <1>3, <1>4, <1>5, <1>6, <1>7, <1>8, <1>9 DEF Next, Collector

LEMMA OnceInit == Init => EachErrorOnce
<1> SUFFICES ASSUME Init, NEW f \in Fingerprints PROVE Once(f)
  BY DEF EachErrorOnce, Once
<1>1. recorded[f] = 0 /\ Pending(f) = 0
  BY DEF Init, Pending
<1>2. IsFiniteSet(Containers) /\ IsFiniteSet(Saying(f)) /\ Saying(f) \subseteq Lines
  BY CollectorBounds, SayingFinite
<1>3. \A c \in Containers : Each(kept, f)[c] = 0
  <2>1. \A l \in Saying(f) : Nothing[l] = 0
    BY <1>2 DEF Nothing
  <2>2. SumFunctionOnSet(Nothing, Saying(f)) = 0
    BY <1>2, <2>1, SumOfNone
  <2>3. QED  BY <2>2 DEF Init, Each
<1>4. Indexed(f) = 0
  BY <1>2, <1>3, SumOfNone, IndexedNow
<1>5. QED  BY <1>1, <1>4 DEF Once

\* While nothing failed and nothing was pruned, an error that opens a record of
\* its own is recorded once per line indexed, and any other at most once, though
\* index and tracker are written one after the other (collect, record_error).
THEOREM ErrorsAreCountedOnce == Spec => []EachErrorOnce
<1>1. IndexInv /\ EachErrorOnce /\ [Next]_vars => EachErrorOnce'
  BY OnceNext
<1>2. QED  BY <1>1, OnceInit, IndexInvariance, PTL DEF Spec

-----------------------------------------------------------------------------
(* Issues as they are read.  What is shown of an issue is its id and its      *)
(* origin (There): that row is still there, or the issue is gone; and no *)
(* two rows share either, since a new id is above every other.                *)

Sources == {"server", "browser"}
Issue == [id : Nat \ {0}, born : Nat \ {0}, state : IssueStates, source : Sources]
ListRecord == [pc : {"new", "listed", "totalled", "answered"}, filter : IssueStates \cup {"all"}, page : Seq(Issue),
           totals : [IssueStates -> Nat], blind : BOOLEAN, owed : SUBSET Nat, calm : BOOLEAN]
OpenedRecord == [pc : {"new", "found", "absent", "shown"}, id : Nat, shown : Nat, events : Nat]

\* An issue that was shown is still the one with its id, or is gone.
There(id, born) == born \in gone \/ \E s \in Range(rows) : s.id = id /\ s.born = born

\* No two rows have an id or an origin in common, and there are no more than came.
RowsAreApart ==
  /\ rows \in Seq(Issue)
  /\ \A a, b \in Range(rows) : a.id = b.id \/ a.born = b.born => a = b
  /\ births \in Nat /\ Len(rows) <= births /\ \A r \in Range(rows) : r.born <= births

\* What came from a browser is a row that says so, or is gone.
BrowsersAreHeard ==
  /\ heard \subseteq Nat
  /\ \A b \in heard \ gone : \E s \in Range(rows) : s.born = b /\ s.source = "browser"

ListHolds ==
  /\ list \in ListRecord
  /\ \A r \in Range(list.page) : There(r.id, r.born)
  /\ list.pc = "listed" /\ list.calm => list.page = Issues(list.filter)
  /\ BlindSpotIsSaid /\ TotalsAreOfTheList

OpenedHolds ==
  /\ opened \in OpenedRecord
  /\ opened.pc # "new" => There(opened.id, opened.shown)
  /\ FallsOnTheShown /\ ListedIsFound

ReadingInv == RowsAreApart /\ BrowsersAreHeard /\ ListHolds /\ OpenedHolds

LEMMA ReadingBegins == ReadingInit => ReadingInv
<1> SUFFICES ASSUME ReadingInit PROVE ReadingInv
  OBVIOUS
<1>1. <<>> \in Seq(Issue) /\ Range(<<>>) = {} /\ Len(<<>>) = 0
  BY RangeOfNone
<1>2. RowsAreApart /\ BrowsersAreHeard
  BY <1>1 DEF ReadingInit, RowsAreApart, BrowsersAreHeard
<1>3. ListHolds
  <2>1. NotAsked \in ListRecord
    BY <1>1 DEF NotAsked, ListRecord, IssueStates
  <2>2. QED  BY <1>1, <2>1 DEF ReadingInit, ListHolds, NotAsked, BlindSpotIsSaid, TotalsAreOfTheList
<1>4. OpenedHolds
  BY DEF ReadingInit, OpenedHolds, NotOpened, OpenedRecord, FallsOnTheShown, ListedIsFound
<1>5. QED  BY <1>2, <1>3, <1>4 DEF ReadingInv

\* The rows change and no row goes without being gone: what was shown stays there.
KeepsRows ==
  /\ gone \subseteq gone' /\ births' \in Nat /\ births <= births'
  /\ \A s \in Range(rows) :
       s.born \in gone' \/ \E t \in Range(rows') : t.id = s.id /\ t.born = s.born /\ t.source = s.source

Falling == \A hit \in acted' : hit[1] = hit[2] \/ hit[1] \in gone'

LEMMA RowsChange ==
  ASSUME ReadingInv, RowsAreApart', BrowsersAreHeard', KeepsRows, Stirs, Falling,
         opened' \in {opened, NotOpened}
  PROVE  ReadingInv'
<1>0. births \in Nat /\ ListLimit \in Nat
  BY ReadingAssumption DEF ReadingInv, RowsAreApart
<1>1. ASSUME NEW i, NEW b, There(i, b) PROVE There(i, b)'
  <2>1. CASE b \in gone
    BY <2>1 DEF There, KeepsRows
  <2>2. CASE \E s \in Range(rows) : s.id = i /\ s.born = b
    <3>1. PICK s \in Range(rows) : s.id = i /\ s.born = b
      BY <2>2
    <3>2. QED  BY <3>1 DEF There, KeepsRows
  <2>3. QED  BY <1>1, <2>1, <2>2 DEF There
<1>2. ListHolds'
  <2>1. /\ list' \in ListRecord /\ list'.page = list.page /\ list'.pc = list.pc /\ list'.filter = list.filter
        /\ (list'.blind <=> list.blind) /\ list'.owed = list.owed
        /\ list.pc \in {"listed", "totalled"} => ~list'.calm
    BY DEF Stirs, ReadingInv, ListHolds, ListRecord
  <2>2. \A r \in Range(list'.page) : There(r.id, r.born)'
    BY <1>1, <2>1 DEF ReadingInv, ListHolds
  <2>3. BlindSpotIsSaid'
    BY <2>1 DEF ReadingInv, ListHolds, BlindSpotIsSaid
  <2>4. TotalsAreOfTheList'
    BY <2>1 DEF TotalsAreOfTheList
  <2>5. QED  BY <2>1, <2>2, <2>3, <2>4 DEF ListHolds
<1>3. OpenedHolds'
  <2>1. CASE opened' = opened
    <3>1. \A i, b : opened.pc # "new" /\ i = opened.id /\ b = opened.shown => There(i, b)'
      BY <1>1 DEF ReadingInv, OpenedHolds
    <3>2. FallsOnTheShown'
      BY <2>1 DEF ReadingInv, OpenedHolds, FallsOnTheShown, Falling, KeepsRows
    <3>3. ListedIsFound'
      BY <1>0, <2>1 DEF ReadingInv, OpenedHolds, ListedIsFound, KeepsRows
    <3>4. (opened.pc # "new" => There(opened.id, opened.shown))'
      BY <2>1, <3>1 DEF There
    <3>5. QED  BY <2>1, <3>2, <3>3, <3>4 DEF ReadingInv, OpenedHolds
  <2>2. CASE opened' = NotOpened
    BY <2>2 DEF OpenedHolds, NotOpened, OpenedRecord, FallsOnTheShown, ListedIsFound, Falling
  <2>3. QED  BY <2>1, <2>2
<1>4. QED  BY <1>2, <1>3 DEF ReadingInv

\* Rows as they are marked by a decision.
Decided(s, i, state) == IF s.id = i THEN [s EXCEPT !.state = state] ELSE s

LEMMA DecideStays ==
  ASSUME ReadingInv, NEW r \in Range(list.page), NEW state \in IssueStates, Decide(r, state) PROVE ReadingInv'
<1>0. rows \in Seq(Issue) /\ births \in Nat /\ births' = births /\ gone' = gone /\ heard' = heard
  BY DEF Decide, ReadingInv, RowsAreApart
<1>1. /\ rows' = [i \in 1 .. Len(rows) |-> Decided(rows[i], r.id, state)]
      /\ DOMAIN rows = 1 .. Len(rows) /\ Len(rows) \in Nat
  BY <1>0 DEF Decide, Decided
<1>2. \A s \in Issue : LET t == Decided(s, r.id, state)
                       IN t \in Issue /\ t.id = s.id /\ t.born = s.born /\ t.source = s.source
  BY DEF Decided, Issue
<1>3. \A i \in 1 .. Len(rows) : rows[i] \in Issue /\ rows[i] \in Range(rows)
  BY <1>0, <1>1 DEF Range
<1>4. rows' \in Seq(Issue) /\ Len(rows') = Len(rows) /\ DOMAIN rows' = 1 .. Len(rows)
  BY <1>1, <1>2, <1>3
<1>5. ASSUME NEW t \in Range(rows')
      PROVE  \E s \in Range(rows) : s \in Issue /\ t = Decided(s, r.id, state)
  <2>1. PICK i \in 1 .. Len(rows) : t = rows'[i]
    BY <1>4, <1>5 DEF Range
  <2>2. QED  BY <1>1, <1>3, <2>1
<1>6. ASSUME NEW s \in Range(rows) PROVE Decided(s, r.id, state) \in Range(rows') /\ s \in Issue
  <2>1. PICK i \in 1 .. Len(rows) : s = rows[i]
    BY <1>1, <1>6 DEF Range
  <2>2. QED  BY <1>1, <1>3, <1>4, <2>1 DEF Range
<1>7. RowsAreApart'
  <2>1. \A a, b \in Range(rows') : a.id = b.id \/ a.born = b.born => a = b
    <3> SUFFICES ASSUME NEW a \in Range(rows'), NEW b \in Range(rows'), a.id = b.id \/ a.born = b.born PROVE a = b
      OBVIOUS
    <3>1. PICK s \in Range(rows), t \in Range(rows) :
            s \in Issue /\ t \in Issue /\ a = Decided(s, r.id, state) /\ b = Decided(t, r.id, state)
      BY <1>5
    <3>2. s.id = t.id \/ s.born = t.born
      BY <1>2, <3>1
    <3>3. s = t
      BY <3>2 DEF ReadingInv, RowsAreApart
    <3>4. QED  BY <3>1, <3>3
  <2>2. \A t \in Range(rows') : t.born <= births
    <3> SUFFICES ASSUME NEW t \in Range(rows') PROVE t.born <= births
      OBVIOUS
    <3>1. PICK s \in Range(rows) : s \in Issue /\ t = Decided(s, r.id, state)
      BY <1>5
    <3>2. t.born = s.born
      BY <1>2, <3>1
    <3>3. QED  BY <3>2 DEF ReadingInv, RowsAreApart
  <2>3. QED  BY <1>0, <1>4, <2>1, <2>2 DEF ReadingInv, RowsAreApart
<1>8. KeepsRows
  BY <1>0, <1>2, <1>6 DEF KeepsRows
<1>9. BrowsersAreHeard'
  <2>1. ASSUME NEW b \in heard \ gone PROVE \E t \in Range(rows') : t.born = b /\ t.source = "browser"
    <3>1. PICK s \in Range(rows) : s.born = b /\ s.source = "browser"
      BY DEF ReadingInv, BrowsersAreHeard
    <3>2. QED  BY <1>2, <1>6, <3>1
  <2>2. QED  BY <1>0, <2>1 DEF ReadingInv, BrowsersAreHeard
<1>10. Falling
  <2> SUFFICES ASSUME NEW hit \in acted' PROVE hit[1] = hit[2] \/ hit[1] \in gone
    BY <1>0 DEF Falling
  <2>1. PICK s \in Range(rows) : s.id = r.id /\ hit = <<r.born, s.born>>
    BY DEF Decide, Falls
  <2>2. There(r.id, r.born)
    BY DEF ReadingInv, ListHolds
  <2>3. CASE r.born \in gone
    BY <2>1, <2>3
  <2>4. CASE \E t \in Range(rows) : t.id = r.id /\ t.born = r.born
    <3>1. PICK t \in Range(rows) : t.id = r.id /\ t.born = r.born
      BY <2>4
    <3>2. t = s
      BY <2>1, <3>1 DEF ReadingInv, RowsAreApart
    <3>3. QED  BY <2>1, <3>1, <3>2
  <2>5. QED  BY <2>2, <2>3, <2>4 DEF There
<1>11. QED  BY <1>7, <1>8, <1>9, <1>10, RowsChange DEF Decide

\* Rows are left out, and what is left out is gone.
LEMMA RowsLeft ==
  ASSUME ReadingInv, NEW S, rows' = Only(rows, S), gone \subseteq gone', births' = births, heard' = heard,
         \A s \in Range(rows) \ S : s.born \in gone'
  PROVE  RowsAreApart' /\ KeepsRows /\ BrowsersAreHeard'
<1>0. rows \in Seq(Issue) /\ births \in Nat /\ Len(rows) \in Nat
  BY DEF ReadingInv, RowsAreApart
<1>1. rows' \in Seq(Issue)
  <2>1. rows' \in Seq(Issue \cap S)
    BY <1>0, OnlyPasses
  <2>2. \A s : s \in Seq(Issue \cap S) => s \in Seq(Issue)
    OBVIOUS
  <2>3. QED  BY <2>1, <2>2
<1>2. Range(rows') = Range(rows) \cap S
  BY <1>0, RangeOfOnly
<1>3. Len(rows') \in Nat /\ Len(rows') <= Len(rows)
  BY <1>0, OnlyIsShorter DEF Shorter
<1>4. RowsAreApart'
  BY <1>0, <1>1, <1>2, <1>3 DEF ReadingInv, RowsAreApart
<1>5. KeepsRows
  BY <1>0, <1>2 DEF KeepsRows
<1>6. BrowsersAreHeard'
  <2>1. ASSUME NEW b \in heard \ gone' PROVE \E t \in Range(rows') : t.born = b /\ t.source = "browser"
    <3>1. PICK s \in Range(rows) : s.born = b /\ s.source = "browser"
      BY DEF ReadingInv, BrowsersAreHeard
    <3>2. QED  BY <1>2, <3>1
  <2>2. QED  BY <2>1 DEF ReadingInv, BrowsersAreHeard
<1>7. QED  BY <1>4, <1>5, <1>6

LEMMA DeleteStays ==
  ASSUME ReadingInv, NEW r \in Range(list.page), Delete(r) PROVE ReadingInv'
<1> DEFINE S == {s \in Range(rows) : s.id # r.id}
<1>1. /\ rows' = Only(rows, S) /\ births' = births /\ heard' = heard
      /\ gone' = gone \cup {s.born : s \in {t \in Range(rows) : t.id = r.id}}
  BY DEF Delete
<1>2. \A s \in Range(rows) \ S : s.born \in gone'
  BY <1>1
<1>3. gone \subseteq gone'
  BY <1>1
<1> HIDE DEF S
<1>4. RowsAreApart' /\ KeepsRows /\ BrowsersAreHeard'
  BY <1>1, <1>2, <1>3, RowsLeft
<1>5. Falling
  <2> SUFFICES ASSUME NEW hit \in acted' PROVE hit[1] = hit[2] \/ hit[1] \in gone'
    BY DEF Falling
  <2>1. PICK s \in Range(rows) : s.id = r.id /\ hit = <<r.born, s.born>>
    BY DEF Delete, Falls
  <2>2. There(r.id, r.born)
    BY DEF ReadingInv, ListHolds
  <2>3. CASE r.born \in gone
    BY <1>3, <2>1, <2>3
  <2>4. CASE \E t \in Range(rows) : t.id = r.id /\ t.born = r.born
    <3>1. PICK t \in Range(rows) : t.id = r.id /\ t.born = r.born
      BY <2>4
    <3>2. QED  BY <1>1, <2>1, <3>1
  <2>5. QED  BY <2>2, <2>3, <2>4 DEF There
<1>6. QED  BY <1>4, <1>5, RowsChange DEF Delete

LEMMA ElsewhereStays == ASSUME ReadingInv, NEW r \in Range(rows), Elsewhere(r) PROVE ReadingInv'
<1> DEFINE S == Range(rows) \ {r}
<1>1. rows' = Only(rows, S) /\ births' = births /\ heard' = heard /\ gone' = gone \cup {r.born}
  BY DEF Elsewhere
<1>2. (\A s \in Range(rows) \ S : s.born \in gone') /\ gone \subseteq gone'
  BY <1>1
<1> HIDE DEF S
<1>3. RowsAreApart' /\ KeepsRows /\ BrowsersAreHeard'
  BY <1>1, <1>2, RowsLeft
<1>4. Falling
  BY <1>2 DEF Elsewhere, Falling, ReadingInv, OpenedHolds, FallsOnTheShown
<1>5. QED  BY <1>3, <1>4, RowsChange DEF Elsewhere

\* A new issue's id is above every other.
LEMMA FreshIdIs ==
  ASSUME rows \in Seq(Issue) PROVE FreshId \in Nat \ {0} /\ \A s \in Range(rows) : s.id < FreshId
<1> DEFINE ids == {s.id : s \in Range(rows)}
           U == {0} \cup ids
<1>1. Range(rows) \subseteq Issue /\ IsFiniteSet(Range(rows))
  BY RangeIn, RangeFinite
<1>2. IsFiniteSet(ids)
  <2> DEFINE f == [s \in Range(rows) |-> s.id]
  <2>1. f \in Surjection(Range(rows), ids)
    BY DEF Surjection
  <2>2. QED  BY <1>1, <2>1, FS_Surjection
<1>3. IsFiniteSet(U) /\ U # {}
  <2>1. IsFiniteSet(ids \cup {0}) /\ U = ids \cup {0}
    BY <1>2, FS_AddElement
  <2>2. QED  BY <2>1
<1>4. U \subseteq Int /\ 0 \in U
  BY <1>1 DEF Issue
<1> HIDE DEF U
<1>5. Max(U) \in U /\ \A y \in U : Max(U) >= y
  BY <1>3, <1>4, MaxIs
<1>6. Max(U) \in Int /\ Max(U) >= 0
  BY <1>4, <1>5
<1>7. FreshId = 1 + Max(U)
  BY DEF FreshId, U
<1>8. \A s \in Range(rows) : s.id \in U
  BY DEF U
<1>9. PICK m \in Nat : m = Max(U)
  BY <1>6
<1>10. \A s \in Range(rows) : s.id \in Nat /\ s.id <= m
  BY <1>1, <1>5, <1>8, <1>9 DEF Issue
<1>11. QED  BY <1>7, <1>9, <1>10

LEMMA ArrivesStays == ASSUME ReadingInv, NEW source \in Sources, Arrives(source) PROVE ReadingInv'
<1> DEFINE x == [id |-> FreshId, born |-> births + 1, state |-> "open", source |-> source]
<1>0. rows \in Seq(Issue) /\ births \in Nat /\ Len(rows) \in Nat /\ Range(rows) \subseteq Issue
  BY RangeIn DEF ReadingInv, RowsAreApart
<1>1. rows' = <<x>> \o rows /\ births' = births + 1 /\ gone' = gone
      /\ heard' = IF source = "browser" THEN heard \cup {births + 1} ELSE heard
  BY DEF Arrives
<1>2. x \in Issue /\ x.id = FreshId /\ x.born = births + 1 /\ x.source = source
  BY <1>0, FreshIdIs DEF Issue, IssueStates
<1>3. \A s \in Range(rows) : s.id # x.id /\ s.born # x.born /\ s.born <= births
  <2>1. \A s \in Range(rows) : s.id < FreshId /\ s.id \in Nat /\ FreshId \in Nat
    BY <1>0, FreshIdIs DEF Issue
  <2>2. \A s \in Range(rows) : s.born <= births /\ s.born \in Nat
    BY <1>0 DEF ReadingInv, RowsAreApart, Issue
  <2>3. QED  BY <1>0, <1>2, <2>1, <2>2
<1> HIDE DEF x
<1>4. rows' \in Seq(Issue) /\ Len(rows') = Len(rows) + 1 /\ Range(rows') = Range(rows) \cup {x}
  BY <1>0, <1>1, <1>2, RangeOfFront
<1>5. RowsAreApart'
  <2>1. \A a, b \in Range(rows') : a.id = b.id \/ a.born = b.born => a = b
    BY <1>3, <1>4 DEF ReadingInv, RowsAreApart
  <2>2. \A s \in Range(rows) : s.born \in Nat
    BY <1>0 DEF Issue
  <2>3. births' \in Nat /\ Len(rows') <= births' /\ \A s \in Range(rows') : s.born <= births'
    BY <1>0, <1>1, <1>2, <1>3, <1>4, <2>2 DEF ReadingInv, RowsAreApart
  <2>4. QED  BY <1>4, <2>1, <2>3 DEF RowsAreApart
<1>6. KeepsRows
  BY <1>0, <1>1, <1>4 DEF KeepsRows
<1>7. BrowsersAreHeard'
  <2>1. births + 1 \in Nat
    BY <1>0
  <2>2. QED  BY <1>1, <1>2, <1>4, <2>1 DEF ReadingInv, BrowsersAreHeard
<1>8. Falling
  BY <1>1 DEF Arrives, Falling, ReadingInv, OpenedHolds, FallsOnTheShown
<1>9. QED  BY <1>5, <1>6, <1>7, <1>8, RowsChange DEF Arrives

LEMMA RecursStays == ASSUME ReadingInv, NEW r \in Range(rows), Recurs(r) PROVE ReadingInv'
<1> DEFINE x == [r EXCEPT !.state = IF @ = "ignored" THEN @ ELSE "open"]
           S == Range(rows) \ {r}
           rest == Only(rows, S)
<1>0. rows \in Seq(Issue) /\ births \in Nat /\ Len(rows) \in Nat /\ Range(rows) \subseteq Issue
  BY RangeIn DEF ReadingInv, RowsAreApart
<1>1. rows' = <<x>> \o rest /\ births' = births /\ gone' = gone /\ heard' = heard
  BY DEF Recurs
<1>2. x \in Issue /\ x.id = r.id /\ x.born = r.born /\ x.source = r.source
  BY <1>0 DEF Issue, IssueStates
<1>3. rest \in Seq(Issue) /\ Range(rest) = Range(rows) \cap S
  <2>1. rest \in Seq(Issue \cap S)
    BY <1>0, OnlyPasses
  <2>2. \A s : s \in Seq(Issue \cap S) => s \in Seq(Issue)
    OBVIOUS
  <2>3. Range(rest) = Range(rows) \cap S
    BY <1>0, RangeOfOnly
  <2>4. QED  BY <2>1, <2>2, <2>3
<1>4. Range(rest) = Range(rows) \ {r}
  BY <1>3
<1>5. Len(rest) \in Nat /\ Len(rest) < Len(rows)
  BY <1>0, OnlyIsShorter DEF Shorter
<1> HIDE DEF x, rest
<1>6. rows' \in Seq(Issue) /\ Len(rows') = Len(rest) + 1 /\ Range(rows') = Range(rest) \cup {x}
  BY <1>1, <1>2, <1>3, RangeOfFront
<1>7. RowsAreApart'
  <2>1. \A a, b \in Range(rows') : a.id = b.id \/ a.born = b.born => a = b
    BY <1>2, <1>4, <1>6 DEF ReadingInv, RowsAreApart
  <2>2. Len(rows') <= births
    BY <1>0, <1>5, <1>6 DEF ReadingInv, RowsAreApart
  <2>3. \A s \in Range(rows') : s.born <= births
    BY <1>2, <1>4, <1>6 DEF ReadingInv, RowsAreApart
  <2>4. QED  BY <1>0, <1>1, <1>6, <2>1, <2>2, <2>3 DEF RowsAreApart
<1>8. KeepsRows
  <2>1. ASSUME NEW s \in Range(rows)
        PROVE  \E t \in Range(rows') : t.id = s.id /\ t.born = s.born /\ t.source = s.source
    <3>1. CASE s = r
      BY <1>2, <1>6, <3>1
    <3>2. CASE s # r
      BY <1>4, <1>6, <3>2
    <3>3. QED  BY <3>1, <3>2
  <2>2. QED  BY <1>0, <1>1, <2>1 DEF KeepsRows
<1>9. BrowsersAreHeard'
  BY <1>1, <1>2, <1>4, <1>6 DEF ReadingInv, BrowsersAreHeard
<1>10. Falling
  BY <1>1 DEF Recurs, Falling, ReadingInv, OpenedHolds, FallsOnTheShown
<1>11. QED  BY <1>7, <1>8, <1>9, <1>10, RowsChange DEF Recurs

\* What a list has of the issues that pass its filter.
Passing(filter) == {r \in Range(rows) : filter \in {"all", r.state}}

LEMMA IssuesAre ==
  ASSUME rows \in Seq(Issue), NEW filter
  PROVE  /\ Issues(filter) \in Seq(Issue) /\ Range(Issues(filter)) \subseteq Range(rows)
         /\ Len(Issues(filter)) = Min({Len(Only(rows, Passing(filter))), ListLimit})
         /\ Len(rows) <= ListLimit => Issues("all") = rows
<1>1. ASSUME NEW f
      PROVE  /\ Issues(f) \in Seq(Issue) /\ Range(Issues(f)) \subseteq Range(rows)
             /\ Len(Issues(f)) = Min({Len(Only(rows, Passing(f))), ListLimit})
             /\ Len(Only(rows, Passing(f))) <= ListLimit => Issues(f) = Only(rows, Passing(f))
  <2> DEFINE w == Only(rows, Passing(f))
             m == Min({Len(w), ListLimit})
  <2>1. w \in Seq(Issue) /\ Range(w) \subseteq Range(rows)
    <3>1. w \in Seq(Issue \cap Passing(f))
      BY OnlyPasses
    <3>2. \A s, S : s \in Seq(Issue \cap S) => s \in Seq(Issue)
      OBVIOUS
    <3>3. Range(w) = Range(rows) \cap Passing(f)
      BY RangeOfOnly
    <3>4. QED  BY <3>1, <3>2, <3>3
  <2>2. Issues(f) = SubSeq(w, 1, m)
    BY DEF Issues, Passing
  <2> HIDE DEF w
  <2>3. Len(w) \in Nat /\ ListLimit \in Nat /\ Len(w) \in Int /\ ListLimit \in Int
    BY <2>1, ReadingAssumption
  <2>4. m = IF Len(w) <= ListLimit THEN Len(w) ELSE ListLimit
    BY <2>3, MinOfTwo
  <2>5. m \in Nat /\ m <= Len(w)
    BY <2>3, <2>4
  <2> HIDE DEF m
  <2>6. /\ SubSeq(w, 1, m) \in Seq(Issue) /\ Len(SubSeq(w, 1, m)) = m
        /\ \A i \in 1 .. m : SubSeq(w, 1, m)[i] = w[i] /\ i \in 1 .. Len(w)
    BY <2>1, <2>3, <2>5
  <2>7. Range(SubSeq(w, 1, m)) \subseteq Range(w)
    BY <2>1, <2>3, <2>5, <2>6 DEF Range
  <2>8. m = Len(w) => SubSeq(w, 1, m) = w
    BY <2>1
  <2>9. QED  BY <2>1, <2>2, <2>4, <2>6, <2>7, <2>8 DEF w, m
<1>2. Only(rows, Passing("all")) = rows
  <2>1. Passing("all") = Range(rows)
    BY DEF Passing
  <2>2. rows \in Seq(Range(rows))
    BY DEF Range
  <2>3. QED  BY <2>1, <2>2, OnlyOfAll
<1>3. QED  BY <1>1, <1>2

\* The counts of several states add up to the rows that are in one of them.
LEMMA TotalsAddUp ==
  ASSUME rows \in Seq(Issue), NEW T \in SUBSET IssueStates
  PROVE  SumFunctionOnSet(Totals, T) = Cardinality({i \in DOMAIN rows : rows[i].state \in T})
<1> DEFINE In(S) == {i \in DOMAIN rows : rows[i].state \in S}
           F == {S \in SUBSET IssueStates : SumFunctionOnSet(Totals, S) = Cardinality(In(S))}
<1>0. /\ \A S : IsFiniteSet(In(S)) /\ Cardinality(In(S)) \in Nat
      /\ \A s \in IssueStates : Totals[s] = Cardinality(In({s})) /\ Totals[s] \in Nat
  <2>1. ASSUME NEW S PROVE IsFiniteSet(In(S)) /\ Cardinality(In(S)) \in Nat
    <3>1. In(S) \subseteq 1 .. Len(rows) /\ Len(rows) \in Nat
      OBVIOUS
    <3>2. QED  BY <3>1, PositionsFinite
  <2>2. ASSUME NEW s \in IssueStates PROVE Totals[s] = Cardinality(In({s}))
    <3>1. In({s}) = {i \in DOMAIN rows : rows[i].state = s}
      OBVIOUS
    <3>2. QED  BY <3>1 DEF Totals
  <2>3. QED  BY <2>1, <2>2
<1>1. {} \in F
  <2>1. In({}) = {}
    OBVIOUS
  <2>2. QED  BY <2>1, SumNone, FS_EmptySet
<1>2. ASSUME NEW S \in SUBSET IssueStates, IsFiniteSet(S), S \in F, NEW x \in IssueStates \ S PROVE S \cup {x} \in F
  <2> DEFINE U == S \cup {x}
  <2>1. IsFiniteSet(U) /\ U \subseteq IssueStates /\ x \in U /\ U \ {x} = S
    BY <1>2, FS_AddElement
  <2>2. In(U) = In({x}) \cup In(S) /\ In({x}) \cap In(S) = {}
    OBVIOUS
  <2> HIDE DEF U
  <2>3. Cardinality(In(U)) = Cardinality(In({x})) + Cardinality(In(S))
    <3> DEFINE P == In({x})
               Q == In(S)
    <3>1. /\ IsFiniteSet(P) /\ IsFiniteSet(Q) /\ Cardinality(P) \in Nat /\ Cardinality(Q) \in Nat
          /\ In(U) = P \cup Q /\ P \cap Q = {}
      BY <1>0, <2>2
    <3> HIDE DEF P, Q
    <3>2. Cardinality(P \cup Q) = Cardinality(P) + Cardinality(Q) - Cardinality(P \cap Q)
      BY <3>1, FS_Union
    <3>3. Cardinality(P \cap Q) = 0
      BY <3>1, FS_EmptySet
    <3>4. Cardinality(P \cup Q) = Cardinality(P) + Cardinality(Q)
      BY <3>1, <3>2, <3>3
    <3>5. QED  BY <3>1, <3>4 DEF P, Q
  <2>4. \A y \in U : Totals[y] \in Nat
    BY <1>0, <2>1
  <2>5. SumFunctionOnSet(Totals, U) = Totals[x] + SumFunctionOnSet(Totals, S)
    BY <2>1, <2>4, SumSplit
  <2>6. SumFunctionOnSet(Totals, U) = Cardinality(In(U))
    BY <1>0, <1>2, <2>3, <2>5
  <2>7. QED  BY <2>1, <2>6 DEF U
<1>3. IsFiniteSet(IssueStates)
  <2>1. IsFiniteSet({} \cup {"open"})
    BY FS_EmptySet, FS_AddElement
  <2>2. IsFiniteSet(({} \cup {"open"}) \cup {"resolved"})
    BY <2>1, FS_AddElement
  <2>3. IsFiniteSet((({} \cup {"open"}) \cup {"resolved"}) \cup {"ignored"})
    BY <2>2, FS_AddElement
  <2>4. IssueStates = (({} \cup {"open"}) \cup {"resolved"}) \cup {"ignored"}
    BY DEF IssueStates
  <2>5. QED  BY <2>3, <2>4
<1>4. IsFiniteSet(T)
  BY <1>3, FS_Subset
<1>5. T \in F
  <2> HIDE DEF F
  <2>1. \A S \in SUBSET IssueStates : IsFiniteSet(S) /\ S \in F => \A x \in IssueStates \ S : S \cup {x} \in F
    BY <1>2
  <2>2. QED  BY <1>1, <1>4, <2>1, Collect
<1>6. QED  BY <1>5

LEMMA TotalStays == ASSUME ReadingInv, Total PROVE ReadingInv'
<1>0. rows \in Seq(Issue) /\ Len(rows) \in Nat /\ list \in ListRecord
  BY DEF ReadingInv, RowsAreApart, ListHolds
<1>1. /\ list.pc = "listed" /\ UNCHANGED <<rows, opened, acted, gone, births, heard>>
      /\ list' = [list EXCEPT !.pc = "totalled", !.totals = Totals]
  BY DEF Total
<1>2. Totals \in [IssueStates -> Nat]
  <2>1. ASSUME NEW s PROVE Cardinality({i \in DOMAIN rows : rows[i].state = s}) \in Nat
    <3>1. {i \in DOMAIN rows : rows[i].state = s} \subseteq 1 .. Len(rows)
      BY <1>0
    <3>2. QED  BY <1>0, <3>1, PositionsFinite
  <2>2. QED  BY <2>1 DEF Totals
<1>3. /\ list' \in ListRecord /\ list'.pc = "totalled" /\ list'.page = list.page /\ list'.filter = list.filter
      /\ (list'.calm <=> list.calm) /\ list'.totals = Totals
  BY <1>0, <1>1, <1>2 DEF ListRecord
<1>4. RowsAreApart' /\ BrowsersAreHeard' /\ OpenedHolds'
  BY <1>1 DEF ReadingInv, RowsAreApart, BrowsersAreHeard, OpenedHolds, There, FallsOnTheShown, ListedIsFound
<1>5. ASSUME list.calm
      PROVE  LET states == IF list.filter = "all" THEN IssueStates ELSE {list.filter}
             IN  Len(list.page) = Min({ListLimit, SumFunctionOnSet(Totals, states)})
  <2> DEFINE states == IF list.filter = "all" THEN IssueStates ELSE {list.filter}
             w == Only(rows, Passing(list.filter))
  <2>1. list.page = Issues(list.filter) /\ list.filter \in IssueStates \cup {"all"}
    BY <1>0, <1>1, <1>5 DEF ReadingInv, ListHolds, ListRecord
  <2>2. Len(list.page) = Min({Len(w), ListLimit})
    BY <1>0, <2>1, IssuesAre
  <2>3. states \in SUBSET IssueStates
    BY <2>1
  <2>4. SumFunctionOnSet(Totals, states) = Cardinality({i \in DOMAIN rows : rows[i].state \in states})
    BY <1>0, <2>3, TotalsAddUp
  <2>5. Len(w) = Where(rows, Passing(list.filter), DOMAIN rows)
    BY <1>0, LenOfOnly
  <2>6. {i \in DOMAIN rows : rows[i].state \in states}
          = {i \in DOMAIN rows : i \in DOMAIN rows /\ rows[i] \in Passing(list.filter)}
    <3>0. \A i \in DOMAIN rows : rows[i] \in Range(rows) /\ rows[i] \in Issue
      BY <1>0 DEF Range
    <3>1. \A i \in DOMAIN rows : rows[i] \in Range(rows) /\ rows[i].state \in IssueStates
      BY <3>0 DEF Issue
    <3>2. "all" \notin IssueStates
      BY DEF IssueStates
    <3>3. \A i \in DOMAIN rows : rows[i].state \in states <=> rows[i] \in Passing(list.filter)
      BY <2>1, <3>1, <3>2 DEF Passing
    <3>4. QED  BY <3>3
  <2>7. Len(w) = SumFunctionOnSet(Totals, states)
    BY <2>4, <2>5, <2>6 DEF Where
  <2>8. {Len(w), ListLimit} = {ListLimit, Len(w)}
    OBVIOUS
  <2>9. QED  BY <2>2, <2>7, <2>8
<1>6. TotalsAreOfTheList'
  BY <1>3, <1>5 DEF TotalsAreOfTheList
<1>7. ListHolds'
  <2>1. BlindSpotIsSaid'
    BY <1>3 DEF BlindSpotIsSaid
  <2>2. \A r \in Range(list'.page) : There(r.id, r.born)'
    BY <1>1, <1>3 DEF ReadingInv, ListHolds, There
  <2>3. QED  BY <1>3, <1>6, <2>1, <2>2 DEF ListHolds
<1>8. QED  BY <1>4, <1>7 DEF ReadingInv

LEMMA ListsStays ==
  ASSUME ReadingInv, NEW filter \in IssueStates \cup {"all"}, Lists(filter) PROVE ReadingInv'
<1>0. rows \in Seq(Issue)
  BY DEF ReadingInv, RowsAreApart
<1>1. /\ UNCHANGED <<rows, gone, births, heard>> /\ opened' = NotOpened /\ acted' = {}
      /\ list' = [NotAsked EXCEPT !.pc = "listed", !.filter = filter, !.page = Issues(filter)]
  BY DEF Lists
<1>2. Issues(filter) \in Seq(Issue) /\ Range(Issues(filter)) \subseteq Range(rows)
  BY <1>0, IssuesAre
<1>3. /\ list' \in ListRecord /\ list'.pc = "listed" /\ list'.page = Issues(filter) /\ list'.filter = filter
  BY <1>1, <1>2 DEF ListRecord, NotAsked, IssueStates
<1>4. RowsAreApart' /\ BrowsersAreHeard'
  BY <1>1 DEF ReadingInv, RowsAreApart, BrowsersAreHeard
<1>5. OpenedHolds'
  BY <1>1 DEF OpenedHolds, NotOpened, OpenedRecord, FallsOnTheShown, ListedIsFound
<1>6. ListHolds'
  <2>1. \A r \in Range(list'.page) : There(r.id, r.born)'
    BY <1>1, <1>2, <1>3 DEF There
  <2>2. (list.page = Issues(list.filter))'
    BY <1>1, <1>3 DEF Issues
  <2>3. BlindSpotIsSaid' /\ TotalsAreOfTheList'
    BY <1>3 DEF BlindSpotIsSaid, TotalsAreOfTheList
  <2>4. QED  BY <1>3, <2>1, <2>2, <2>3 DEF ListHolds
<1>7. QED  BY <1>4, <1>5, <1>6 DEF ReadingInv

LEMMA AnswerStays == ASSUME ReadingInv, Answer_ PROVE ReadingInv'
<1> DEFINE owed == IF Len(rows) > ListLimit THEN {} ELSE heard \ gone
<1>0. rows \in Seq(Issue) /\ list \in ListRecord /\ Len(rows) \in Nat /\ ListLimit \in Nat
  BY ReadingAssumption DEF ReadingInv, RowsAreApart, ListHolds
<1>1. /\ UNCHANGED <<rows, opened, acted, gone, births, heard>>
      /\ list' = [NotAsked EXCEPT !.pc = "answered", !.page = list.page, !.blind = ~BrowserSeen(list.filter),
                                  !.owed = owed]
  BY DEF Answer_
<1>2. owed \subseteq Nat
  BY DEF ReadingInv, BrowsersAreHeard
<1>3. (~BrowserSeen(list.filter)) \in BOOLEAN
  BY DEF BrowserSeen
<1>4. ASSUME ~BrowserSeen(list.filter) PROVE owed = {}
  <2> SUFFICES ASSUME NEW b \in owed PROVE FALSE
    OBVIOUS
  <2>1. Len(rows) <= ListLimit /\ b \in heard \ gone
    BY <1>0
  <2>2. Issues("all") = rows
    BY <1>0, <2>1, IssuesAre
  <2>3. \E s \in Range(rows) : s.source = "browser"
    BY <2>1 DEF ReadingInv, BrowsersAreHeard
  <2>4. QED  BY <1>4, <2>2, <2>3 DEF BrowserSeen
<1> HIDE DEF owed
<1>5. /\ list' \in ListRecord /\ list'.pc = "answered" /\ list'.page = list.page
      /\ (list'.blind <=> ~BrowserSeen(list.filter)) /\ list'.owed = owed
  <2> DEFINE blind == ~BrowserSeen(list.filter)
  <2>1. blind \in BOOLEAN
    BY <1>3
  <2> HIDE DEF blind
  <2>2. list' = [NotAsked EXCEPT !.pc = "answered", !.page = list.page, !.blind = blind, !.owed = owed]
    BY <1>1 DEF blind
  <2>3. list.page \in Seq(Issue)
    BY <1>0 DEF ListRecord
  <2>4. /\ list' \in ListRecord /\ list'.pc = "answered" /\ list'.page = list.page
        /\ list'.blind = blind /\ list'.owed = owed
    BY <1>2, <2>1, <2>2, <2>3 DEF ListRecord, NotAsked, IssueStates
  <2>5. QED  BY <2>4 DEF blind
<1>6. RowsAreApart' /\ BrowsersAreHeard' /\ OpenedHolds'
  BY <1>1 DEF ReadingInv, RowsAreApart, BrowsersAreHeard, OpenedHolds, There, FallsOnTheShown, ListedIsFound
<1>7. ListHolds'
  <2>1. \A r \in Range(list'.page) : There(r.id, r.born)'
    BY <1>1, <1>5 DEF ReadingInv, ListHolds, There
  <2>2. BlindSpotIsSaid'
    BY <1>4, <1>5 DEF BlindSpotIsSaid
  <2>3. TotalsAreOfTheList'
    BY <1>5 DEF TotalsAreOfTheList
  <2>4. QED  BY <1>5, <2>1, <2>2, <2>3 DEF ListHolds
<1>8. QED  BY <1>6, <1>7 DEF ReadingInv

LEMMA OpenStays == ASSUME ReadingInv, NEW r \in Range(list.page), Open(r) PROVE ReadingInv'
<1> DEFINE same == {s \in Range(Issues("all")) : s.id = r.id}
           how == IF same = {} THEN "absent" ELSE "found"
<1>0. /\ rows \in Seq(Issue) /\ list \in ListRecord /\ Len(rows) \in Nat /\ ListLimit \in Nat
      /\ births \in Nat /\ Len(rows) <= births
  BY ReadingAssumption DEF ReadingInv, RowsAreApart, ListHolds
<1>1. /\ UNCHANGED <<rows, list, acted, gone, births, heard>>
      /\ opened' = [NotOpened EXCEPT !.pc = how, !.id = r.id, !.shown = r.born]
  BY DEF Open
<1>2. r.id \in Nat /\ r.born \in Nat
  <2>1. list.page \in Seq(Issue)
    BY <1>0 DEF ListRecord
  <2>2. Range(list.page) \subseteq Issue
    BY <2>1, RangeIn
  <2>3. QED  BY <2>2 DEF Issue
<1>3. There(r.id, r.born)
  BY DEF ReadingInv, ListHolds
<1>4. ASSUME same = {} PROVE r.born \in gone \/ births > ListLimit
  <2>1. CASE Len(rows) <= ListLimit
    <3>1. Issues("all") = rows
      BY <1>0, <2>1, IssuesAre
    <3>2. QED  BY <1>3, <1>4, <3>1 DEF There
  <2>2. CASE Len(rows) > ListLimit
    BY <1>0, <2>2
  <2>3. QED  BY <1>0, <2>1, <2>2
<1>5. how \in {"absent", "found"} /\ (how = "absent" => same = {})
  OBVIOUS
<1> HIDE DEF same, how
<1>6. opened' \in OpenedRecord /\ opened'.pc = how /\ opened'.id = r.id /\ opened'.shown = r.born
  BY <1>1, <1>2, <1>5 DEF OpenedRecord, NotOpened
<1>7. RowsAreApart' /\ BrowsersAreHeard' /\ ListHolds'
  <2>1. RowsAreApart' /\ BrowsersAreHeard'
    BY <1>1 DEF ReadingInv, RowsAreApart, BrowsersAreHeard
  <2>2. ListHolds'
    BY <1>1 DEF ReadingInv, ListHolds, There, Issues, BlindSpotIsSaid, TotalsAreOfTheList
  <2>3. QED  BY <2>1, <2>2
<1>8. OpenedHolds'
  <2>1. There(opened.id, opened.shown)'
    BY <1>1, <1>3, <1>6 DEF There
  <2>2. FallsOnTheShown'
    BY <1>1, <1>5, <1>6 DEF ReadingInv, OpenedHolds, FallsOnTheShown
  <2>3. ListedIsFound'
    BY <1>1, <1>4, <1>5, <1>6 DEF ListedIsFound
  <2>4. QED  BY <1>6, <2>1, <2>2, <2>3 DEF OpenedHolds
<1>9. QED  BY <1>7, <1>8 DEF ReadingInv

LEMMA OccurrencesStays == ASSUME ReadingInv, Occurrences PROVE ReadingInv'
<1> DEFINE same == {s \in Range(rows) : s.id = opened.id}
           told == IF same = {} THEN 0 ELSE (CHOOSE s \in same : TRUE).born
<1>0. rows \in Seq(Issue) /\ Range(rows) \subseteq Issue /\ opened \in OpenedRecord
  BY RangeIn DEF ReadingInv, RowsAreApart, OpenedHolds
<1>1. /\ opened.pc = "found" /\ UNCHANGED <<rows, list, acted, gone, births, heard>>
      /\ opened' = [opened EXCEPT !.pc = "shown", !.events = told]
  BY DEF Occurrences
<1>2. There(opened.id, opened.shown)
  BY <1>1 DEF ReadingInv, OpenedHolds
<1>3. told \in Nat
  <2>1. CASE same = {}
    BY <2>1
  <2>2. CASE same # {}
    <3>1. (CHOOSE s \in same : TRUE) \in same
      BY <2>2
    <3>2. (CHOOSE s \in same : TRUE) \in Issue
      BY <1>0, <3>1
    <3>3. QED  BY <2>2, <3>2 DEF Issue
  <2>3. QED  BY <2>1, <2>2
<1>4. ASSUME opened.shown \notin gone PROVE told = opened.shown
  <2>1. PICK t \in Range(rows) : t.id = opened.id /\ t.born = opened.shown
    BY <1>2, <1>4 DEF There
  <2>2. \A s \in same : s = t
    BY <2>1 DEF ReadingInv, RowsAreApart
  <2>3. same # {} /\ (CHOOSE s \in same : TRUE) \in same
    BY <2>1
  <2>4. QED  BY <2>1, <2>2, <2>3
<1> HIDE DEF same, told
<1>5. /\ opened' \in OpenedRecord /\ opened'.pc = "shown" /\ opened'.id = opened.id /\ opened'.shown = opened.shown
      /\ opened'.events = told
  BY <1>0, <1>1, <1>3 DEF OpenedRecord
<1>6. RowsAreApart' /\ BrowsersAreHeard' /\ ListHolds'
  <2>1. RowsAreApart' /\ BrowsersAreHeard'
    BY <1>1 DEF ReadingInv, RowsAreApart, BrowsersAreHeard
  <2>2. ListHolds'
    BY <1>1 DEF ReadingInv, ListHolds, There, Issues, BlindSpotIsSaid, TotalsAreOfTheList
  <2>3. QED  BY <2>1, <2>2
<1>7. OpenedHolds'
  <2>1. There(opened.id, opened.shown)'
    BY <1>1, <1>2, <1>5 DEF There
  <2>2. FallsOnTheShown'
    BY <1>1, <1>4, <1>5 DEF ReadingInv, OpenedHolds, FallsOnTheShown
  <2>3. ListedIsFound'
    BY <1>5 DEF ListedIsFound
  <2>4. QED  BY <1>5, <2>1, <2>2, <2>3 DEF OpenedHolds
<1>8. QED  BY <1>6, <1>7 DEF ReadingInv

LEMMA ReadingStep == ReadingInv /\ [ReadingNext]_readingVars => ReadingInv'
<1> SUFFICES ASSUME ReadingInv, [ReadingNext]_readingVars PROVE ReadingInv'
  OBVIOUS
<1>1. CASE \E filter \in IssueStates \cup {"all"} : Lists(filter)
  BY <1>1, ListsStays
<1>2. CASE Total
  BY <1>2, TotalStays
<1>3. CASE Answer_
  BY <1>3, AnswerStays
<1>4. CASE Occurrences
  BY <1>4, OccurrencesStays
<1>5. CASE \E r \in Range(list.page) : Open(r) \/ Delete(r) \/ \E s \in IssueStates : Decide(r, s)
  BY <1>5, OpenStays, DeleteStays, DecideStays
<1>6. CASE \E r \in Range(rows) : Elsewhere(r) \/ Recurs(r)
  BY <1>6, ElsewhereStays, RecursStays
<1>7. CASE \E source \in {"server", "browser"} : Arrives(source)
  BY <1>7, ArrivesStays DEF Sources
<1>8. CASE UNCHANGED readingVars
  <2>1. RowsAreApart' /\ BrowsersAreHeard'
    BY <1>8 DEF readingVars, ReadingInv, RowsAreApart, BrowsersAreHeard
  <2>2. ListHolds'
    BY <1>8 DEF readingVars, ReadingInv, ListHolds, There, Issues, BlindSpotIsSaid, TotalsAreOfTheList
  <2>3. OpenedHolds'
    BY <1>8 DEF readingVars, ReadingInv, OpenedHolds, There, FallsOnTheShown, ListedIsFound
  <2>4. QED  BY <2>1, <2>2, <2>3 DEF ReadingInv
<1>9. QED  BY <1>1, <1>2, <1>3, <1>4, <1>5, <1>6, <1>7, <1>8 DEF ReadingNext

\* What a person or an agent is shown of an issue is of that issue, and what they
\* decide falls to it: unless it had been deleted meanwhile.  The list, its totals
\* and the word that no browser was heard of agree with each other up to the limit
\* (project_errors, issue_detail, issues_bulk; list_errors, error_detail and
\* triage_errors).
THEOREM IssuesAreShownTruly == ReadingSpec => []IssuesAreShown
<1>1. ReadingInv => IssuesAreShown
  BY DEF ReadingInv, ListHolds, OpenedHolds, IssuesAreShown
<1>2. QED  BY <1>1, ReadingBegins, ReadingStep, PTL DEF ReadingSpec
=============================================================================
