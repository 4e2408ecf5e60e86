---------------------------- MODULE LogCollector ----------------------------
(***************************************************************************)
(* The log collector (src/src/logs.rs, run) and the log index it fills     *)
(* (src/src/store.rs, table logs), feeding the issue tracker.              *)
(*                                                                         *)
(* One project and its containers.  Every few seconds a pass lists the     *)
(* running containers, reads each one's docker log from the last second    *)
(* indexed, indexes what is new, records the errors in it, and prunes the  *)
(* index.  The index survives a restart, the pass does not; docker's log   *)
(* of a container goes when a deploy recreates it.                         *)
(***************************************************************************)
EXTENDS IssueTracker, Sequences, SequencesExt, Lists

CONSTANTS
  Containers,   \* container names: a recreated container keeps its name
  Texts,        \* what a line can say; the fingerprints are its error texts
  Openers,      \* texts that start a record of their own
  Frames,       \* texts that are stack frames
  MaxFold,      \* lines one error may absorb (20)
  Cap,          \* lines the index may hold (500 MB)
  PruneMin,     \* lines a prune removes at least (100)
  MaxLines,     \* bound: lines the containers write
  MaxRecorded,  \* bound: no pass begins once more occurrences are recorded
  Faults,       \* "stream", "read", "insert", "record", "restart", "recreate"
  MaxFaults,    \* bound: faults that happen in one behaviour
  MaxReports,   \* bound: errors the app's own pages report
  Verdicts      \* bound: the states people give issues here

ASSUME CollectorBounds ==
  /\ Fingerprints \subseteq Texts /\ Openers \subseteq Texts
  /\ Frames \subseteq Texts \ Openers
  /\ {MaxFold, Cap, PruneMin, MaxLines, MaxRecorded, MaxFaults, MaxReports} \subseteq Nat
  /\ PruneMin > 0 /\ IsFiniteSet(Texts) /\ IsFiniteSet(Containers)
  /\ Verdicts \subseteq States

VARIABLES
  clock,     \* the second docker stamps lines with
  out,       \* docker's log of each running container, in order
  kept,      \* table logs: copies of each line kept per container
  pc,        \* the pass: "idle", "list", "store", "record", "prune"
  todo,      \* containers listed and still to be read in this pass
  at,        \* the container being read, a member of Containers
  since,     \* the cursor it was read from, -1 for None
  batch,     \* the lines read and not yet indexed, or the errors not yet recorded
  written,   \* history: copies each container ever wrote
  pruned,    \* history: copies the prunes removed
  recorded,  \* history: occurrences the collector recorded per fingerprint
  mishaps,   \* history: which faults have happened, and "pruned"
  reports    \* history: how many errors pages reported

docker == <<clock, out, written>>
collectorVars == <<clock, out, kept, pc, todo, at, since, batch,
                   written, pruned, recorded, mishaps, reports>>
vars == <<trackerVars, collectorVars>>

None == -1
Lines == [ts: Times, text: Texts]
Copies == [Lines -> Nat]
Nothing == [l \in Lines |-> 0]

-----------------------------------------------------------------------------
(* The index (store.rs) *)

\* How many lines a bag of lines holds.
Size(bag) == SumFunction(bag)

Counts(seq) == [l \in Lines |-> Cardinality({i \in DOMAIN seq : seq[i] = l})]

\* MAX(ts) of the lines indexed for a container.
LastTs(c) == Max({None} \cup {l.ts : l \in {m \in Lines : kept[c][m] > 0}})

IndexSize == MapThenSumSet(LAMBDA c : Size(kept[c]), Containers)

-----------------------------------------------------------------------------
(* Reading a batch (logs.rs) *)

\* Mutant: only later seconds count as new, the cursor's second is dropped.
NewerThan_Strict(lines, s, already) == Only(lines, {l \in Lines : l.ts > s})

\* Mutant: a line of the cursor's second is a repeat if it is indexed at all.
NewerThan_Membership(lines, s, already) ==
  Only(lines, {l \in Lines : l.ts > s \/ (l.ts = s /\ already[l] = 0)})

\* Mutant: the cursor's second is taken whole.
NewerThan_Inclusive(lines, s, already) == Only(lines, {l \in Lines : l.ts >= s})

\* newer_than: later seconds whole, and of the cursor's second what is beyond
\* the copies already indexed.
NewerThan(lines, s, already) ==
  IF s = None THEN lines
  ELSE LET nth(i) == Cardinality({j \in 1..i : lines[j] = lines[i]})
           new == {i \in DOMAIN lines : \/ lines[i].ts > s
                                        \/ lines[i].ts = s /\ nth(i) > already[lines[i]]}
       IN  Picked(lines, new)

\* Mutant: the window of an error is looser than one second.
Continues_Loose(head, l) == TRUE

\* continues: a stack frame, or a line of the same second that opens no record.
Continues(head, l) ==
  l.text \in Frames \/ (l.ts = head.ts /\ l.text \notin Openers)

\* error_blocks: the error lines no earlier error has absorbed.
Heads(lines) ==
  LET head[i \in 1..Len(lines)] ==
        /\ lines[i].text \in Fingerprints
        /\ \A j \in 1..i-1 :
             head[j] => \E k \in j+1..i : k - j > MaxFold \/ ~Continues(lines[j], lines[k])
  IN  {i \in DOMAIN lines : head[i]}

\* The occurrences a batch records, in order.
ErrorsIn(lines) == Picked(lines, Heads(lines))

-----------------------------------------------------------------------------
(* The pass (logs.rs, run) *)

\* What goes wrong in this step; each fault once in a behaviour.
Mishap(new) ==
  /\ new \subseteq Faults
  /\ new \cap mishaps = {}
  /\ Cardinality((mishaps \cup new) \ {"pruned"}) <= MaxFaults
  /\ mishaps' = mishaps \cup new

\* list_containers: those that run now.
Begin(running) ==
  /\ pc = "idle" /\ SumFunction(recorded) <= MaxRecorded
  /\ pc' = "list" /\ todo' = running
  /\ UNCHANGED <<trackerVars, docker, kept, at, since, batch, pruned, recorded, mishaps, reports>>

\* last_log_ts, then docker's log from that second on, up to where the stream
\* ends or breaks.  A failed query reads as no cursor.
Fetch(c) ==
  /\ pc = "list" /\ c \in todo
  /\ \E s \in {LastTs(c), None}, n \in 0..Len(out[c]) :
       LET from == Only(out[c], {l \in Lines : l.ts >= s})
           broken == n < Len(from)
           misread == s # LastTs(c)
       IN  /\ n <= Len(from)
           /\ since' = s /\ batch' = SubSeq(from, 1, n)
           /\ Mishap({f \in {"read", "stream"} : IF f = "read" THEN misread ELSE broken})
  /\ pc' = "store" /\ at' = c /\ todo' = todo \ {c}
  /\ UNCHANGED <<trackerVars, docker, kept, pruned, recorded, reports>>

\* What this pass indexes, when lines_at answers `already`.
Fresh(already) == NewerThan(batch, since, already)

\* Nothing new: on to the next container.
Skip ==
  /\ pc = "store" /\ Fresh(kept[at]) = <<>>
  /\ pc' = "list" /\ batch' = <<>>
  /\ UNCHANGED <<trackerVars, docker, kept, todo, at, since, pruned, recorded, mishaps, reports>>

\* lines_at, newer_than and insert_logs.  A failed query reads as no lines, a
\* failed insert is not looked at: either way the errors are recorded next.
Store ==
  /\ pc = "store"
  /\ \E already \in {kept[at], Nothing}, inserts \in BOOLEAN :
       LET lines == Fresh(already)
           misread == already # kept[at] /\ since # None
       IN  /\ lines # <<>>
           /\ kept' = IF inserts
                      THEN [kept EXCEPT ![at] = [l \in Lines |-> @[l] + Counts(lines)[l]]]
                      ELSE kept
           /\ batch' = ErrorsIn(lines)
           /\ Mishap({f \in {"read", "insert"} : IF f = "read" THEN misread ELSE ~inserts})
  /\ pc' = "record"
  /\ UNCHANGED <<trackerVars, docker, todo, at, since, pruned, recorded, reports>>

\* record_error for the next error of the batch.
Record ==
  /\ pc = "record" /\ batch # <<>>
  /\ \E f \in Fingerprints, ts \in Times :
       /\ Head(batch) = [ts |-> ts, text |-> f]
       /\ RecordError(f, ts)
       /\ recorded' = [recorded EXCEPT ![f] = @ + 1]
  /\ batch' = Tail(batch)
  /\ UNCHANGED <<docker, kept, pc, todo, at, since, pruned, mishaps, reports>>

\* Its result is not looked at.
RecordFails ==
  /\ pc = "record" /\ batch # <<>> /\ Mishap({"record"})
  /\ batch' = Tail(batch)
  /\ UNCHANGED <<trackerVars, docker, kept, pc, todo, at, since, pruned, recorded, reports>>

NextContainer ==
  /\ pc = "record" /\ batch = <<>>
  /\ pc' = "list"
  /\ UNCHANGED <<trackerVars, docker, kept, todo, at, since, batch, pruned, recorded, mishaps, reports>>

\* The index, row by row.
RowSet == UNION {{<<c, l, k>> : k \in 1..kept[c][l]} : c \in Containers, l \in Lines}

\* `ORDER BY ts ASC`: rows of one second go in any order.
OldestFirst(gone) == \A r \in gone, q \in RowSet \ gone : r[2].ts <= q[2].ts

\* prune_logs closes the pass: over the cap, the oldest tenth goes.
Prune ==
  /\ pc = "list" /\ todo = {} /\ IndexSize > Cap
  /\ LET n == Min({IndexSize, Max({PruneMin, IndexSize \div 10})})
     IN  \E gone \in kSubset(n, RowSet) :
           /\ OldestFirst(gone)
           /\ LET lost(c) == [l \in Lines |-> Cardinality({r \in gone : r[1] = c /\ r[2] = l})]
              IN  /\ kept' = [c \in Containers |-> [l \in Lines |-> kept[c][l] - lost(c)[l]]]
                  /\ pruned' = [c \in Containers |-> [l \in Lines |-> pruned[c][l] + lost(c)[l]]]
  /\ pc' = "idle" /\ mishaps' = mishaps \cup {"pruned"}
  /\ UNCHANGED <<trackerVars, docker, todo, at, since, batch, recorded, reports>>

\* Under the cap the pass just ends.
EndPass ==
  /\ pc = "list" /\ todo = {} /\ IndexSize <= Cap
  /\ pc' = "idle"
  /\ UNCHANGED <<trackerVars, docker, kept, todo, at, since, batch, pruned, recorded, mishaps, reports>>

\* The server stops in the middle of a pass and starts again: the pass is gone,
\* the tables are opened and migrated.
Restart ==
  /\ pc # "idle" /\ Mishap({"restart"})
  /\ Migrate
  /\ pc' = "idle" /\ todo' = {} /\ since' = None /\ batch' = <<>>
  /\ UNCHANGED <<docker, kept, at, pruned, recorded, reports>>

-----------------------------------------------------------------------------
(* Around the collector *)

LinesWritten == MapThenSumSet(LAMBDA c : Size(written[c]), Containers)

\* A container writes a line; docker stamps it with the second.
Write(c, text) ==
  /\ LinesWritten < MaxLines
  /\ LET l == [ts |-> clock, text |-> text]
     IN  /\ out' = [out EXCEPT ![c] = Append(@, l)]
         /\ written' = [written EXCEPT ![c][l] = @ + 1]
  /\ UNCHANGED <<trackerVars, clock, kept, pc, todo, at, since, batch, pruned, recorded, mishaps, reports>>

Second ==
  /\ clock < MaxTime /\ clock' = clock + 1
  /\ UNCHANGED <<trackerVars, out, written, kept, pc, todo, at, since, batch, pruned, recorded, mishaps, reports>>

\* A deploy recreates a container under its name: docker's log starts over, and
\* the id this pass listed for it answers nothing.
Recreate(c) ==
  /\ out[c] # <<>> /\ Mishap({"recreate"})
  /\ out' = [out EXCEPT ![c] = <<>>] /\ todo' = todo \ {c}
  /\ UNCHANGED <<trackerVars, clock, written, kept, pc, at, since, batch, pruned, recorded, reports>>

\* What people do about the issues meanwhile.
Triage ==
  /\ \E ids \in SUBSET ListedIds : \/ \E s \in Verdicts : SetState(ids, s)
                                   \/ DeleteIssues(ids)
  /\ UNCHANGED collectorVars

\* POST /ingest/:key: a page of the app reports an error.
Report(f) ==
  /\ reports < MaxReports /\ reports' = reports + 1
  /\ \E now \in Times : now = clock /\ RecordError(f, now)
  /\ UNCHANGED <<docker, kept, pc, todo, at, since, batch, pruned, recorded, mishaps>>

Collector ==
  \/ Begin(Containers)
  \/ \E c \in Containers : Fetch(c)
  \/ Skip \/ Store \/ Record \/ RecordFails \/ NextContainer \/ Prune \/ EndPass

Init ==
  /\ TrackerInit
  /\ clock = 0
  /\ out = [c \in Containers |-> <<>>]
  /\ kept = [c \in Containers |-> Nothing]
  /\ pc = "idle" /\ todo = {} /\ at \in Containers /\ since = None /\ batch = <<>>
  /\ written = [c \in Containers |-> Nothing]
  /\ pruned = [c \in Containers |-> Nothing]
  /\ recorded = [f \in Fingerprints |-> 0]
  /\ mishaps = {} /\ reports = 0

Next ==
  \/ Collector
  \/ Restart
  \/ Triage
  \/ \E f \in Fingerprints : Report(f)
  \/ \E c \in Containers : Recreate(c) \/ \E text \in Texts : Write(c, text)
  \/ Second

Spec == Init /\ [][Next]_vars

\* The collector is a task of its own on a timer that never stops.
FairSpec == Spec /\ WF_vars(Collector)

-----------------------------------------------------------------------------
(* Properties *)

TypeOK ==
  /\ TrackerTypeOK
  /\ clock \in Times
  /\ out \in [Containers -> Seq(Lines)]
  /\ kept \in [Containers -> Copies]
  /\ pc \in {"idle", "list", "store", "record"}
  /\ todo \subseteq Containers /\ at \in Containers
  /\ since \in Times \cup {None} /\ batch \in Seq(Lines)
  /\ written \in [Containers -> Copies] /\ pruned \in [Containers -> Copies]
  /\ recorded \in [Fingerprints -> Nat]
  /\ mishaps \subseteq Faults \cup {"pruned"} /\ reports \in Nat

\* The cursor never steps over a line: of every second before a container's
\* cursor, all that docker holds has been indexed, however often the stream
\* broke, an insert failed, the server restarted or the index was pruned
\* (newer_than reads the cursor's second again instead of passing it by).
NothingSkipped ==
  \A c \in Containers, l \in Lines :
    l.ts < LastTs(c) => kept[c][l] + pruned[c][l] >= Counts(out[c])[l]

\* The index never holds more copies of a line than the container wrote, though
\* every pass reads the cursor's second again and a prune sends it back to the
\* start; only a query that failed, and reads as an empty index, breaks this.
NoLineTwice ==
  "read" \notin mishaps =>
    \A c \in Containers, l \in Lines : kept[c][l] <= written[c][l]

\* The index is docker's log up to the cursor: no line is left out and none is
\* there twice (newer_than, insert_logs, prune_logs); the state keeps its type.
IndexMirrorsTheLog == TypeOK /\ NothingSkipped /\ NoLineTwice

Indexed(f) == SumFunction([c \in Containers |-> SumFunctionOnSet(kept[c], {l \in Lines : l.text = f})])
Pending(f) == IF pc = "record" THEN Cardinality({i \in DOMAIN batch : batch[i].text = f}) ELSE 0

\* Index and tracker agree although they are written one after the other: while
\* nothing failed and nothing was pruned, an error that opens its own record is
\* counted once per line indexed, and one that may be absorbed at most once.
EachErrorOnce ==
  mishaps \subseteq {"stream", "recreate"} =>
    \A f \in Fingerprints :
      /\ recorded[f] + Pending(f) <= Indexed(f)
      /\ f \in Openers => recorded[f] + Pending(f) = Indexed(f)

\* What a container wrote is indexed in the end, unless it is recreated first.
EverythingIsIndexed ==
  \A c \in Containers :
    []<>(\A l \in Lines : kept[c][l] + pruned[c][l] >= Counts(out[c])[l])

\* The cursor of a container only moves forward (logs.rs:149-150).
CursorMovesForward == [][\A c \in Containers : LastTs(c)' >= LastTs(c)]_vars
=============================================================================
