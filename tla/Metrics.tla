------------------------------ MODULE Metrics ------------------------------
(***************************************************************************)
(* What the charts are drawn from: the machine's samples of one day in     *)
(* memory (src/src/collector.rs, src/src/metrics.rs), each project's       *)
(* (src/src/projects.rs), the averages of a week that src/src/persist.rs   *)
(* writes to SQLite, and the histories src/src/server.rs and               *)
(* src/src/mcp.rs answer with.                                             *)
(*                                                                         *)
(* A sample is its second, an average the set of samples it averages.      *)
(***************************************************************************)
EXTENDS Integers, FiniteSets, Sequences, SequencesExt

CONSTANTS
  SampleSecs,   \* WEBO_SAMPLE_SECS
  Day,          \* the seconds of the history in memory
  ProjectCap,   \* HISTORY_CAP
  PersistSecs,  \* how often an average is stored, and what it looks back on
  KeepSecs,     \* KEEP_SECS
  Limit,        \* the most points a chart is given
  Slugs,        \* the projects docker may list
  MaxTime,      \* bound: the clock
  MaxLate,      \* bound: how late a timer is served
  MaxRestarts   \* bound: restarts of webo

\* The day is of whole periods, as with the default of WEBO_SAMPLE_SECS, and holds an
\* average's samples, and the limit a week's averages. A project's scope, "project:" and its slug, is never the machine's.
ASSUME ChartsAssumption ==
  /\ {SampleSecs, PersistSecs, KeepSecs, ProjectCap, Limit} \subseteq Nat \ {0}
  /\ Day \in Nat /\ Day >= PersistSecs + SampleSecs /\ (Day \div SampleSecs) * SampleSecs = Day
  /\ Limit > KeepSecs \div PersistSecs /\ "server" \notin Slugs
  /\ {MaxTime, MaxLate, MaxRestarts} \subseteq Nat

VARIABLES
  now,        \* the clock
  due,        \* when each timer fires next
  history,    \* State.history
  snapshot,   \* State.snapshot.ts, 0 before the first
  live,       \* State.projects_live: a history per project
  listing,    \* the docker listing a pass of projects.rs works on, or NoListing
  samples,    \* the samples table
  sampled,    \* history: the machine's samples since the start
  lastPass,   \* history: when the last average was taken, or the start
  punctual,   \* history: every average since the start was taken on time
  restarts    \* history: how many

chartsVars == <<now, due, history, snapshot, live, listing, samples,
               sampled, lastPass, punctual, restarts>>

-----------------------------------------------------------------------------
NoListing == [ts |-> 0, slugs |-> {}]
Timers == {"machine", "projects", "persist"}

\* main: a day of samples.
HistoryCap == Day \div SampleSecs

\* Mutant: one sample fewer is kept.
Pushed_OneShort(series, ts, cap) ==
  Append(IF Len(series) >= cap - 1 THEN Tail(series) ELSE series, ts)

\* A ring: a full one loses its oldest.
Pushed(series, ts, cap) ==
  Append(IF series # <<>> /\ Len(series) = cap THEN Tail(series) ELSE series, ts)

Since(series, since) == {ts \in ToSet(series) : ts >= since}

Newest(S) == CHOOSE ts \in S : \A other \in S : other <= ts

\* A timer that is served late fires a whole period after that.
Fires(timer, period) ==
  /\ now >= due[timer]
  /\ due' = [due EXCEPT ![timer] = now + period]

-----------------------------------------------------------------------------
(* The machine *)

Sample ==
  /\ Fires("machine", SampleSecs)
  /\ history' = Pushed(history, now, HistoryCap) /\ snapshot' = now
  /\ sampled' = sampled \cup {now}
  /\ UNCHANGED <<now, live, listing, samples, lastPass, punctual, restarts>>

-----------------------------------------------------------------------------
(* The projects: list, ask each container, merge *)

\* The listing fails: the tick is skipped.
ListingFails ==
  /\ listing = NoListing /\ Fires("projects", SampleSecs)
  /\ UNCHANGED <<now, history, snapshot, live, listing, samples, sampled, lastPass, punctual, restarts>>

\* Docker lists the projects it has running containers of.
List ==
  /\ listing = NoListing /\ Fires("projects", SampleSecs)
  /\ \E slugs \in SUBSET Slugs : listing' = [ts |-> now, slugs |-> slugs]
  /\ UNCHANGED <<now, history, snapshot, live, samples, sampled, lastPass, punctual, restarts>>

\* Histories are carried on; a project that was not listed loses its own.
Merge ==
  /\ listing # NoListing /\ listing' = NoListing
  /\ live' = [s \in listing.slugs |->
                Pushed(IF s \in DOMAIN live THEN live[s] ELSE <<>>, listing.ts, ProjectCap)]
  /\ UNCHANGED <<now, due, history, snapshot, samples, sampled, lastPass, punctual, restarts>>

-----------------------------------------------------------------------------
(* The averages *)

Scopes == {"server"} \cup Slugs

Series(scope) ==
  IF scope = "server" THEN history
  ELSE IF scope \in DOMAIN live THEN live[scope] ELSE <<>>

\* average_server, average_project: none of no sample, else one, stamped with
\* the newest.
Averages(since) ==
  {[scope |-> scope, ts |-> Newest(Since(Series(scope), since)), of |-> Since(Series(scope), since)] :
     scope \in {x \in Scopes : Since(Series(x), since) # {}}}

\* insert_sample: a point of the same scope and second is replaced.
Inserted(points) ==
  points \cup {p \in samples : \A q \in points : <<p.scope, p.ts>> # <<q.scope, q.ts>>}

\* Mutant: what falls out of the day is dropped, not of the week.
Pruned_Day(points, before) == {p \in points : p.ts >= before + KeepSecs - Day}

\* prune_samples
Pruned(points, before) == {p \in points : p.ts >= before}

\* Mutant: an average starts where the newest sample of the last one was.
Window_Short == snapshot - PersistSecs + 1

Window == snapshot - PersistSecs

Persist ==
  /\ Fires("persist", PersistSecs)
  /\ samples' = IF snapshot = 0 THEN samples ELSE Pruned(Inserted(Averages(Window)), snapshot - KeepSecs)
  /\ punctual' = (punctual /\ now - lastPass <= PersistSecs) /\ lastPass' = now
  /\ UNCHANGED <<now, history, snapshot, live, listing, sampled, restarts>>

-----------------------------------------------------------------------------
(* The clock, a new webo *)

\* No timer waits for more than MaxLate, nor does a listing's merge.
Tick ==
  /\ now < MaxTime
  /\ \A timer \in Timers : now < due[timer] + MaxLate
  /\ listing # NoListing => now < listing.ts + MaxLate
  /\ now' = now + 1
  /\ UNCHANGED <<due, history, snapshot, live, listing, samples, sampled, lastPass, punctual, restarts>>

\* The averages' timer is let fire once before the loop.
\* Whatever is in memory is lost, the table is not. The next process starts in a
\* later second.
WeboRestarts ==
  /\ restarts < MaxRestarts /\ restarts' = restarts + 1 /\ now' = now + 1
  /\ due' = [timer \in Timers |-> IF timer = "persist" THEN now' + PersistSecs ELSE now']
  /\ history' = <<>> /\ snapshot' = 0 /\ live' = [s \in {} |-> <<>>] /\ listing' = NoListing
  /\ sampled' = {} /\ lastPass' = now' /\ punctual' = TRUE
  /\ UNCHANGED samples

ChartsInit ==
  /\ now = 1 /\ due = [timer \in Timers |-> IF timer = "persist" THEN now + PersistSecs ELSE now]
  /\ history = <<>> /\ snapshot = 0 /\ live = [s \in {} |-> <<>>] /\ listing = NoListing
  /\ samples = {} /\ sampled = {} /\ lastPass = now /\ punctual = TRUE
  /\ restarts = 0

ChartsNext == Sample \/ ListingFails \/ List \/ Merge \/ Persist \/ Tick \/ WeboRestarts

ChartsSpec == ChartsInit /\ [][ChartsNext]_chartsVars

-----------------------------------------------------------------------------
(* What is answered *)

\* history, without a window: the last minutes in memory.
LiveChart(secs) == Since(history, snapshot - secs)

\* samples: the oldest Limit points of the window.
StoredChart(scope, since) ==
  LET points == {p.ts : p \in {q \in samples : q.scope = scope /\ q.ts >= since}}
  IN {ts \in points : Cardinality({other \in points : other < ts}) < Limit}

-----------------------------------------------------------------------------
(* Properties *)

\* The day's chart has every sample webo took in the day before its last one,
\* and the limit of the week's never cuts a point, however often webo restarts.
DayIsShown ==
  /\ \A ts \in sampled : ts > snapshot - Day => ts \in LiveChart(Day)
  /\ \A p \in samples : p.ts >= now - KeepSecs => p.ts \in StoredChart(p.scope, now - KeepSecs)

\* Every sample taken before an average is in one, as long as the averages are
\* taken on time: no gap is left between one and the next.
NoSampleIsLeftOut ==
  punctual => \A ts \in sampled :
    ts < lastPass /\ ts >= snapshot - KeepSecs =>
      \E p \in samples : p.scope = "server" /\ ts \in p.of

\* The charts have no hole, the day's nor the week's.
ChartsAreWhole == DayIsShown /\ NoSampleIsLeftOut

\* A stored point stays as it is for the week. A project's alone may be averaged
\* again over fewer of its samples, when docker has not answered in between.
KeepsPoints ==
  \A p \in samples :
    p.ts >= now - KeepSecs =>
      \E q \in samples' : /\ <<q.scope, q.ts>> = <<p.scope, p.ts>>
                         /\ IF p.scope = "server" THEN q.of = p.of ELSE q.of \subseteq p.of
PointsStand == [][KeepsPoints]_chartsVars

=============================================================================
