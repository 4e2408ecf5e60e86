------------------------------ MODULE Processes ------------------------------
(***************************************************************************)
(* The process list (src/src/collector.rs): /proc is read one process      *)
(* after the other while processes come, go and take the pids of others;   *)
(* CPU is the difference to the reading before, by pid; a process is       *)
(* grouped with the ancestors that run the same program.                   *)
(*                                                                         *)
(* The kernel is external.  A process is read in one step.                 *)
(***************************************************************************)
EXTENDS Integers, FiniteSets, FiniteSetsExt, Functions

CONSTANTS
  Pids,      \* process ids; the least is init
  Programs,  \* what processes run: [bin, comm], bin "" for a kernel thread
  Hops,      \* how far a chain of parents is followed (64)
  Cut,       \* how many groups are kept (40)
  MaxEvents, \* bound: what happens in the kernel
  MaxScans   \* bound: scans

ASSUME ListAssumption ==
  /\ Pids \subseteq Nat /\ Pids # {} /\ IsFiniteSet(Pids) /\ Min(Pids) + 1 \in Pids
  /\ {Hops, Cut, MaxEvents, MaxScans} \subseteq Nat

VARIABLES
  proc,   \* the kernel's processes
  fresh,  \* history: ticks of each since its pid was last read
  known,  \* history: the process has been read by the scan before
  todo,   \* the pids this scan has still to read
  raw,    \* what it has read
  prev,   \* the ticks per pid of the scan before
  shown,  \* State.processes and process_groups_total, with what they were made of
  events, \* history: how many
  scans   \* history: how many

listVars == <<proc, fresh, known, todo, raw, prev, shown, events, scans>>

-----------------------------------------------------------------------------
Nothing == [pid \in {} |-> 0]
First == Min(Pids)
Without(f, x) == Restrict(f, DOMAIN f \ {x})
Put(f, x, v) == [y \in DOMAIN f \cup {x} |-> IF y = x THEN v ELSE f[y]]

-----------------------------------------------------------------------------
(* The kernel *)

Event == events < MaxEvents /\ events' = events + 1

Fork(parent, pid, program) ==
  /\ Event
  /\ parent \in DOMAIN proc /\ pid \notin DOMAIN proc
  /\ proc' = Put(proc, pid, [ppid |-> parent, program |-> program, ticks |-> 0])
  /\ fresh' = Put(fresh, pid, 0) /\ known' = known \ {pid}
  /\ UNCHANGED <<todo, raw, prev, shown, scans>>

Run(pid) ==
  /\ Event /\ pid \in DOMAIN proc
  /\ proc' = [proc EXCEPT ![pid].ticks = @ + 1] /\ fresh' = [fresh EXCEPT ![pid] = @ + 1]
  /\ UNCHANGED <<known, todo, raw, prev, shown, scans>>

\* The children of a process that ends are init's.
Exit(pid) ==
  /\ Event /\ pid \in DOMAIN proc \ {First}
  /\ proc' = [p \in DOMAIN proc \ {pid} |->
                IF proc[p].ppid = pid THEN [proc[p] EXCEPT !.ppid = First] ELSE proc[p]]
  /\ fresh' = Without(fresh, pid) /\ known' = known \ {pid}
  /\ UNCHANGED <<todo, raw, prev, shown, scans>>

-----------------------------------------------------------------------------
(* scan_procs *)

BeginScan ==
  /\ todo = {} /\ raw = Nothing /\ scans < MaxScans /\ scans' = scans + 1
  /\ todo' = Pids
  /\ UNCHANGED <<proc, fresh, known, raw, prev, shown, events>>

Readable(pid) == pid \in DOMAIN proc /\ proc[pid].program.bin # ""

\* Mutant: an unsigned difference that wraps.
Cpu_Wraps(pid) == IF pid \in DOMAIN prev THEN (proc[pid].ticks - prev[pid]) % 2^16 ELSE 0

\* The difference by pid, whoever had it before, and never below nothing.
Cpu(pid) == IF pid \in DOMAIN prev THEN Max({0, proc[pid].ticks - prev[pid]}) ELSE 0

\* The next process, by pid; one that is gone or a kernel thread is passed over.
Read ==
  /\ todo # {}
  /\ LET pid == Min(todo)
     IN /\ todo' = todo \ {pid}
        /\ IF Readable(pid)
           THEN /\ raw' = Put(raw, pid, [ppid |-> proc[pid].ppid, program |-> proc[pid].program,
                                         ticks |-> proc[pid].ticks, cpu |-> Cpu(pid)])
                /\ fresh' = [fresh EXCEPT ![pid] = 0] /\ known' = known \cup {pid}
           ELSE UNCHANGED <<raw, fresh, known>>
  /\ UNCHANGED <<proc, prev, shown, events, scans>>

-----------------------------------------------------------------------------
(* group_processes *)

SameProgram(me, parent) ==
  (me.program.bin # "" /\ parent.program.bin = me.program.bin) \/ parent.program.comm = me.program.comm

\* The parent, if it was read and runs the same program; else the process itself.
Up(list, pid) ==
  LET ppid == list[pid].ppid
  IN IF ppid \in DOMAIN list /\ SameProgram(list[pid], list[ppid]) THEN ppid ELSE pid

\* A chain of parents, as far as it is followed.
Chain(list, pid) ==
  LET up[n \in 0 .. Hops] == IF n = 0 THEN pid ELSE Up(list, up[n - 1])
  IN up

\* Mutant: a process joins its parent and not its parent's group.
RootOf_Parent(list, pid) == Up(list, pid)

\* root_of: up the chain, for so many hops.
RootOf(list, pid) == Chain(list, pid)[Hops]

Members(list, root) == {pid \in DOMAIN list : RootOf(list, pid) = root}
Roots(list) == {RootOf(list, pid) : pid \in DOMAIN list}
GroupCpu(list, root) == SumFunctionOnSet([pid \in DOMAIN list |-> list[pid].cpu], Members(list, root))

\* Sorted by CPU and cut.
Kept(list, kept) ==
  /\ kept \subseteq Roots(list) /\ Cardinality(kept) = Min({Cut, Cardinality(Roots(list))})
  /\ \A in \in kept, out \in Roots(list) \ kept : GroupCpu(list, in) >= GroupCpu(list, out)

\* What was read replaces what the next scan compares with.
Publish ==
  /\ todo = {} /\ raw # Nothing
  /\ \E kept \in SUBSET Roots(raw) :
       /\ Kept(raw, kept)
       /\ shown' = [list |-> raw, found |-> Cardinality(Roots(raw)),
                    groups |-> [root \in kept |-> [members |-> Members(raw, root), cpu |-> GroupCpu(raw, root)]]]
  /\ prev' = [pid \in DOMAIN raw |-> raw[pid].ticks] /\ raw' = Nothing
  /\ UNCHANGED <<proc, fresh, known, todo, events, scans>>

\* init runs, and perhaps a child of it that has run before.
ListInit ==
  /\ \E program, child \in {p \in Programs : p.bin # ""}, others \in SUBSET {First + 1} :
       proc = [pid \in {First} \cup others |->
                 IF pid = First THEN [ppid |-> 0, program |-> program, ticks |-> 0]
                 ELSE [ppid |-> First, program |-> child, ticks |-> 1]]
  /\ fresh = [pid \in DOMAIN proc |-> proc[pid].ticks] /\ known = {}
  /\ todo = {} /\ raw = Nothing /\ prev = Nothing
  /\ shown = [list |-> Nothing, found |-> 0, groups |-> Nothing]
  /\ events = 0 /\ scans = 0

ListNext ==
  \/ \E parent, pid \in Pids, program \in Programs : Fork(parent, pid, program)
  \/ \E pid \in Pids : Run(pid) \/ Exit(pid)
  \/ BeginScan \/ Read \/ Publish

ListSpec == ListInit /\ [][ListNext]_listVars

-----------------------------------------------------------------------------
(* Properties *)

\* Nobody is shown with more CPU than the process that is there now has used
\* since its pid was read last, whatever process was read then; one that was
\* there is shown with all of it.
ReadsItsOwn ==
  \A pid \in DOMAIN raw' \ DOMAIN raw :
    raw'[pid].cpu <= fresh[pid] /\ (pid \in known => raw'[pid].cpu = fresh[pid])
CpuIsItsOwn == [][ReadsItsOwn]_listVars

\* Parents that lead back to where they started, read before and after a change, or
\* further than is followed.
Endless(list, pid) == LET end == Chain(list, pid)[Hops] IN Up(list, end) # end

\* While no chain of parents is longer than is followed, or leads back, a process
\* is in the group of its parent if both run the same program, and the group has
\* its root.  The groups kept are the busiest of those there were, so nobody left
\* out is busier than a group that is shown.
GroupsAreWhole ==
  LET list == shown.list
      groups == shown.groups
      in(pid, root) == pid \in groups[root].members
  IN /\ (\A pid \in DOMAIN list : ~Endless(list, pid)) =>
          \A root \in DOMAIN groups :
            /\ in(root, root)
            /\ \A pid \in DOMAIN list : in(pid, root) <=> in(Up(list, pid), root)
     /\ \A root \in DOMAIN groups, pid \in DOMAIN list :
          (\A r \in DOMAIN groups : ~in(pid, r)) =>
             /\ shown.found > Cardinality(DOMAIN groups)
             /\ list[pid].cpu <= groups[root].cpu
=============================================================================
