------------------------------ MODULE Domains ------------------------------
(***************************************************************************)
(* Hostnames: the automatic one a project gets on its first deploy, the    *)
(* custom one a user connects, their DNS records and the routes of the one *)
(* tunnel (src/src/server.rs, from reserve_domain to do_disconnect_domain  *)
(* and the end of do_delete_project; src/src/cloudflare.rs).               *)
(*                                                                         *)
(* The table is webo's, records and routes are Cloudflare's: a request     *)
(* makes one call at a time, each a step here, and the tunnel's routes are *)
(* read, merged and written back whole.                                    *)
(***************************************************************************)
EXTENDS Naturals, Sequences, SequencesExt, Lists

CONSTANTS
  ByName,      \* the slugs, in the order projects() lists them
  AutoHosts,   \* the hosts random_label draws, in the apps zone
  Named,       \* the hosts users ask for
  Zone,        \* the hosts one level below the apps zone (split_host)
  Foreign,     \* hosts somebody else routes through the tunnel
  NoHost, Elsewhere,
  Requests,    \* slots for requests in flight
  MaxRequests, \* bound: requests begun
  Faults,      \* "restart", "hangup", "store", "cloudflare", "record", "rule"
  MaxFaults    \* bound: faults that happen

ASSUME DomainNaming == /\ NoHost \notin AutoHosts \cup Named \cup Foreign
                       /\ AutoHosts \subseteq Zone
                       /\ ByName \in Seq(Range(ByName))
                       /\ {MaxRequests, MaxFaults} \subseteq Nat

Projects == Range(ByName)
Hosts == AutoHosts \cup Named
Services == Projects \cup {Elsewhere}

VARIABLES
  row,         \* table projects: there, auto_domain, custom_domain
  dns,         \* the zone: what a host's record points at
  ingress,     \* the tunnel's configuration, a sequence of rules
  req,         \* the requests in flight
  sync,        \* what sync_routes has read: the table's routes, the tunnel's rules
  holds,       \* the record a request found is still the one under its host
  begun,       \* requests begun so far
  left,        \* faults still to come
  unsure,      \* history: the last writes of the routes were disturbed
  released,    \* history: records taken away by an outsider or with a project
  asked        \* history: hosts that were to be somebody's custom domain

vars == <<row, dns, ingress, req, sync, holds, begun, left, unsure, released, asked>>

NoRow == [there |-> FALSE, auto |-> NoHost, custom |-> NoHost]
CatchAll == [host |-> NoHost, service |-> Elsewhere]    \* http_status:404
Rules == [host : Hosts \cup Foreign \cup {NoHost}, service : Services]
Records == {"none", "here", "tunnel", "address"}
Idle == [op |-> "idle", pc |-> "idle", project |-> Elsewhere, host |-> NoHost, next |-> NoHost]
Nothing == [routes |-> <<>>, seen |-> <<>>]

-----------------------------------------------------------------------------
(* The routes *)

Kept(h) == IF h = NoHost THEN <<>> ELSE <<h>>

\* Store::routes: every project's hosts, the automatic one first.
Routes(rows) ==
  FlattenSeq([i \in DOMAIN ByName |->
    LET p == ByName[i] hs == Kept(rows[p].auto) \o Kept(rows[p].custom)
    IN  [j \in DOMAIN hs |-> [host |-> hs[j], service |-> p]]])

Manages(routes, h) == \E i \in DOMAIN routes : routes[i].host = h

\* The rules that are kept: neither the catch-all nor for a host webo manages.
NotOurs(routes) == {x \in Rules : x.host # NoHost /\ ~Manages(routes, x.host)}

\* Mutant: what was there before is not looked at.
MergeIngress_Fresh(rules, routes) == Append(routes, CatchAll)

\* Mutant: a host's old rule stays in front of its new one.
MergeIngress_KeepsOld(rules, routes) ==
  Append(Only(rules, {x \in Rules : x.host # NoHost}) \o routes, CatchAll)

\* Mutant: the old catch-all is taken for somebody else's rule.
MergeIngress_KeepsCatchAll(rules, routes) ==
  Append(Only(rules, {x \in Rules : ~Manages(routes, x.host)}) \o routes, CatchAll)

\* merge_ingress
MergeIngress(rules, routes) == Append(Only(rules, NotOurs(routes)) \o routes, CatchAll)

-----------------------------------------------------------------------------
(* Requests *)

\* A request and the host it is about, for a deletion the next one too.
Begin(r, op, pc, p, h, next) ==
  /\ req[r].op = "idle" /\ begun < MaxRequests
  /\ begun' = begun + 1
  /\ req' = [req EXCEPT ![r] = [op |-> op, pc |-> pc, project |-> p, host |-> h, next |-> next]]
  /\ holds' = [holds EXCEPT ![r] = FALSE]

At(r, pc) == req[r].pc = pc
Turn(r, pc, h, next) ==
  req' = [req EXCEPT ![r] = [op |-> req[r].op, pc |-> pc, project |-> req[r].project,
                             host |-> h, next |-> next]]
Go(r, pc) == Turn(r, pc, req[r].host, req[r].next)
Done(r) == req' = [req EXCEPT ![r] = Idle]
Spend(f) == f \in Faults /\ left > 0 /\ left' = left - 1

\* Mutant: two projects may draw the same words.
FreeHosts_Any == {h \in AutoHosts : \A r \in Requests : req[r].op = "reserve" => req[r].host # h}

\* reserve_domain draws again while the host is taken.  Two draws in flight
\* are assumed to differ: there are 64^3 of them.
FreeHosts ==
  {h \in AutoHosts : /\ \A q \in Projects : row[q].auto # h
                     /\ \A r \in Requests : req[r].op = "reserve" => req[r].host # h}

\* The end of do_provision: the first deploy reserves the host, later ones
\* publish it again.
Reserve(r, p) ==
  /\ row[p].there
  /\ IF row[p].auto # NoHost
     THEN Begin(r, "reserve", "routes", p, row[p].auto, NoHost)
     ELSE \E h \in FreeHosts : Begin(r, "reserve", "post", p, h, NoHost)
  /\ UNCHANGED <<row, dns, ingress, sync, left, unsure, released, asked>>

\* do_connect_domain takes any hostname, an automatic one too.
Connect(r, p, h) ==
  /\ row[p].there
  /\ Begin(r, "connect", IF h \in Zone THEN "post" ELSE "store", p, h, NoHost)
  /\ asked' = asked \cup {h}
  /\ UNCHANGED <<row, dns, ingress, sync, left, unsure, released>>

\* The hosts delete_dns is called for: those in the zone.
InZone(h) == IF h \in Zone THEN h ELSE NoHost

\* do_disconnect_domain
Disconnect(r, p) ==
  /\ row[p].there
  /\ LET h == InZone(row[p].custom)
     IN  Begin(r, "disconnect", IF h = NoHost THEN "store" ELSE "find", p, h, NoHost)
  /\ UNCHANGED <<row, dns, ingress, sync, left, unsure, released, asked>>

\* do_delete_project, from its reading of the row on.
Delete(r, p) ==
  /\ row[p].there
  /\ LET first == InZone(row[p].auto)
         second == InZone(row[p].custom)
     IN  \/ first # NoHost /\ Begin(r, "delete", "find", p, first, second)
         \/ first = NoHost /\ second # NoHost /\ Begin(r, "delete", "find", p, second, NoHost)
         \/ first = NoHost /\ second = NoHost /\ Begin(r, "delete", "store", p, NoHost, NoHost)
  /\ UNCHANGED <<row, dns, ingress, sync, left, unsure, released, asked>>

-----------------------------------------------------------------------------
(* A record for the host: create_dns and repoint_dns *)

Points(h, to) == dns' = [dns EXCEPT ![h] = to]

\* The POST; "already exists" leads to repoint_dns.
PostRecord(r) ==
  /\ At(r, "post")
  /\ IF dns[req[r].host] = "none"
     THEN Points(req[r].host, "here") /\ Go(r, "store")
     ELSE Go(r, "look") /\ UNCHANGED dns
  /\ released' = released \ {req[r].host}
  /\ UNCHANGED <<row, ingress, sync, holds, begun, left, unsure, asked>>

\* Mutant: "already exists" is success, as it once was.
LookAtRecord_AnyWillDo(r) ==
  /\ At(r, "look") /\ Go(r, "store")
  /\ UNCHANGED <<row, dns, ingress, sync, holds, begun, left, unsure, released, asked>>

\* repoint_dns reads the record: ours already, somebody's tunnel, or not ours to move.
LookAtRecord(r) ==
  /\ At(r, "look")
  /\ LET there == dns[req[r].host]
     IN  /\ CASE there = "here"                -> Go(r, "store")
              [] there = "tunnel"              -> Go(r, "patch")
              [] there \in {"none", "address"} -> Done(r)
         /\ holds' = [holds EXCEPT ![r] = there = "tunnel"]
  /\ UNCHANGED <<row, dns, ingress, sync, begun, left, unsure, released, asked>>

\* The PATCH, by the id of the record that was read.
PatchRecord(r) ==
  /\ At(r, "patch")
  /\ IF holds[r]
     THEN Points(req[r].host, "here") /\ Go(r, "store")
     ELSE Done(r) /\ UNCHANGED dns
  /\ UNCHANGED <<row, ingress, sync, holds, begun, left, unsure, released, asked>>

\* A call for the record fails, applied or not: 502, or no automatic host.
RecordCallFails(r) ==
  /\ req[r].pc \in {"post", "look", "patch"} /\ Spend("cloudflare")
  /\ \/ UNCHANGED dns
     \/ /\ \/ At(r, "post") /\ dns[req[r].host] = "none"
           \/ At(r, "patch") /\ holds[r]
        /\ Points(req[r].host, "here")
  /\ Done(r)
  /\ UNCHANGED <<row, ingress, sync, holds, begun, unsure, released, asked>>

(* Taking the record away: delete_dns, for one host after the other *)

FindRecord(r) ==
  /\ At(r, "find") /\ Go(r, "erase")
  /\ holds' = [holds EXCEPT ![r] = dns[req[r].host] # "none"]
  /\ UNCHANGED <<row, dns, ingress, sync, begun, left, unsure, released, asked>>

NextHost(r) ==
  IF req[r].next = NoHost THEN Turn(r, "store", req[r].host, NoHost)
                          ELSE Turn(r, "find", req[r].next, NoHost)

\* The record under the host is another one from now on, or none.
NoLongerHeld(h) == holds' = [r \in Requests |-> holds[r] /\ req[r].host # h]

Erase(r) ==
  /\ Points(req[r].host, "none") /\ NoLongerHeld(req[r].host)
  /\ released' = IF req[r].op = "delete" THEN released \cup {req[r].host} ELSE released

\* The DELETE, by the id that was found; nothing found is nothing to do.
EraseRecord(r) ==
  /\ At(r, "erase") /\ NextHost(r)
  /\ IF holds[r] THEN Erase(r) ELSE UNCHANGED <<dns, holds, released>>
  /\ UNCHANGED <<row, ingress, sync, begun, left, unsure, asked>>

\* delete_dns fails unnoticed, applied or not.
EraseFails(r) ==
  /\ req[r].pc \in {"find", "erase"} /\ Spend("cloudflare") /\ NextHost(r)
  /\ \/ At(r, "erase") /\ holds[r] /\ Erase(r)
     \/ UNCHANGED <<dns, holds, released>>
  /\ UNCHANGED <<row, ingress, sync, begun, unsure, asked>>

-----------------------------------------------------------------------------
(* The row *)

\* Mutant: the last host reserved wins.
AutoBecomes_Last(old, h) == h

\* set_auto_domain_if_empty: COALESCE(auto_domain, ?1)
AutoBecomes(old, h) == IF old = NoHost THEN h ELSE old

\* The row after the request's write; an UPDATE of a row that is gone does nothing.
Stored(r) ==
  LET q == req[r] old == row[q.project]
  IN  CASE q.op = "delete" -> NoRow
        [] q.op # "delete" /\ ~old.there -> old
        [] q.op = "reserve" /\ old.there -> [there |-> TRUE, auto |-> AutoBecomes(old.auto, q.host), custom |-> old.custom]
        [] q.op = "connect" /\ old.there -> [there |-> TRUE, auto |-> old.auto, custom |-> q.host]
        [] q.op = "disconnect" /\ old.there -> [there |-> TRUE, auto |-> old.auto, custom |-> NoHost]

\* set_auto_domain_if_empty, set_custom_domain, delete_project
StoreRow(r) ==
  /\ At(r, "store")
  /\ row' = [row EXCEPT ![req[r].project] = Stored(r)]
  /\ Go(r, "routes")
  /\ UNCHANGED <<dns, ingress, sync, holds, begun, left, unsure, released, asked>>

\* The write fails unnoticed.
StoreFails(r) ==
  /\ At(r, "store") /\ Spend("store") /\ Go(r, "routes")
  /\ UNCHANGED <<row, dns, ingress, sync, holds, begun, unsure, released, asked>>

-----------------------------------------------------------------------------
(* sync_routes *)

ReadRoutes(r) ==
  /\ At(r, "routes") /\ Go(r, "get")
  /\ sync' = [sync EXCEPT ![r] = [routes |-> Routes(row), seen |-> <<>>]]
  /\ UNCHANGED <<row, dns, ingress, holds, begun, left, unsure, released, asked>>

GetIngress(r) ==
  /\ At(r, "get") /\ Go(r, "put")
  /\ sync' = [sync EXCEPT ![r] = [routes |-> sync[r].routes, seen |-> ingress]]
  /\ UNCHANGED <<row, dns, ingress, holds, begun, left, unsure, released, asked>>

Merged(r) == MergeIngress(sync[r].seen, sync[r].routes)
SyncEnds(r) == Done(r) /\ sync' = [sync EXCEPT ![r] = Nothing]

PutIngress(r) ==
  /\ At(r, "put") /\ ingress' = Merged(r) /\ SyncEnds(r)
  /\ unsure' = ~(sync[r].seen = ingress /\ sync[r].routes = Routes(row))
  /\ UNCHANGED <<row, dns, holds, begun, left, released, asked>>

\* The routes cannot be read, or their write fails, applied or not: nobody is told.
SyncFails(r) ==
  /\ req[r].pc \in {"get", "put"} /\ Spend("cloudflare")
  /\ \/ UNCHANGED ingress
     \/ At(r, "put") /\ ingress' = Merged(r)
  /\ unsure' = TRUE /\ SyncEnds(r)
  /\ UNCHANGED <<row, dns, holds, begun, released, asked>>

-----------------------------------------------------------------------------
(* Around the requests *)

\* The wizard or discovery writes the project's row.
Register(p) ==
  /\ ~row[p].there
  /\ row' = [row EXCEPT ![p] = [there |-> TRUE, auto |-> NoHost, custom |-> NoHost]]
  /\ UNCHANGED <<dns, ingress, sync, req, holds, begun, left, unsure, released, asked>>

\* The caller closes the connection: the call under way ends, the handler does not go on.
HangUp(r) ==
  /\ At(r, "store") /\ Spend("hangup") /\ Done(r)
  /\ UNCHANGED <<row, dns, ingress, sync, holds, begun, unsure, released, asked>>

Restart ==
  /\ Spend("restart")
  /\ req' = [r \in Requests |-> Idle] /\ sync' = [r \in Requests |-> Nothing]
  /\ unsure' = (unsure \/ \E r \in Requests : req[r].pc \in {"routes", "get", "put"})
  /\ UNCHANGED <<row, dns, ingress, holds, begun, released, asked>>

\* Somebody edits the zone by hand: the record is another one.
OutsiderMovesRecord(h, to) ==
  /\ Spend("record") /\ dns[h] # to
  /\ Points(h, to) /\ released' = released \cup {h}
  /\ NoLongerHeld(h)
  /\ UNCHANGED <<row, ingress, sync, req, begun, unsure, asked>>

\* Somebody adds a route to the tunnel.
OutsiderAddsRule(h) ==
  /\ Spend("rule")
  /\ ingress' = <<[host |-> h, service |-> Elsewhere]>> \o ingress
  /\ UNCHANGED <<row, dns, sync, req, holds, begun, unsure, released, asked>>

Init ==
  /\ row = [p \in Projects |-> NoRow]
  /\ dns = [h \in Hosts \cap Zone |-> "none"]
  /\ ingress = <<CatchAll>>
  /\ req = [r \in Requests |-> Idle] /\ sync = [r \in Requests |-> Nothing]
  /\ holds = [r \in Requests |-> FALSE]
  /\ begun = 0 /\ left = MaxFaults
  /\ unsure = FALSE /\ released = {} /\ asked = {}

Begins(r) ==
  \E p \in Projects :
    \/ Reserve(r, p) \/ Disconnect(r, p) \/ Delete(r, p)
    \/ \E h \in Named : Connect(r, p, h)

Steps(r) ==
  \/ PostRecord(r) \/ LookAtRecord(r) \/ PatchRecord(r) \/ RecordCallFails(r)
  \/ FindRecord(r) \/ EraseRecord(r) \/ EraseFails(r)
  \/ StoreRow(r) \/ StoreFails(r) \/ HangUp(r)
  \/ ReadRoutes(r) \/ GetIngress(r) \/ PutIngress(r) \/ SyncFails(r)

Outside ==
  \/ \E h \in Hosts \cap Zone, to \in Records : OutsiderMovesRecord(h, to)
  \/ \E h \in Foreign : OutsiderAddsRule(h)

Next ==
  \/ \E r \in Requests : Begins(r) \/ Steps(r)
  \/ \E p \in Projects : Register(p)
  \/ Restart \/ Outside

Spec == Init /\ [][Next]_vars

-----------------------------------------------------------------------------
(* What is checked *)

Ops == {"idle", "reserve", "connect", "disconnect", "delete"}
Counters == {"idle", "post", "look", "patch", "find", "erase", "store", "routes", "get", "put"}
Requested == [op : Ops, pc : Counters, project : Services,
              host : Hosts \cup {NoHost}, next : Hosts \cup {NoHost}]
Rows == [there : BOOLEAN, auto : AutoHosts \cup {NoHost}, custom : Named \cup {NoHost}]

\* The state is of its type, and the catch-all is the tunnel's last rule and
\* no other (merge_ingress).
TypeOK ==
  /\ row \in [Projects -> Rows]
  /\ dns \in [Hosts \cap Zone -> Records]
  /\ req \in [Requests -> Requested]
  /\ sync \in [Requests -> [routes : Seq(Rules), seen : Seq(Rules)]]
  /\ holds \in [Requests -> BOOLEAN]
  /\ asked \subseteq Named
  /\ ingress \in Seq(Rules) /\ begun \in 0..MaxRequests /\ left \in 0..MaxFaults
  /\ \A i \in DOMAIN ingress : ingress[i].host = NoHost <=> i = Len(ingress)

\* A project's automatic host is reserved once: while the project exists it
\* never changes, however many deploys reserve at the same time
\* (set_auto_domain_if_empty).
AutoNeverChanges ==
  [][\A p \in Projects : row[p].there /\ row'[p].there /\ row[p].auto # NoHost =>
        row'[p].auto = row[p].auto]_vars

\* No two projects have the same automatic host (the draws of reserve_domain).
AutoHostsAreDistinct ==
  \A p, q \in Projects : p # q /\ row[p].auto = row[q].auto => row[p].auto = NoHost

\* The host resolves to this tunnel, unless an outsider moved its record or a
\* deletion of a project took it.
Resolves(h) == dns[h] = "here" \/ h \in released

\* What agents are told: connecting and disconnecting never touch the automatic
\* domain, which "still works" afterwards (connect_domain).
AutoStillWorks == \A p \in Projects : row[p].auto # NoHost => Resolves(row[p].auto)

\* An automatic host is one project's and leads to it from the moment it is
\* stored (reserve_domain; create_dns before set_auto_domain_if_empty), whatever
\* is connected, disconnected and deleted, unless it was itself to be a custom
\* domain: nothing keeps the two apart.
AutoHostIsItsOwn ==
  /\ AutoHostsAreDistinct
  /\ \A p \in Projects : row[p].auto \notin asked \cup {NoHost} => Resolves(row[p].auto)

\* When no request is under way and the last write of the routes was not
\* disturbed, every host of every project has a route, and its first rule
\* leads to a project that has it (sync_routes, merge_ingress).
HostsAreServed ==
  (\A r \in Requests : req[r].op = "idle") /\ ~unsure =>
    \A h \in Hosts :
      LET holders == {p \in Projects : h \in {row[p].auto, row[p].custom}}
          rules == {i \in DOMAIN ingress : ingress[i].host = h}
      IN  holders # {} =>
            \E i \in rules : (\A j \in rules : i <= j) /\ ingress[i].service \in holders

\* The routes are whole: of their type, with the catch-all as their last rule
\* and no other, and a rule for every host (merge_ingress).
RoutesAreWhole == TypeOK /\ HostsAreServed

\* A write of the routes that nobody overtook leaves the rules of other hosts
\* as they were, in their order (merge_ingress).
ForeignRulesStay ==
  [][\A r \in Requests : At(r, "put") /\ req'[r].pc = "idle" /\ sync[r].seen = ingress =>
       Only(ingress', NotOurs(sync[r].routes)) = Only(ingress, NotOurs(sync[r].routes))]_vars
=============================================================================
