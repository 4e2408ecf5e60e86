--------------------------- MODULE Domains_proofs ---------------------------
(***************************************************************************)
(* The automatic host of a project: no other project has it, it never      *)
(* changes, and it resolves to the tunnel.  A host passes from the draw    *)
(* through the request that makes its record to the row; the invariant     *)
(* follows it on that way (Drawn, Works).                                  *)
(*                                                                         *)
(* The routes of the tunnel: written undisturbed they serve every host of  *)
(* every project, and they keep everybody else's rules (RoutesInv).        *)
(***************************************************************************)
EXTENDS Domains, Lists_proofs

\* A request that is making the record of a host it has drawn.
Draws(q) == q.op = "reserve" /\ q.pc \in {"post", "look", "patch", "store"}

\* What a request's step says of its operation and its host.
Places(q) ==
  /\ q.pc # "idle" => q.op # "idle" /\ q.project \in Projects
  /\ q.pc \in {"post", "look", "patch"} => q.op \in {"reserve", "connect"} /\ q.host \in Hosts \cap Zone
  /\ q.pc \in {"find", "erase"} => q.op \in {"disconnect", "delete"} /\ q.host \in Hosts \cap Zone
  /\ q.op = "connect" => q.host \in Named
  /\ q.op = "disconnect" => q.host \in Named \cup {NoHost} /\ q.next = NoHost
  /\ q.next \in Zone \cup {NoHost}

Typed ==
  /\ row \in [Projects -> Rows]
  /\ dns \in [Hosts \cap Zone -> Records]
  /\ req \in [Requests -> Requested]

Placed == \A r \in Requests : Places(req[r])

\* A host being reserved is nobody else's.
Drawn ==
  \A r \in Requests : Draws(req[r]) =>
    /\ req[r].host \in AutoHosts
    /\ \A p \in Projects : row[p].auto # req[r].host
    /\ \A s \in Requests \ {r} : req[s].op = "reserve" => req[s].host # req[r].host

DrawInv == Typed /\ Placed /\ Drawn /\ AutoHostsAreDistinct

USE DEF Ops, Counters, Records

LEMMA DrawInit == Init => DrawInv
BY DomainNaming DEF Init, DrawInv, Typed, Placed, Places, Drawn, Draws, AutoHostsAreDistinct, NoRow,
  Idle, Rows, Requested, Services

\* What a request may become without drawing a host.
Follows(q, old) ==
  /\ q \in Requested /\ Places(q)
  /\ q.op = "reserve" => old.op = "reserve" /\ q.host = old.host
  /\ Draws(q) => Draws(old)

\* A step that changes one request and no row keeps the draws apart.
LEMMA RequestMoves ==
  ASSUME DrawInv, NEW r \in Requests, NEW q, Follows(q, req[r]), req' = [req EXCEPT ![r] = q],
         UNCHANGED row, dns' \in [Hosts \cap Zone -> Records]
  PROVE  DrawInv'
<1>1. \A s \in Requests : req'[s] = IF s = r THEN q ELSE req[s]
  BY DEF DrawInv, Typed
<1>2. Typed'
  BY DEF DrawInv, Typed, Follows
<1>3. Placed'
  BY <1>1 DEF DrawInv, Placed, Follows
<1>4. Drawn'
  <2> SUFFICES ASSUME NEW s \in Requests, Draws(req'[s])
               PROVE  /\ req'[s].host \in AutoHosts
                      /\ \A p \in Projects : row'[p].auto # req'[s].host
                      /\ \A t \in Requests \ {s} : req'[t].op = "reserve" => req'[t].host # req'[s].host
    BY DEF Drawn, Draws
  <2>1. /\ Draws(req[s]) /\ req'[s].host = req[s].host
    BY <1>1 DEF Follows, Draws
  <2>2. \A t \in Requests : req'[t].op = "reserve" => req[t].op = "reserve" /\ req'[t].host = req[t].host
    BY <1>1 DEF Follows
  <2>3. QED  BY <2>1, <2>2 DEF DrawInv, Drawn
<1>5. AutoHostsAreDistinct'
  BY DEF DrawInv, AutoHostsAreDistinct
<1>6. QED  BY <1>2, <1>3, <1>4, <1>5 DEF DrawInv

LEMMA IdleFollows == \A old : Follows(Idle, old)
BY DomainNaming DEF Follows, Idle, Places, Draws, Requested, Services

\* A request that goes on to a step of the same kind.
LEMMA GoFollows ==
  ASSUME DrawInv, NEW r \in Requests, req[r].pc # "idle", NEW pc \in Counters,
         pc \in {"look", "patch", "store"} => req[r].pc \in {"post", "look", "patch"},
         pc \in {"post", "find"} => FALSE,
         pc = "erase" => req[r].pc = "find",
         Go(r, pc)
  PROVE  \E q : Follows(q, req[r]) /\ req' = [req EXCEPT ![r] = q]
<1> DEFINE q == [op |-> req[r].op, pc |-> pc, project |-> req[r].project,
                 host |-> req[r].host, next |-> req[r].next]
<1>1. req[r] \in Requested /\ Places(req[r])
  BY DEF DrawInv, Typed, Placed
<1>2. q \in Requested
  BY <1>1 DEF Requested
<1>3. Places(q)
  BY <1>1 DEF Places
<1>4. Draws(q) => Draws(req[r])
  BY DEF Draws
<1>5. req' = [req EXCEPT ![r] = q]
  BY DEF Go, Turn
<1>6. QED  BY <1>2, <1>3, <1>4, <1>5 DEF Follows

LEMMA ReserveKeeps ==
  ASSUME DrawInv, NEW r \in Requests, NEW p \in Projects, Reserve(r, p)
  PROVE  DrawInv'
<1>1. UNCHANGED <<row, dns>> /\ row[p] \in Rows
  BY DEF Reserve, DrawInv, Typed
<1>2. PICK pc \in {"routes", "post"}, h \in AutoHosts :
        /\ Begin(r, "reserve", pc, p, h, NoHost)
        /\ pc = "routes" => h = row[p].auto
        /\ pc = "post" => h \in FreeHosts
  BY <1>1 DEF Reserve, FreeHosts, Rows
<1> DEFINE q == [op |-> "reserve", pc |-> pc, project |-> p, host |-> h, next |-> NoHost]
<1>3. \A s \in Requests : req'[s] = IF s = r THEN q ELSE req[s]
  BY <1>2 DEF DrawInv, Typed, Begin
<1>4. Typed'
  <2>1. q \in Requested
    BY DEF Requested, Hosts, Services
  <2>2. QED  BY <1>1, <1>2, <2>1 DEF DrawInv, Typed, Begin
<1>5. Placed'
  <2>1. Places(q)
    BY DomainNaming DEF Places, Hosts
  <2>2. QED  BY <1>3, <2>1 DEF DrawInv, Placed
<1>6. Drawn'
  <2> SUFFICES ASSUME NEW s \in Requests, Draws(req'[s])
               PROVE  /\ req'[s].host \in AutoHosts
                      /\ \A t \in Projects : row'[t].auto # req'[s].host
                      /\ \A t \in Requests \ {s} : req'[t].op = "reserve" => req'[t].host # req'[s].host
    BY DEF Drawn, Draws
  <2>1. CASE s = r
    <3>1. pc = "post" /\ req'[s].host = h
      BY <1>3, <2>1 DEF Draws
    <3>2. QED  BY <1>1, <1>2, <1>3, <2>1, <3>1 DEF FreeHosts
  <2>2. CASE s # r
    <3>1. Draws(req[s]) /\ req'[s] = req[s]
      BY <1>3, <2>2
    <3>2. req[s].host # h
      BY <1>2, <3>1 DEF DrawInv, Drawn, FreeHosts, Draws
    <3>3. QED  BY <1>1, <1>3, <2>2, <3>1, <3>2 DEF DrawInv, Drawn
  <2>3. QED  BY <2>1, <2>2
<1>7. AutoHostsAreDistinct'
  BY <1>1 DEF DrawInv, AutoHostsAreDistinct
<1>8. QED  BY <1>4, <1>5, <1>6, <1>7 DEF DrawInv

LEMMA OthersBegin ==
  ASSUME DrawInv, NEW r \in Requests, NEW p \in Projects,
         \/ Disconnect(r, p) \/ Delete(r, p) \/ \E h \in Named : Connect(r, p, h)
  PROVE  DrawInv' /\ UNCHANGED <<row, dns, released>>
<1>1. row[p] \in Rows
  BY DEF DrawInv, Typed
<1>2. UNCHANGED <<row, dns, released>>
  BY DEF Disconnect, Delete, Connect
<1>3. \E q : Follows(q, req[r]) /\ req' = [req EXCEPT ![r] = q]
  <2>1. CASE \E h \in Named : Connect(r, p, h)
    <3>1. PICK h \in Named : Connect(r, p, h)
      BY <2>1
    <3> DEFINE q == [op |-> "connect", pc |-> IF h \in Zone THEN "post" ELSE "store", project |-> p,
                     host |-> h, next |-> NoHost]
    <3>2. q \in Requested
      BY DEF Requested, Hosts, Services
    <3>3. Places(q) /\ ~Draws(q)
      BY DEF Places, Draws, Hosts
    <3>4. req' = [req EXCEPT ![r] = q]
      BY <3>1 DEF Connect, Begin
    <3>5. QED  BY <3>2, <3>3, <3>4 DEF Follows
  <2>2. CASE Disconnect(r, p)
    <3> DEFINE h == InZone(row[p].custom)
               q == [op |-> "disconnect", pc |-> IF h = NoHost THEN "store" ELSE "find", project |-> p,
                     host |-> h, next |-> NoHost]
    <3>1. h \in Named \cup {NoHost} /\ h \in Zone \cup {NoHost}
      BY <1>1 DEF InZone, Rows
    <3>2. q \in Requested
      BY <3>1 DEF Requested, Hosts, Services
    <3>3. Places(q) /\ ~Draws(q)
      BY <3>1 DEF Places, Draws, Hosts
    <3>4. req' = [req EXCEPT ![r] = q]
      BY <2>2 DEF Disconnect, Begin
    <3>5. QED  BY <3>2, <3>3, <3>4 DEF Follows
  <2>3. CASE Delete(r, p)
    <3>1. PICK pc \in {"find", "store"}, h \in (Hosts \cap Zone) \cup {NoHost}, n \in (Hosts \cap Zone) \cup {NoHost} :
            Begin(r, "delete", pc, p, h, n) /\ (pc = "find" => h # NoHost)
      BY <1>1, <2>3 DEF Delete, InZone, Rows, Hosts
    <3> DEFINE q == [op |-> "delete", pc |-> pc, project |-> p, host |-> h, next |-> n]
    <3>2. q \in Requested
      BY DEF Requested, Services
    <3>3. Places(q) /\ ~Draws(q)
      BY <3>1 DEF Places, Draws
    <3>4. req' = [req EXCEPT ![r] = q]
      BY <3>1 DEF Begin
    <3>5. QED  BY <3>2, <3>3, <3>4 DEF Follows
  <2>4. QED  BY <2>1, <2>2, <2>3
<1>4. dns' \in [Hosts \cap Zone -> Records]
  BY <1>2 DEF DrawInv, Typed
<1>5. QED  BY <1>2, <1>3, <1>4, RequestMoves

\* The steps of a request that leave the rows alone.
LEMMA StepsOn ==
  ASSUME DrawInv, NEW r \in Requests, Steps(r), ~StoreRow(r)
  PROVE  DrawInv' /\ UNCHANGED row /\ \E q : req' = [req EXCEPT ![r] = q]
<1>1. UNCHANGED row
  BY DEF Steps, PostRecord, LookAtRecord, PatchRecord, RecordCallFails, FindRecord, EraseRecord,
    EraseFails, StoreFails, HangUp, ReadRoutes, GetIngress, PutIngress, SyncFails
<1>2. req[r] \in Requested /\ Places(req[r])
  BY DEF DrawInv, Typed, Placed
<1>3. dns' \in [Hosts \cap Zone -> Records]
  <2>1. dns' = dns \/ dns' = [dns EXCEPT ![req[r].host] = "here"] \/ dns' = [dns EXCEPT ![req[r].host] = "none"]
    BY DEF Steps, PostRecord, LookAtRecord, PatchRecord, RecordCallFails, FindRecord, EraseRecord,
      EraseFails, StoreFails, HangUp, ReadRoutes, GetIngress, PutIngress, SyncFails, Points, Erase
  <2>2. QED  BY <2>1 DEF DrawInv, Typed
<1>4. \E q : Follows(q, req[r]) /\ req' = [req EXCEPT ![r] = q]
  <2>1. CASE Done(r)
    BY <2>1, IdleFollows DEF Done
  <2>2. CASE PostRecord(r) /\ ~Done(r)
    <3>1. \E pc \in {"look", "store"} : Go(r, pc) /\ req[r].pc = "post"
      BY <2>2 DEF PostRecord, At
    <3>2. QED  BY <3>1, GoFollows
  <2>3. CASE LookAtRecord(r) /\ ~Done(r)
    <3>1. req[r].host \in Hosts \cap Zone /\ req[r].pc = "look"
      BY <1>2, <2>3 DEF LookAtRecord, At, Places
    <3>2. dns[req[r].host] \in Records
      BY <3>1 DEF DrawInv, Typed
    <3>3. \E pc \in {"patch", "store"} : Go(r, pc)
      BY <2>3, <3>2 DEF LookAtRecord
    <3>4. QED  BY <3>1, <3>3, GoFollows
  <2>4. CASE PatchRecord(r) /\ ~Done(r)
    BY <2>4, GoFollows DEF PatchRecord, At
  <2>5. CASE FindRecord(r)
    BY <2>5, GoFollows DEF FindRecord, At
  <2>6. CASE EraseRecord(r) \/ EraseFails(r)
    <3>1. req[r].pc \in {"find", "erase"} /\ NextHost(r)
      BY <2>6 DEF EraseRecord, EraseFails, At
    <3>2. PICK pc \in {"store", "find"}, h \in Hosts \cap Zone :
            /\ Turn(r, pc, h, NoHost)
            /\ pc = "store" => h = req[r].host
            /\ pc = "find" => req[r].next # NoHost
      BY <1>2, <3>1 DEF NextHost, Places, Requested
    <3> DEFINE q == [op |-> req[r].op, pc |-> pc, project |-> req[r].project, host |-> h, next |-> NoHost]
    <3>3. q \in Requested
      BY <1>2 DEF Requested
    <3>4. Places(q) /\ ~Draws(q) /\ q.op # "reserve"
      BY <1>2, <3>1, <3>2 DEF Places, Draws
    <3>5. req' = [req EXCEPT ![r] = q]
      BY <3>2 DEF Turn
    <3>6. QED  BY <3>3, <3>4, <3>5 DEF Follows
  <2>7. CASE StoreFails(r)
    BY <2>7, GoFollows DEF StoreFails, At
  <2>8. CASE ReadRoutes(r)
    BY <2>8, GoFollows DEF ReadRoutes, At
  <2>9. CASE GetIngress(r)
    BY <2>9, GoFollows DEF GetIngress, At
  <2>10. CASE RecordCallFails(r) \/ HangUp(r) \/ PutIngress(r) \/ SyncFails(r)
    BY <2>1, <2>10 DEF RecordCallFails, HangUp, PutIngress, SyncFails, SyncEnds
  <2>11. QED
    BY <2>1, <2>2, <2>3, <2>4, <2>5, <2>6, <2>7, <2>8, <2>9, <2>10 DEF Steps
<1>5. QED  BY <1>1, <1>3, <1>4, RequestMoves

\* What the write of a request makes of its row: an automatic host comes from
\* the request's draw, and only where there was none.
LEMMA StoredRow ==
  ASSUME DrawInv, NEW r \in Requests, StoreRow(r)
  PROVE  /\ req[r].project \in Projects /\ Stored(r) \in Rows
         /\ row' = [row EXCEPT ![req[r].project] = Stored(r)]
         /\ \/ Stored(r).auto \in {NoHost, row[req[r].project].auto}
            \/ /\ Draws(req[r]) /\ row[req[r].project].auto = NoHost
               /\ Stored(r).auto = req[r].host
         /\ row[req[r].project].auto # NoHost /\ Stored(r).there
              => Stored(r).auto = row[req[r].project].auto
<1>1. req[r] \in Requested /\ Places(req[r]) /\ req[r].pc = "store"
  BY DEF DrawInv, Typed, Placed, StoreRow, At
<1>2. req[r].project \in Projects /\ row[req[r].project] \in Rows
  BY <1>1 DEF Places, DrawInv, Typed
<1>3. row' = [row EXCEPT ![req[r].project] = Stored(r)]
  BY DEF StoreRow
<1>4. Draws(req[r]) => req[r].host \in AutoHosts
  BY DEF DrawInv, Drawn
<1> DEFINE old == row[req[r].project]
<1>5. /\ Stored(r) \in Rows
      /\ \/ Stored(r).auto \in {NoHost, old.auto}
         \/ Draws(req[r]) /\ old.auto = NoHost /\ Stored(r).auto = req[r].host
      /\ old.auto # NoHost /\ Stored(r).there => Stored(r).auto = old.auto
  <2>1. CASE req[r].op = "delete"
    BY <2>1 DEF Stored, NoRow, Rows
  <2>2. CASE req[r].op # "delete" /\ ~old.there
    BY <1>2, <2>2 DEF Stored
  <2>3. CASE req[r].op = "reserve" /\ old.there
    <3>1. Draws(req[r])
      BY <1>1, <2>3 DEF Draws
    <3>2. Stored(r) = [there |-> TRUE, auto |-> AutoBecomes(old.auto, req[r].host), custom |-> old.custom]
      BY <2>3 DEF Stored
    <3>3. AutoBecomes(old.auto, req[r].host) \in AutoHosts \cup {NoHost}
      BY <1>2, <1>4, <3>1 DEF AutoBecomes, Rows
    <3>4. QED  BY <1>2, <3>1, <3>2, <3>3 DEF Rows, AutoBecomes
  <2>4. CASE req[r].op = "connect" /\ old.there
    <3>1. Stored(r) = [there |-> TRUE, auto |-> old.auto, custom |-> req[r].host] /\ req[r].host \in Named
      BY <1>1, <2>4 DEF Stored, Places
    <3>2. QED  BY <1>2, <3>1 DEF Rows
  <2>5. CASE req[r].op = "disconnect" /\ old.there
    <3>1. Stored(r) = [there |-> TRUE, auto |-> old.auto, custom |-> NoHost]
      BY <2>5 DEF Stored
    <3>2. QED  BY <1>2, <3>1 DEF Rows
  <2>6. QED  BY <1>1, <2>1, <2>2, <2>3, <2>4, <2>5 DEF Requested, Places
<1>6. QED  BY <1>2, <1>3, <1>5

LEMMA StoreKeeps ==
  ASSUME DrawInv, NEW r \in Requests, StoreRow(r)
  PROVE  DrawInv'
<1> DEFINE p == req[r].project
           q == [op |-> req[r].op, pc |-> "routes", project |-> p, host |-> req[r].host, next |-> req[r].next]
<1>1. /\ p \in Projects /\ Stored(r) \in Rows
      /\ \A t \in Projects : row'[t] = IF t = p THEN Stored(r) ELSE row[t]
      /\ row' \in [Projects -> Rows]
  BY StoredRow DEF DrawInv, Typed
<1>2. req' = [req EXCEPT ![r] = q] /\ \A s \in Requests : req'[s] = IF s = r THEN q ELSE req[s]
  BY DEF StoreRow, Go, Turn, DrawInv, Typed
<1>3. q \in Requested /\ Places(q) /\ ~Draws(q)
  <2>1. req[r] \in Requested /\ Places(req[r]) /\ req[r].pc = "store"
    BY DEF DrawInv, Typed, Placed, StoreRow, At
  <2>2. QED  BY <2>1 DEF Requested, Places, Draws
<1>4. Typed'
  BY <1>1, <1>2, <1>3 DEF DrawInv, Typed, StoreRow
<1>5. Placed'
  BY <1>2, <1>3 DEF DrawInv, Placed
\* The stored host is the request's own, the old one, or none.
<1>6. \A t \in Projects :
        \/ row'[t].auto \in {NoHost, row[t].auto}
        \/ t = p /\ Draws(req[r]) /\ row[t].auto = NoHost /\ row'[t].auto = req[r].host
  <2>1. \/ Stored(r).auto \in {NoHost, row[p].auto}
        \/ Draws(req[r]) /\ row[p].auto = NoHost /\ Stored(r).auto = req[r].host
    BY StoredRow
  <2>2. row'[p] = Stored(r) /\ \A t \in Projects \ {p} : row'[t] = row[t]
    BY <1>1
  <2> TAKE t \in Projects
  <2>3. CASE t = p
    BY <2>1, <2>2, <2>3
  <2>4. CASE t # p
    BY <2>2, <2>4
  <2>5. QED  BY <2>3, <2>4
<1>7. Drawn'
  <2> SUFFICES ASSUME NEW s \in Requests, Draws(req'[s])
               PROVE  /\ req'[s].host \in AutoHosts
                      /\ \A t \in Projects : row'[t].auto # req'[s].host
                      /\ \A t \in Requests \ {s} : req'[t].op = "reserve" => req'[t].host # req'[s].host
    BY DEF Drawn, Draws
  <2>1. s # r /\ req'[s] = req[s] /\ Draws(req[s]) /\ req[s].host \in AutoHosts
    BY <1>2, <1>3 DEF DrawInv, Drawn
  <2>2. req[s].host # NoHost
    BY <2>1, DomainNaming
  <2>3. Draws(req[r]) => req[r].host # req[s].host
    BY <2>1 DEF DrawInv, Drawn, Draws
  <2>4. \A t \in Projects : row[t].auto # req[s].host
    BY <2>1 DEF DrawInv, Drawn
  <2>5. \A t \in Projects : row'[t].auto # req[s].host
    BY <1>6, <2>2, <2>3, <2>4
  <2>6. \A t \in Requests \ {s} : req'[t].op = "reserve" => req'[t].host # req[s].host
    BY <1>2, <2>1 DEF DrawInv, Drawn
  <2>7. QED  BY <2>1, <2>5, <2>6
<1>8. AutoHostsAreDistinct'
  <2> SUFFICES ASSUME NEW t \in Projects, NEW u \in Projects, t # u,
                      row'[t].auto = row'[u].auto, row'[t].auto # NoHost
               PROVE  FALSE
    BY DEF AutoHostsAreDistinct
  <2>1. CASE row'[t].auto = row[t].auto /\ row'[u].auto = row[u].auto
    BY <2>1 DEF DrawInv, AutoHostsAreDistinct
  <2>2. CASE row'[t].auto # row[t].auto \/ row'[u].auto # row[u].auto
    <3>1. Draws(req[r]) /\ row'[t].auto = req[r].host /\ \E v \in {t, u} : row[v].auto = req[r].host
      BY <1>6, <2>2
    <3>2. QED  BY <3>1 DEF DrawInv, Drawn
  <2>3. QED  BY <2>1, <2>2
<1>9. QED  BY <1>4, <1>5, <1>7, <1>8 DEF DrawInv

LEMMA RegisterKeeps ==
  ASSUME DrawInv, NEW p \in Projects, Register(p)
  PROVE  DrawInv' /\ UNCHANGED <<dns, released, req>>
<1>1. /\ UNCHANGED <<dns, released, req>>
      /\ row' = [row EXCEPT ![p] = [there |-> TRUE, auto |-> NoHost, custom |-> NoHost]]
  BY DEF Register
<1>2. \A t \in Projects : row'[t] = IF t = p THEN [there |-> TRUE, auto |-> NoHost, custom |-> NoHost] ELSE row[t]
  BY <1>1 DEF DrawInv, Typed
<1>3. Typed'
  <2>1. [there |-> TRUE, auto |-> NoHost, custom |-> NoHost] \in Rows
    BY DEF Rows
  <2>2. QED  BY <1>1, <2>1 DEF DrawInv, Typed
<1>4. Placed'
  BY <1>1 DEF DrawInv, Placed
<1>5. Drawn'
  BY <1>1, <1>2, DomainNaming DEF DrawInv, Drawn
<1>6. AutoHostsAreDistinct'
  BY <1>2 DEF DrawInv, AutoHostsAreDistinct
<1>7. QED  BY <1>1, <1>3, <1>4, <1>5, <1>6 DEF DrawInv

LEMMA AroundKeeps ==
  ASSUME DrawInv, Restart \/ Outside
  PROVE  DrawInv' /\ UNCHANGED row
<1>1. CASE Restart
  <2>1. req' = [r \in Requests |-> Idle] /\ UNCHANGED <<row, dns>>
    BY <1>1 DEF Restart
  <2>2. Idle \in Requested /\ Places(Idle) /\ ~Draws(Idle)
    BY IdleFollows DEF Follows, Draws, Idle
  <2>3. \A r \in Requests : req'[r] = Idle
    BY <2>1
  <2>4. Typed'
    BY <2>1, <2>2 DEF DrawInv, Typed
  <2>5. Placed' /\ Drawn'
    BY <2>2, <2>3 DEF Placed, Drawn
  <2>6. QED  BY <2>1, <2>4, <2>5 DEF DrawInv, AutoHostsAreDistinct
<1>2. CASE Outside
  <2>1. UNCHANGED <<row, req>> /\ dns' \in [Hosts \cap Zone -> Records]
    BY <1>2 DEF Outside, OutsiderMovesRecord, OutsiderAddsRule, Points, DrawInv, Typed
  <2>2. QED  BY <2>1 DEF DrawInv, Typed, Placed, Drawn, AutoHostsAreDistinct
<1>3. QED  BY <1>1, <1>2

LEMMA DrawStep == DrawInv /\ [Next]_vars => DrawInv'
<1> SUFFICES ASSUME DrawInv, [Next]_vars PROVE DrawInv'
  OBVIOUS
<1>1. ASSUME NEW r \in Requests, Begins(r) PROVE DrawInv'
  BY <1>1, ReserveKeeps, OthersBegin DEF Begins
<1>2. ASSUME NEW r \in Requests, Steps(r) PROVE DrawInv'
  BY <1>2, StepsOn, StoreKeeps
<1>3. CASE UNCHANGED vars
  BY <1>3 DEF vars, DrawInv, Typed, Placed, Drawn, AutoHostsAreDistinct
<1>4. QED  BY <1>1, <1>2, <1>3, RegisterKeeps, AroundKeeps DEF Next

-----------------------------------------------------------------------------

\* The draws are apart in every reachable state.
THEOREM DrawsApart == Spec => []DrawInv
BY DrawInit, DrawStep, PTL DEF Spec

\* Whatever deploys are under way, no two projects have the same automatic
\* host (reserve_domain reads the hosts taken before it draws).
THEOREM DistinctHosts == Spec => []AutoHostsAreDistinct
<1>1. DrawInv => AutoHostsAreDistinct
  BY DEF DrawInv
<1>2. QED  BY <1>1, DrawsApart, PTL

\* However many deploys of a project reserve a host at the same time, the one
\* stored first stays while the project exists (set_auto_domain_if_empty).
THEOREM HostStays == Spec => AutoNeverChanges
<1> DEFINE Stays == \A p \in Projects : row[p].there /\ row'[p].there /\ row[p].auto # NoHost =>
                       row'[p].auto = row[p].auto
<1>1. DrawInv /\ [Next]_vars => [Stays]_vars
  <2> SUFFICES ASSUME DrawInv, Next PROVE Stays
    OBVIOUS
  <2>1. ASSUME NEW r \in Requests, Begins(r) PROVE UNCHANGED row
    BY <2>1, OthersBegin DEF Begins, Reserve
  <2>2. ASSUME NEW r \in Requests, Steps(r), ~StoreRow(r) PROVE UNCHANGED row
    BY <2>2, StepsOn
  <2>3. ASSUME NEW r \in Requests, StoreRow(r) PROVE Stays
    <3>1. \A t \in Projects : row'[t] = IF t = req[r].project THEN Stored(r) ELSE row[t]
      BY <2>3, StoredRow DEF DrawInv, Typed
    <3>2. QED  BY <2>3, <3>1, StoredRow
  <2>4. ASSUME NEW p \in Projects, Register(p) PROVE Stays
    <3>1. \A t \in Projects \ {p} : row'[t] = row[t]
      BY <2>4 DEF Register, DrawInv, Typed
    <3>2. QED  BY <2>4, <3>1 DEF Register
  <2>5. QED  BY <2>1, <2>2, <2>3, <2>4, AroundKeeps DEF Next
<1>2. QED  BY <1>1, DrawsApart, PTL DEF Spec, AutoNeverChanges

-----------------------------------------------------------------------------
(* The record behind a reserved host *)

\* It leads here, or an outsider, a deletion or a custom domain of that name has it.
Good(h) == dns[h] = "here" \/ h \in released \/ h \in asked
GoodNext(h) == dns'[h] = "here" \/ h \in released' \/ h \in asked'
AutoIsGood == \A p \in Projects : row[p].auto # NoHost => Good(row[p].auto)

\* A host is stored when its record is made, and stays good from then on.
Works ==
  /\ AutoIsGood
  /\ \A r \in Requests : Draws(req[r]) /\ req[r].pc = "store" => Good(req[r].host)

\* Custom domains, and the hosts of requests that connect or disconnect one, were
\* asked for.
AskedFor ==
  /\ asked \subseteq Named
  /\ \A p \in Projects : row[p].custom \in asked \cup {NoHost}
  /\ \A r \in Requests : req[r].op \in {"connect", "disconnect"} => req[r].host \in asked \cup {NoHost}

LEMMA AskedInit == Init => AskedFor
BY DEF Init, AskedFor, NoRow, Idle

\* A step that leaves the rows' custom domains, or takes one from a request.
LEMMA AskedStays ==
  ASSUME AskedFor, asked \subseteq asked', asked' \subseteq Named,
         \A p \in Projects : row'[p].custom \in asked' \cup {NoHost} \/ row'[p].custom = row[p].custom,
         \A r \in Requests : req'[r].op \in {"connect", "disconnect"} =>
           req'[r].host \in asked' \cup {NoHost} \/ (req'[r].op = req[r].op /\ req'[r].host = req[r].host)
  PROVE  AskedFor'
BY DEF AskedFor

LEMMA AskedStep == DrawInv /\ AskedFor /\ [Next]_vars => AskedFor'
<1> SUFFICES ASSUME DrawInv, AskedFor, [Next]_vars PROVE AskedFor'
  OBVIOUS
<1>1. ASSUME NEW r \in Requests, Steps(r) PROVE AskedFor'
  <2>1. UNCHANGED asked /\ \A s \in Requests \ {r} : req'[s] = req[s]
    <3>1. UNCHANGED asked
      BY <1>1 DEF Steps, PostRecord, LookAtRecord, PatchRecord, RecordCallFails, FindRecord, EraseRecord,
        EraseFails, StoreRow, StoreFails, HangUp, ReadRoutes, GetIngress, PutIngress, SyncFails
    <3>2. CASE StoreRow(r)
      BY <3>1, <3>2 DEF StoreRow, Go, Turn, DrawInv, Typed
    <3>3. CASE ~StoreRow(r)
      BY <1>1, <3>1, <3>3, StepsOn DEF DrawInv, Typed
    <3>4. QED  BY <3>2, <3>3
  <2>2. req'[r].op \in {"connect", "disconnect"} => req'[r].op = req[r].op /\ req'[r].host = req[r].host
    <3>1. req[r] \in Requested /\ Places(req[r])
      BY DEF DrawInv, Typed, Placed
    <3>2. CASE FindRecord(r) \/ EraseRecord(r) \/ EraseFails(r)
      <4>1. Go(r, "erase") \/ NextHost(r)
        BY <3>2 DEF FindRecord, EraseRecord, EraseFails
      <4>2. req[r].op \in {"disconnect", "delete"} /\ (req[r].op = "disconnect" => req[r].next = NoHost)
        BY <3>1, <3>2 DEF Places, FindRecord, EraseRecord, EraseFails, At
      <4>3. QED  BY <4>1, <4>2 DEF NextHost, Go, Turn, DrawInv, Typed
    <3>3. CASE ~(FindRecord(r) \/ EraseRecord(r) \/ EraseFails(r))
      <4>1. Done(r) \/ \E pc \in Counters : Go(r, pc)
        <5>1. CASE LookAtRecord(r)
          <6>1. req[r].host \in Hosts \cap Zone
            BY <3>1, <5>1 DEF LookAtRecord, At, Places
          <6>2. dns[req[r].host] \in Records
            BY <6>1 DEF DrawInv, Typed
          <6>3. QED  BY <5>1, <6>2 DEF LookAtRecord
        <5>2. CASE ~LookAtRecord(r)
          BY <1>1, <3>3, <5>2 DEF Steps, PostRecord, PatchRecord, RecordCallFails, StoreRow, StoreFails,
            HangUp, ReadRoutes, GetIngress, PutIngress, SyncFails, SyncEnds
        <5>3. QED  BY <5>1, <5>2
      <4>2. QED  BY <4>1 DEF Done, Idle, Go, Turn, DrawInv, Typed
    <3>4. QED  BY <3>2, <3>3
  <2>3. \A p \in Projects : row'[p].custom \in asked \cup {NoHost} \/ row'[p].custom = row[p].custom
    <3>1. CASE StoreRow(r)
      <4>1. \A t \in Projects : row'[t] = IF t = req[r].project THEN Stored(r) ELSE row[t]
        BY <3>1, StoredRow DEF DrawInv, Typed
      <4>2. req[r].project \in Projects /\ req[r].op \in {"reserve", "connect", "disconnect", "delete"}
        BY <3>1 DEF StoreRow, At, DrawInv, Typed, Placed, Places, Requested
      <4>3. \/ Stored(r).custom = NoHost
            \/ Stored(r).custom = row[req[r].project].custom
            \/ (req[r].op = "connect" /\ Stored(r).custom = req[r].host)
        <5> DEFINE old == row[req[r].project]
        <5>1. CASE req[r].op = "delete"
          <6>1. Stored(r) = NoRow
            BY <5>1 DEF Stored
          <6>2. QED  BY <6>1 DEF NoRow
        <5>2. CASE req[r].op # "delete" /\ ~old.there
          <6>1. Stored(r) = old
            BY <5>2 DEF Stored
          <6>2. QED  BY <6>1
        <5>3. CASE req[r].op = "reserve" /\ old.there
          <6>1. Stored(r) = [there |-> TRUE, auto |-> AutoBecomes(old.auto, req[r].host), custom |-> old.custom]
            BY <5>3 DEF Stored
          <6>2. QED  BY <6>1
        <5>4. CASE req[r].op = "connect" /\ old.there
          <6>1. Stored(r) = [there |-> TRUE, auto |-> old.auto, custom |-> req[r].host]
            BY <5>4 DEF Stored
          <6>2. QED  BY <5>4, <6>1
        <5>5. CASE req[r].op = "disconnect" /\ old.there
          <6>1. Stored(r) = [there |-> TRUE, auto |-> old.auto, custom |-> NoHost]
            BY <5>5 DEF Stored
          <6>2. QED  BY <6>1
        <5>6. QED  BY <4>2, <5>1, <5>2, <5>3, <5>4, <5>5
      <4>4. req[r].op = "connect" => req[r].host \in asked \cup {NoHost}
        BY DEF AskedFor
      <4>5. QED  BY <4>1, <4>3, <4>4
    <3>2. CASE ~StoreRow(r)
      BY <1>1, <3>2, StepsOn
    <3>3. QED  BY <3>1, <3>2
  <2>4. QED  BY <2>1, <2>2, <2>3, AskedStays DEF AskedFor
<1>2. ASSUME NEW r \in Requests, Begins(r) PROVE AskedFor'
  <2>1. UNCHANGED row /\ \A s \in Requests \ {r} : req'[s] = req[s]
    BY <1>2 DEF Begins, Reserve, Disconnect, Delete, Connect, Begin, DrawInv, Typed
  <2>2. asked \subseteq asked' /\ asked' \subseteq Named
        /\ (req'[r].op \in {"connect", "disconnect"} => req'[r].host \in asked' \cup {NoHost})
    <3>1. CASE \E p \in Projects : Reserve(r, p) \/ Delete(r, p)
      BY <3>1 DEF Reserve, Delete, Begin, AskedFor, DrawInv, Typed
    <3>2. CASE \E p \in Projects : Disconnect(r, p)
      <4>1. PICK p \in Projects : Disconnect(r, p)
        BY <3>2
      <4>2. /\ UNCHANGED asked /\ req'[r].host = InZone(row[p].custom)
        BY <4>1 DEF Disconnect, Begin, DrawInv, Typed
      <4>3. QED  BY <4>2 DEF AskedFor, InZone
    <3>3. CASE \E p \in Projects : \E h \in Named : Connect(r, p, h)
      BY <3>3 DEF Connect, Begin, AskedFor, DrawInv, Typed
    <3>4. QED  BY <1>2, <3>1, <3>2, <3>3 DEF Begins
  <2>3. QED  BY <2>1, <2>2, AskedStays
<1>3. CASE Restart \/ Outside \/ \E p \in Projects : Register(p)
  <2>1. CASE Restart \/ Outside
    <3>1. UNCHANGED <<row, asked>>
      BY <2>1 DEF Restart, Outside, OutsiderMovesRecord, OutsiderAddsRule
    <3>2. UNCHANGED req \/ \A r \in Requests : req'[r].op = "idle"
      <4>1. CASE Restart
        BY <4>1 DEF Restart, Idle
      <4>2. CASE Outside
        BY <4>2 DEF Outside, OutsiderMovesRecord, OutsiderAddsRule
      <4>3. QED  BY <2>1, <4>1, <4>2
    <3>3. QED  BY <3>1, <3>2 DEF AskedFor
  <2>2. CASE \E p \in Projects : Register(p)
    <3>1. UNCHANGED <<req, asked>> /\ \A p \in Projects : row'[p].custom \in {NoHost, row[p].custom}
      BY <2>2 DEF Register, DrawInv, Typed
    <3>2. QED  BY <3>1, AskedStays DEF AskedFor
  <2>3. QED  BY <1>3, <2>1, <2>2
<1>4. CASE UNCHANGED vars
  BY <1>4 DEF vars, AskedFor
<1>5. QED  BY <1>1, <1>2, <1>3, <1>4 DEF Next

LEMMA WorksInit == Init => Works
BY DEF Init, Works, AutoIsGood, Draws, NoRow, Idle

\* A step that changes no row and spoils no reserved host.
LEMMA GoodStays ==
  ASSUME DrawInv, Works, UNCHANGED row,
         \A h \in AutoHosts : Good(h) => GoodNext(h),
         \A r \in Requests : Draws(req'[r]) /\ req'[r].pc = "store" =>
           \/ Draws(req[r]) /\ req[r].pc = "store" /\ req'[r] = req[r]
           \/ GoodNext(req'[r].host)
  PROVE  Works'
<1>1. AutoIsGood'
  <2>1. \A p \in Projects : row[p].auto # NoHost => row[p].auto \in AutoHosts /\ Good(row[p].auto)
    BY DEF DrawInv, Typed, Rows, Works, AutoIsGood, Good
  <2>2. \A p \in Projects : row'[p].auto # NoHost => GoodNext(row'[p].auto)
    BY <2>1
  <2>3. QED  BY <2>2 DEF AutoIsGood, Good, GoodNext
<1>2. ASSUME NEW r \in Requests, Draws(req'[r]), req'[r].pc = "store"
      PROVE  GoodNext(req'[r].host)
  <2>1. CASE Draws(req[r]) /\ req[r].pc = "store" /\ req'[r] = req[r]
    <3>1. Good(req[r].host) /\ req[r].host \in AutoHosts
      BY <2>1 DEF Works, DrawInv, Drawn
    <3>2. QED  BY <2>1, <3>1
  <2>2. QED  BY <1>2, <2>1
<1>3. QED  BY <1>1, <1>2 DEF Works, Good, GoodNext, Draws

LEMMA PostWorks ==
  ASSUME AskedFor, DrawInv, Works, NEW r \in Requests, PostRecord(r)
  PROVE  Works'
<1> DEFINE h == req[r].host
<1>1. req[r] \in Requested /\ Places(req[r]) /\ req[r].pc = "post"
  BY DEF DrawInv, Typed, Placed, PostRecord, At
<1>2. h \in Hosts \cap Zone /\ (Draws(req[r]) \/ h \in asked)
  BY <1>1, DomainNaming DEF Places, Draws, AskedFor, Hosts
<1>3. /\ released' = released \ {h} /\ UNCHANGED asked
      /\ dns' = dns \/ dns' = [dns EXCEPT ![h] = "here"]
      /\ UNCHANGED row
  BY DEF PostRecord, Points
<1>4. \A g \in AutoHosts : g # h /\ Good(g) => GoodNext(g)
  BY <1>3, DomainNaming DEF Good, GoodNext, DrawInv, Typed, Hosts
<1>5. h \in asked \/ \A p \in Projects : row[p].auto # h
  BY <1>2 DEF DrawInv, Drawn
<1>6. \A s \in Requests \ {r} : req'[s] = req[s]
  BY DEF PostRecord, Go, Turn, DrawInv, Typed
<1>7. h \in asked \/ \A s \in Requests \ {r} : Draws(req[s]) => req[s].host # h
  BY <1>2 DEF DrawInv, Drawn, Draws
<1>8. AutoIsGood'
  <2> SUFFICES ASSUME NEW p \in Projects, row'[p].auto # NoHost PROVE GoodNext(row'[p].auto)
    BY DEF AutoIsGood, Good, GoodNext
  <2>1. Good(row[p].auto) /\ row[p].auto \in AutoHosts
    BY <1>3 DEF Works, AutoIsGood, Good, DrawInv, Typed, Rows
  <2>2. h \in asked => GoodNext(h)
    BY <1>3 DEF GoodNext
  <2>3. QED  BY <1>3, <1>4, <1>5, <2>1, <2>2
<1>9. ASSUME NEW s \in Requests, Draws(req'[s]), req'[s].pc = "store" PROVE GoodNext(req'[s].host)
  <2>1. CASE s = r
    <3>1. req'[r].host = h
      BY DEF PostRecord, Go, Turn, DrawInv, Typed
    <3>2. dns' = [dns EXCEPT ![h] = "here"]
      <4>1. Go(r, "look") => req'[r].pc = "look"
        BY DEF Go, Turn, DrawInv, Typed
      <4>2. QED  BY <1>9, <2>1, <4>1 DEF PostRecord, Points
    <3>3. QED  BY <1>2, <2>1, <3>1, <3>2 DEF GoodNext, DrawInv, Typed
  <2>2. CASE s # r
    <3>1. req'[s] = req[s] /\ Good(req[s].host) /\ req[s].host \in AutoHosts
          /\ (req[s].host # h \/ h \in asked)
      BY <1>6, <1>7, <1>9, <2>2 DEF Works, DrawInv, Drawn
    <3>2. h \in asked => GoodNext(h)
      BY <1>3 DEF GoodNext
    <3>3. QED  BY <1>4, <3>1, <3>2
  <2>3. QED  BY <2>1, <2>2
<1>10. QED  BY <1>8, <1>9 DEF Works, Good, GoodNext, Draws

\* The other calls to Cloudflare take a record away only with its project.
LEMMA CallsWork ==
  ASSUME AskedFor, DrawInv, Works, NEW r \in Requests, Steps(r), ~StoreRow(r), ~PostRecord(r)
  PROVE  Works'
<1>1. UNCHANGED row
  BY StepsOn
<1>2. req[r] \in Requested /\ Places(req[r])
  BY DEF DrawInv, Typed, Placed
<1>3. \A s \in Requests \ {r} : req'[s] = req[s]
  BY StepsOn DEF DrawInv, Typed
<1>4. ASSUME NEW h \in AutoHosts, Good(h) PROVE GoodNext(h)
  <2>1. h \in Hosts \cap Zone /\ asked' = asked
    BY DomainNaming DEF Hosts, Steps, LookAtRecord, PatchRecord, RecordCallFails, FindRecord,
      EraseRecord, EraseFails, StoreFails, HangUp, ReadRoutes, GetIngress, PutIngress, SyncFails
  <2>2. CASE UNCHANGED <<dns, released>>
    BY <1>4, <2>1, <2>2 DEF Good, GoodNext
  <2>3. CASE dns' = [dns EXCEPT ![req[r].host] = "here"] /\ UNCHANGED released
    BY <1>4, <2>1, <2>3 DEF Good, GoodNext, DrawInv, Typed
  <2>4. CASE Erase(r) /\ req[r].pc = "erase"
    <3>1. CASE req[r].op = "delete"
      <4>1. dns' = [dns EXCEPT ![req[r].host] = "none"] /\ released' = released \cup {req[r].host}
        BY <2>4, <3>1 DEF Erase, Points
      <4>2. QED  BY <1>4, <2>1, <4>1 DEF Good, GoodNext, DrawInv, Typed
    <3>2. CASE req[r].op = "disconnect"
      <4>1. dns' = [dns EXCEPT ![req[r].host] = "none"] /\ released' = released
        BY <2>4, <3>2 DEF Erase, Points
      <4>2. req[r].host # h \/ h \in asked
        BY <2>1, <3>2, DomainNaming DEF AskedFor
      <4>3. QED  BY <1>4, <2>1, <4>1, <4>2 DEF Good, GoodNext, DrawInv, Typed
    <3>3. QED  BY <1>2, <2>4, <3>1, <3>2 DEF Places
  <2>5. QED
    BY <2>2, <2>3, <2>4 DEF Steps, LookAtRecord, PatchRecord, RecordCallFails, FindRecord,
      EraseRecord, EraseFails, StoreFails, HangUp, ReadRoutes, GetIngress, PutIngress, SyncFails,
      Points, At
<1>5. ASSUME Draws(req'[r]), req'[r].pc = "store" PROVE GoodNext(req'[r].host)
  <2>1. CASE LookAtRecord(r)
    <3>1. req[r].host \in Hosts \cap Zone /\ req[r].pc = "look"
      BY <1>2, <2>1 DEF LookAtRecord, At, Places
    <3>2. dns[req[r].host] \in Records
      BY <3>1 DEF DrawInv, Typed
    <3>3. Done(r) => req'[r].pc = "idle"
      BY DEF Done, Idle, DrawInv, Typed
    <3>4. Go(r, "patch") => req'[r].pc = "patch"
      BY DEF Go, Turn, DrawInv, Typed
    <3>5. dns[req[r].host] = "here" /\ Go(r, "store") /\ dns' = dns
      BY <1>5, <2>1, <3>2, <3>3, <3>4 DEF LookAtRecord
    <3>6. req'[r].host = req[r].host
      BY <3>5 DEF Go, Turn, DrawInv, Typed
    <3>7. QED  BY <3>5, <3>6 DEF GoodNext
  <2>2. CASE PatchRecord(r)
    <3>1. req[r].host \in Hosts \cap Zone
      BY <1>2, <2>2 DEF PatchRecord, At, Places
    <3>2. Done(r) => req'[r].pc = "idle"
      BY DEF Done, Idle, DrawInv, Typed
    <3>3. dns' = [dns EXCEPT ![req[r].host] = "here"] /\ Go(r, "store")
      BY <1>5, <2>2, <3>2 DEF PatchRecord, Points
    <3>4. req'[r].host = req[r].host
      BY <3>3 DEF Go, Turn, DrawInv, Typed
    <3>5. QED  BY <3>1, <3>3, <3>4 DEF GoodNext, DrawInv, Typed
  <2>3. CASE EraseRecord(r) \/ EraseFails(r)
    <3>1. req'[r].op = req[r].op /\ req[r].pc \in {"find", "erase"}
      BY <2>3 DEF EraseRecord, EraseFails, NextHost, Turn, At, DrawInv, Typed
    <3>2. QED  BY <1>2, <1>5, <3>1 DEF Places, Draws
  <2>4. CASE ~LookAtRecord(r) /\ ~PatchRecord(r) /\ ~EraseRecord(r) /\ ~EraseFails(r)
    <3>1. Done(r) \/ \E pc \in {"erase", "routes", "get", "put"} : Go(r, pc)
      BY <2>4 DEF Steps, RecordCallFails, FindRecord, StoreFails, HangUp, ReadRoutes, GetIngress,
        PutIngress, SyncFails, SyncEnds
    <3>2. req'[r].pc # "store"
      BY <3>1 DEF Done, Idle, Go, Turn, DrawInv, Typed
    <3>3. QED  BY <1>5, <3>2
  <2>5. QED  BY <2>1, <2>2, <2>3, <2>4
<1>6. QED  BY <1>1, <1>3, <1>4, <1>5, GoodStays

LEMMA StoreWorks ==
  ASSUME DrawInv, Works, NEW r \in Requests, StoreRow(r)
  PROVE  Works'
<1>1. UNCHANGED <<dns, released, asked>> /\ req[r].pc = "store"
  BY DEF StoreRow, At
<1>2. /\ req[r].project \in Projects
      /\ \A t \in Projects : row'[t] = IF t = req[r].project THEN Stored(r) ELSE row[t]
  BY StoredRow DEF DrawInv, Typed
<1>3. ASSUME NEW p \in Projects, row'[p].auto # NoHost PROVE Good(row'[p].auto)
  <2>1. CASE row'[p].auto = row[p].auto
    BY <1>3, <2>1 DEF Works, AutoIsGood, Good
  <2>2. CASE row'[p].auto # row[p].auto
    <3>1. Draws(req[r]) /\ row'[p].auto = req[r].host
      BY <1>2, <1>3, <2>2, StoredRow
    <3>2. QED  BY <1>1, <3>1 DEF Works
  <2>3. QED  BY <2>1, <2>2
<1>4. AutoIsGood'
  BY <1>1, <1>3 DEF AutoIsGood, Good
<1>5. ASSUME NEW s \in Requests, Draws(req'[s]), req'[s].pc = "store" PROVE Good(req'[s].host)
  <2>1. s # r /\ req'[s] = req[s]
    BY <1>5 DEF StoreRow, Go, Turn, DrawInv, Typed
  <2>2. QED  BY <1>5, <2>1 DEF Works
<1>6. QED  BY <1>1, <1>4, <1>5 DEF Works, Good, Draws

LEMMA AroundWorks ==
  ASSUME DrawInv, Works, Restart \/ Outside \/ \E p \in Projects : Register(p)
  PROVE  Works'
<1>1. CASE Restart
  <2>1. UNCHANGED <<row, dns, released, asked>> /\ \A r \in Requests : req'[r].pc = "idle"
    BY <1>1 DEF Restart, Idle
  <2>2. \A h \in AutoHosts : Good(h) => GoodNext(h)
    BY <2>1 DEF Good, GoodNext
  <2>3. \A r \in Requests : ~(Draws(req'[r]) /\ req'[r].pc = "store")
    BY <2>1
  <2>4. QED  BY <2>1, <2>2, <2>3, GoodStays
<1>2. CASE Outside
  <2>1. UNCHANGED <<row, req, asked>>
    BY <1>2 DEF Outside, OutsiderMovesRecord, OutsiderAddsRule
  <2>2. ASSUME NEW h \in AutoHosts, Good(h) PROVE GoodNext(h)
    <3>1. CASE UNCHANGED <<dns, released>>
      BY <2>1, <2>2, <3>1 DEF Good, GoodNext
    <3>2. CASE \E g \in Hosts \cap Zone, to \in Records : OutsiderMovesRecord(g, to)
      <4>1. PICK g \in Hosts \cap Zone, to \in Records : OutsiderMovesRecord(g, to)
        BY <3>2
      <4>2. dns' = [dns EXCEPT ![g] = to] /\ released' = released \cup {g}
        BY <4>1 DEF OutsiderMovesRecord, Points
      <4>3. h \in Hosts \cap Zone
        BY DomainNaming DEF Hosts
      <4>4. QED  BY <2>1, <2>2, <4>2, <4>3 DEF Good, GoodNext, DrawInv, Typed
    <3>3. QED  BY <1>2, <3>1, <3>2 DEF Outside, OutsiderAddsRule
  <2>3. QED  BY <2>1, <2>2, GoodStays
<1>3. CASE \E p \in Projects : Register(p)
  <2>1. PICK p \in Projects : Register(p)
    BY <1>3
  <2>2. UNCHANGED <<dns, released, asked, req>>
        /\ \A t \in Projects : row'[t].auto \in {NoHost, row[t].auto}
    BY <2>1 DEF Register, DrawInv, Typed
  <2>3. QED  BY <2>2 DEF Works, AutoIsGood, Good
<1>4. QED  BY <1>1, <1>2, <1>3

LEMMA BeginsWork ==
  ASSUME DrawInv, Works, NEW r \in Requests, Begins(r)
  PROVE  Works'
<1>1. UNCHANGED <<row, dns, released>> /\ asked \subseteq asked'
  BY OthersBegin DEF Begins, Reserve, Disconnect, Delete, Connect
<1>2. \A s \in Requests \ {r} : req'[s] = req[s]
  BY DEF Begins, Reserve, Disconnect, Delete, Connect, Begin, DrawInv, Typed
<1>3. ~(Draws(req'[r]) /\ req'[r].pc = "store")
  BY DEF Begins, Reserve, Disconnect, Delete, Connect, Begin, Draws, DrawInv, Typed
<1>4. QED  BY <1>1, <1>2, <1>3, GoodStays DEF Good, GoodNext

LEMMA WorksStep == AskedFor /\ DrawInv /\ Works /\ [Next]_vars => Works'
<1> SUFFICES ASSUME AskedFor, DrawInv, Works, [Next]_vars PROVE Works'
  OBVIOUS
<1>1. ASSUME NEW r \in Requests, Steps(r) PROVE Works'
  BY <1>1, PostWorks, StoreWorks, CallsWork
<1>2. CASE UNCHANGED vars
  BY <1>2 DEF vars, Works, AutoIsGood, Draws, Good
<1>3. QED  BY <1>1, <1>2, BeginsWork, AroundWorks DEF Next

LEMMA AskedInvariance == Spec => []AskedFor
BY DrawsApart, AskedInit, AskedStep, PTL DEF Spec

\* No two projects ever have the same automatic host, and one that nobody asked
\* for as a custom domain keeps its record from the moment it is stored, whatever
\* calls fail and whatever is connected, disconnected and deleted meanwhile,
\* unless an outsider moves the record or a deletion takes it (reserve_domain,
\* do_disconnect_domain, do_delete_project).
THEOREM HostIsTheProjects == Spec => []AutoHostIsItsOwn
<1>1. Works /\ AutoHostsAreDistinct => AutoHostIsItsOwn
  BY DEF Works, AutoIsGood, Good, AutoHostIsItsOwn, Resolves
<1>2. QED  BY <1>1, DistinctHosts, DrawsApart, AskedInvariance, WorksInit, WorksStep, PTL DEF Spec

-----------------------------------------------------------------------------
(* Lists of lists *)

LEMMA RangeOfTwo ==
  ASSUME NEW X, NEW a \in Seq(X), NEW b \in Seq(X)
  PROVE  a \o b \in Seq(X) /\ Range(a \o b) = Range(a) \cup Range(b)
<1>1. ASSUME NEW x \in Range(a \o b) PROVE x \in Range(a) \cup Range(b)
  <2>1. PICK k \in 1 .. Len(a) + Len(b) : (a \o b)[k] = x
    BY DEF Range
  <2>2. CASE k <= Len(a)
    <3>1. k \in DOMAIN a /\ a[k] = x
      BY <2>1, <2>2
    <3>2. QED  BY <3>1 DEF Range
  <2>3. CASE k > Len(a)
    <3>1. k - Len(a) \in DOMAIN b /\ b[k - Len(a)] = x
      BY <2>1, <2>3
    <3>2. QED  BY <3>1 DEF Range
  <2>4. QED  BY <2>1, <2>2, <2>3
<1>2. ASSUME NEW x \in Range(a) PROVE x \in Range(a \o b)
  <2>1. PICK k \in 1 .. Len(a) : a[k] = x
    BY DEF Range
  <2>2. k \in DOMAIN (a \o b) /\ (a \o b)[k] = x
    BY <2>1
  <2>3. QED  BY <2>2, Zenon DEF Range
<1>3. ASSUME NEW x \in Range(b) PROVE x \in Range(a \o b)
  <2>1. PICK k \in 1 .. Len(b) : b[k] = x
    BY DEF Range
  <2>2. Len(a) + k \in DOMAIN (a \o b) /\ (a \o b)[Len(a) + k] = x
    BY <2>1
  <2>3. QED  BY <2>2, Zenon DEF Range
<1>4. QED  BY <1>1, <1>2, <1>3

\* f[i] is the first i lists of s, one after the other.
Chains(s, f, i) == f[i] = IF i = 1 THEN s[i] ELSE f[i - 1] \o s[i]
Chained(s, n, f) == f = [i \in 1 .. n |-> IF i = 1 THEN s[i] ELSE f[i - 1] \o s[i]]

LEMMA ChainedEach ==
  ASSUME NEW s, NEW n, NEW f
  PROVE  /\ Chained(s, n, f) => \A i \in 1 .. n : Chains(s, f, i)
         /\ f = [i \in 1 .. n |-> f[i]] /\ (\A i \in 1 .. n : Chains(s, f, i)) => Chained(s, n, f)
<1>1. ASSUME Chained(s, n, f) PROVE \A i \in 1 .. n : Chains(s, f, i)
  BY <1>1, Zenon DEF Chained, Chains
<1>2. ASSUME f = [i \in 1 .. n |-> f[i]], \A i \in 1 .. n : Chains(s, f, i) PROVE Chained(s, n, f)
  <2>1. [i \in 1 .. n |-> f[i]] = [i \in 1 .. n |-> IF i = 1 THEN s[i] ELSE f[i - 1] \o s[i]]
    BY <1>2, Zenon DEF Chains
  <2>2. QED  BY <1>2, <2>1, Zenon DEF Chained
<1>3. QED  BY <1>1, <1>2

\* The recursion in FlattenSeq has a function.
LEMMA ChainExists == ASSUME NEW s, NEW n \in Nat PROVE \E f : Chained(s, n, f)
<1> DEFINE T == {i \in Nat : \E f : Chained(s, i, f)}
<1>1. 0 \in T
  <2>1. Chained(s, 0, [j \in 1 .. 0 |-> <<>>])
    BY DEF Chained
  <2>2. QED  BY <2>1
<1>2. ASSUME NEW i \in Nat, NEW f, Chained(s, i, f) PROVE \E g : Chained(s, i + 1, g)
  <2> DEFINE last == IF i = 0 THEN s[1] ELSE f[i] \o s[i + 1]
             g == [j \in 1 .. i + 1 |-> IF j # i + 1 THEN f[j] ELSE last]
  <2>1. \A j \in 1 .. i : g[j] = f[j] /\ Chains(s, f, j)
    BY <1>2, ChainedEach
  <2>2. g[i + 1] = last
    OBVIOUS
  <2>3. g = [j \in 1 .. i + 1 |-> g[j]]
    OBVIOUS
  <2> HIDE DEF g
  <2>4. ASSUME NEW j \in 1 .. i + 1 PROVE Chains(s, g, j)
    <3>1. CASE j = i + 1
      BY <2>1, <2>2, <3>1 DEF Chains
    <3>2. CASE j \in 1 .. i
      BY <2>1, <3>2 DEF Chains
    <3>3. QED  BY <3>1, <3>2
  <2>5. Chained(s, i + 1, g)
    BY <2>3, <2>4, ChainedEach
  <2>6. QED  BY <2>5
<1>3. \A i \in Nat : i \in T => i + 1 \in T
  BY <1>2
<1>4. Nat \subseteq T
  <2> HIDE DEF T
  <2>1. QED  BY <1>1, <1>3, Climb
<1>5. QED  BY <1>4

\* The lists of a list one after the other have the elements of each.
LEMMA FlattenedRange ==
  ASSUME NEW X, NEW s \in Seq(Seq(X))
  PROVE  /\ FlattenSeq(s) \in Seq(X)
         /\ \A x : x \in Range(FlattenSeq(s)) <=> \E i \in DOMAIN s : x \in Range(s[i])
<1> DEFINE n == Len(s)
<1>1. n \in Nat /\ DOMAIN s = 1 .. n /\ \A i \in 1 .. n : s[i] \in Seq(X)
  OBVIOUS
<1>2. CASE n = 0
  <2>1. s = <<>> /\ FlattenSeq(s) = <<>>
    BY <1>2 DEF FlattenSeq
  <2>2. \A x : x \notin Range(<<>>)
    BY DEF Range
  <2>3. <<>> \in Seq(X) /\ DOMAIN <<>> = {}
    OBVIOUS
  <2>4. QED  BY <2>1, <2>2, <2>3
<1>3. CASE n # 0
  <2> DEFINE f == CHOOSE f : Chained(s, n, f)
             Is(i) == /\ f[i] \in Seq(X)
                      /\ \A x : x \in Range(f[i]) <=> \E j \in 1 .. i : x \in Range(s[j])
             T == {i \in Nat : i \in 1 .. n => Is(i)}
  <2>1. Chained(s, n, f)
    BY <1>1, ChainExists
  <2>2. FlattenSeq(s) = f[n]
    BY <1>3 DEF FlattenSeq, Chained
  <2> HIDE DEF f, n
  <2>3. \A i \in 1 .. n : Chains(s, f, i)
    BY <2>1, ChainedEach
  <2>4. ASSUME NEW i \in Nat, i \in T, i + 1 \in 1 .. n PROVE Is(i + 1)
    <3>1. CASE i = 0
      <4>1. f[1] = s[1]
        BY <2>3, <2>4, <3>1 DEF Chains
      <4>2. QED  BY <1>1, <2>4, <3>1, <4>1
    <3>2. CASE i # 0
      <4>1. i \in 1 .. n /\ i + 1 # 1 /\ (i + 1) - 1 = i
        BY <1>1, <2>4, <3>2
      <4>2. f[i + 1] = f[i] \o s[i + 1]
        BY <2>3, <2>4, <4>1 DEF Chains
      <4>3. Is(i)
        BY <2>4, <4>1
      <4>4. Range(f[i + 1]) = Range(f[i]) \cup Range(s[i + 1]) /\ f[i + 1] \in Seq(X)
        BY <1>1, <2>4, <4>2, <4>3, RangeOfTwo
      <4>5. 1 .. i + 1 = (1 .. i) \cup {i + 1}
        BY <4>1
      <4>6. QED  BY <4>3, <4>4, <4>5
    <3>3. QED  BY <3>1, <3>2
  <2>5. 0 \in T
    BY <1>1
  <2>6. ASSUME NEW i \in Nat, i \in T PROVE i + 1 \in T
    <3> HIDE DEF Is
    <3>1. QED  BY <2>4, <2>6
  <2>7. Nat \subseteq T
    <3> HIDE DEF T
    <3>1. QED  BY <2>5, <2>6, Climb
  <2>8. Is(n)
    <3>1. n \in T
      <4> HIDE DEF T
      <4>1. QED  BY <1>1, <2>7
    <3>2. n \in 1 .. n
      BY <1>1, <1>3
    <3> HIDE DEF Is
    <3>3. QED  BY <3>1, <3>2
  <2>9. QED  BY <1>1, <2>2, <2>8
<1>4. QED  BY <1>2, <1>3

-----------------------------------------------------------------------------
(* The routes and what becomes of them in the tunnel                        *)

\* A rule of webo.
Ours == [host : Hosts, service : Projects]
Has(rows, p, h) == h \in {rows[p].auto, rows[p].custom}

\* A project's part of the routes.
Block(rows, p) ==
  LET hs == Kept(rows[p].auto) \o Kept(rows[p].custom)
  IN  [j \in DOMAIN hs |-> [host |-> hs[j], service |-> p]]

LEMMA BlockHas ==
  ASSUME NEW rows \in [Projects -> Rows], NEW p \in Projects
  PROVE  /\ Block(rows, p) \in Seq(Ours)
         /\ \A x : x \in Range(Block(rows, p)) <=> \E h \in Hosts : Has(rows, p, h) /\ x = [host |-> h, service |-> p]
<1> DEFINE auto == Kept(rows[p].auto)
           custom == Kept(rows[p].custom)
           hs == auto \o custom
<1>1. rows[p].auto \in Hosts \cup {NoHost} /\ rows[p].custom \in Hosts \cup {NoHost} /\ NoHost \notin Hosts
  BY DomainNaming DEF Rows, Hosts
<1>2. ASSUME NEW h \in Hosts \cup {NoHost}
      PROVE  Kept(h) \in Seq(Hosts) /\ \A g : g \in Range(Kept(h)) <=> g = h /\ h # NoHost
  BY <1>1 DEF Kept, Range
<1>3. /\ hs \in Seq(Hosts)
      /\ \A g : g \in Range(hs) <=> g \in Range(auto) \/ g \in Range(custom)
  <2>1. auto \in Seq(Hosts) /\ custom \in Seq(Hosts)
    BY <1>1, <1>2
  <2> HIDE DEF auto, custom
  <2>2. QED  BY <2>1, RangeOfTwo
<1>4. \A g : g \in Range(hs) <=> g \in Hosts /\ Has(rows, p, g)
  BY <1>1, <1>2, <1>3 DEF Has
<1> HIDE DEF hs
<1>5. Block(rows, p) = [j \in DOMAIN hs |-> [host |-> hs[j], service |-> p]]
  BY DEF Block, hs
<1>6. DOMAIN hs = 1 .. Len(hs) /\ Len(hs) \in Nat /\ \A j \in DOMAIN hs : hs[j] \in Hosts
  BY <1>3
<1>7. Block(rows, p) \in Seq(Ours)
  BY <1>5, <1>6 DEF Ours
<1>8. \A x : x \in Range(Block(rows, p)) <=> \E j \in DOMAIN hs : x = [host |-> hs[j], service |-> p]
  BY <1>5, Zenon DEF Range
<1>9. \A x : (\E j \in DOMAIN hs : x = [host |-> hs[j], service |-> p])
               <=> \E h \in Range(hs) : x = [host |-> h, service |-> p]
  BY Zenon DEF Range
<1>10. QED  BY <1>4, <1>7, <1>8, <1>9, Zenon

\* Every host of every project has a rule to it, and there is no other.
LEMMA RoutesHave ==
  ASSUME NEW rows \in [Projects -> Rows]
  PROVE  /\ Routes(rows) \in Seq(Ours)
         /\ \A x : x \in Range(Routes(rows))
              <=> \E p \in Projects, h \in Hosts : Has(rows, p, h) /\ x = [host |-> h, service |-> p]
<1> DEFINE blocks == [i \in DOMAIN ByName |-> Block(rows, ByName[i])]
<1>1. ByName \in Seq(Projects)
  BY DomainNaming DEF Projects
<1>2. DOMAIN ByName = 1 .. Len(ByName) /\ Len(ByName) \in Nat /\ \A i \in DOMAIN ByName : ByName[i] \in Projects
  BY <1>1
<1>3. \A i \in DOMAIN ByName : Block(rows, ByName[i]) \in Seq(Ours)
  BY <1>2, BlockHas
<1>4. blocks \in Seq(Seq(Ours)) /\ DOMAIN blocks = DOMAIN ByName
  BY <1>2, <1>3
<1>5. Routes(rows) = FlattenSeq(blocks)
  BY DEF Routes, Block
<1>6. \A p : p \in Projects <=> \E i \in DOMAIN ByName : p = ByName[i]
  BY DEF Projects, Range
<1>7. /\ Routes(rows) \in Seq(Ours)
      /\ \A x : x \in Range(Routes(rows)) <=> \E i \in DOMAIN blocks : x \in Range(blocks[i])
  <2> HIDE DEF blocks
  <2>1. QED  BY <1>4, <1>5, FlattenedRange
<1>8. \A x : x \in Range(Routes(rows)) <=> \E p \in Projects : x \in Range(Block(rows, p))
  BY <1>4, <1>6, <1>7
<1>9. QED  BY <1>7, <1>8, BlockHas

LEMMA OursAreRules == Ours \subseteq Rules /\ \A x \in Ours : x.host # NoHost
BY DomainNaming DEF Ours, Rules, Services, Hosts

\* The merge keeps others' rules apart from webo's, and ends with the catch-all.
LEMMA MergeIsWhole ==
  ASSUME NEW seen \in Seq(Rules), NEW routes \in Seq(Ours), NEW m, m = MergeIngress(seen, routes)
  PROVE  /\ m \in Seq(Rules) /\ m # <<>> /\ \A i \in DOMAIN m : m[i].host = NoHost <=> i = Len(m)
         /\ Range(routes) \subseteq Range(m)
         /\ \A x \in Range(m) : x.host # NoHost /\ Manages(routes, x.host) => x \in Range(routes)
<1> DEFINE kept == Only(seen, NotOurs(routes))
           body == kept \o routes
           Hosted == {x \in Rules : x.host # NoHost}
<1>1. kept \in Seq(Rules \cap NotOurs(routes))
  BY OnlyPasses
<1>2. Rules \cap NotOurs(routes) \subseteq Hosted /\ Ours \subseteq Hosted
  BY OursAreRules DEF NotOurs
<1>3. kept \in Seq(Hosted) /\ routes \in Seq(Hosted)
  BY <1>1, <1>2
<1>4. body \in Seq(Hosted) /\ Range(body) = Range(kept) \cup Range(routes)
  <2> HIDE DEF kept, Hosted
  <2>1. QED  BY <1>3, RangeOfTwo
<1>5. m = Append(body, CatchAll)
  BY DEF MergeIngress
<1>6. CatchAll \in Rules /\ CatchAll.host = NoHost
  BY DEF CatchAll, Rules, Services
<1>7. \A x \in Range(kept) : ~Manages(routes, x.host)
  <2>1. \A i \in DOMAIN kept : kept[i] \in NotOurs(routes)
    BY <1>1
  <2>2. \A x \in Range(kept) : x \in NotOurs(routes)
    BY <2>1, Zenon DEF Range
  <2>3. QED  BY <2>2, Zenon DEF NotOurs
<1> HIDE DEF body, kept
<1>8. /\ m \in Seq(Rules) /\ Len(m) = Len(body) + 1 /\ m[Len(m)] = CatchAll
      /\ \A i \in 1 .. Len(body) : m[i] = body[i] /\ body[i] \in Hosted
  BY <1>4, <1>5, <1>6
<1>9. \A i \in DOMAIN m : i = Len(m) \/ i \in 1 .. Len(body)
  BY <1>4, <1>8
<1>10. \A i \in DOMAIN m : m[i].host = NoHost <=> i = Len(m)
  BY <1>4, <1>6, <1>8, <1>9
<1>11. DOMAIN body = 1 .. Len(body) /\ DOMAIN body \subseteq DOMAIN m
  BY <1>4, <1>8
<1>12. Range(body) \subseteq Range(m) /\ \A x \in Range(m) : x = CatchAll \/ x \in Range(body)
  <2>1. \A i \in DOMAIN body : body[i] = m[i] /\ i \in DOMAIN m
    BY <1>8, <1>11
  <2>2. \A i \in DOMAIN m : m[i] = CatchAll \/ (i \in DOMAIN body /\ m[i] = body[i])
    BY <1>8, <1>9, <1>11
  <2>3. QED  BY <2>1, <2>2, Zenon DEF Range
<1>13. m # <<>>
  BY <1>4, <1>8
<1>14. QED  BY <1>4, <1>6, <1>7, <1>8, <1>10, <1>12, <1>13

\* Every host that a project has is routed, and only to projects that have it.
Leads(rules, rows) ==
  \A h \in Hosts : (\E p \in Projects : Has(rows, p, h)) =>
    /\ \E x \in Range(rules) : x.host = h
    /\ \A x \in Range(rules) : x.host = h => x.service \in Projects /\ Has(rows, x.service, h)

LEMMA MergeLeads ==
  ASSUME NEW rows \in [Projects -> Rows], NEW seen \in Seq(Rules)
  PROVE  Leads(MergeIngress(seen, Routes(rows)), rows)
<1> DEFINE routes == Routes(rows)
           m == MergeIngress(seen, routes)
<1>1. /\ routes \in Seq(Ours)
      /\ \A x : x \in Range(routes)
           <=> \E p \in Projects, h \in Hosts : Has(rows, p, h) /\ x = [host |-> h, service |-> p]
  BY RoutesHave
<1> HIDE DEF routes
<1>2. /\ Range(routes) \subseteq Range(m)
      /\ \A x \in Range(m) : x.host # NoHost /\ Manages(routes, x.host) => x \in Range(routes)
  BY <1>1, MergeIsWhole
<1> HIDE DEF m
<1>3. ASSUME NEW h \in Hosts, NEW p \in Projects, Has(rows, p, h)
      PROVE  /\ \E x \in Range(m) : x.host = h
             /\ \A x \in Range(m) : x.host = h => x.service \in Projects /\ Has(rows, x.service, h)
  <2>1. [host |-> h, service |-> p] \in Range(routes)
    BY <1>1, <1>3
  <2>2. Manages(routes, h)
    BY <2>1 DEF Manages, Range
  <2>3. h # NoHost
    BY DomainNaming DEF Hosts
  <2>4. ASSUME NEW x \in Range(m), x.host = h PROVE x.service \in Projects /\ Has(rows, x.service, h)
    <3>1. x \in Range(routes)
      BY <1>2, <2>2, <2>3, <2>4
    <3>2. PICK q \in Projects, g \in Hosts : Has(rows, q, g) /\ x = [host |-> g, service |-> q]
      BY <1>1, <3>1
    <3>3. QED  BY <2>4, <3>2
  <2>5. [host |-> h, service |-> p] \in Range(m) /\ [host |-> h, service |-> p].host = h
    BY <1>2, <2>1
  <2>6. QED  BY <2>4, <2>5
<1>4. QED  BY <1>3 DEF Leads, m, routes

\* Then the first rule of a host leads to a project that has it.
LEMMA LeadsServe ==
  ASSUME ingress \in Seq(Rules), Leads(ingress, row) PROVE HostsAreServed
<1> SUFFICES ASSUME NEW h \in Hosts, NEW p \in Projects, Has(row, p, h)
             PROVE  \E i \in DOMAIN ingress :
                      /\ ingress[i].host = h /\ \A j \in DOMAIN ingress : ingress[j].host = h => i <= j
                      /\ ingress[i].service \in Projects /\ Has(row, ingress[i].service, h)
  BY DEF HostsAreServed, Has
<1> DEFINE R == {i \in DOMAIN ingress : ingress[i].host = h}
<1>1. R # {} /\ R \subseteq Nat
  <2>1. PICK x \in Range(ingress) : x.host = h
    BY DEF Leads
  <2>2. PICK i \in DOMAIN ingress : ingress[i] = x
    BY DEF Range
  <2>3. QED  BY <2>1, <2>2
<1>2. PICK i \in R : \A j \in R : i <= j
  <2>1. IsWellFoundedOn(OpToRel(<, Nat), Nat)
    BY NatLessThanWellFounded
  <2> HIDE DEF R
  <2>2. PICK i \in R : \A j \in R : ~(<<j, i>> \in OpToRel(<, Nat))
    BY <1>1, <2>1, WFMin
  <2>3. \A j \in R : ~(j < i)
    BY <1>1, <2>2, Zenon DEF OpToRel
  <2>4. \A j \in R : i <= j
    BY <1>1, <2>3
  <2>5. QED  BY <2>4
<1>3. ingress[i] \in Range(ingress) /\ ingress[i].host = h
  BY <1>2 DEF Range
<1>4. QED  BY <1>2, <1>3 DEF Leads

-----------------------------------------------------------------------------
(* The tunnel follows the table *)

Syncing == {"routes", "get", "put"}

\* What is read, merged and written are rules, and webo's have hosts.
RulesTyped ==
  /\ sync \in [Requests -> [routes : Seq(Ours), seen : Seq(Rules)]]
  /\ ingress \in Seq(Rules) /\ ingress # <<>>
  /\ \A i \in DOMAIN ingress : ingress[i].host = NoHost <=> i = Len(ingress)

Counted ==
  /\ holds \in [Requests -> BOOLEAN]
  /\ begun \in 0 .. MaxRequests /\ left \in 0 .. MaxFaults

\* A row that is not there has no host.
Gone == \A p \in Projects : ~row[p].there => row[p].auto = NoHost /\ row[p].custom = NoHost

\* With no sync under way or owing, the last one undisturbed and nobody else
\* routing webo's hosts, the tunnel has what the table has.
Settled ==
  Foreign \cap Hosts = {} /\ ~unsure /\ (\A r \in Requests : req[r].pc \notin Syncing) => Leads(ingress, row)

RoutesInv == RulesTyped /\ Counted /\ Gone /\ Settled

LEMMA RoutesInit == Init => RoutesInv
<1> SUFFICES ASSUME Init PROVE RoutesInv
  OBVIOUS
<1>1. RulesTyped
  <2>1. Nothing \in [routes : Seq(Ours), seen : Seq(Rules)]
    BY DEF Nothing
  <2>2. CatchAll \in Rules /\ CatchAll.host = NoHost
    BY DEF CatchAll, Rules, Services
  <2>3. ingress = <<CatchAll>> /\ sync \in [Requests -> [routes : Seq(Ours), seen : Seq(Rules)]]
    BY <2>1 DEF Init
  <2> HIDE DEF Init
  <2>4. /\ ingress \in Seq(Rules) /\ ingress # <<>>
        /\ \A i \in DOMAIN ingress : ingress[i].host = NoHost <=> i = Len(ingress)
    BY <2>2, <2>3
  <2>5. QED  BY <2>3, <2>4 DEF RulesTyped
<1>2. Counted
  BY DomainNaming DEF Init, Counted
<1>3. Gone /\ Settled
  BY DomainNaming DEF Init, Gone, Settled, Leads, Has, NoRow, Hosts
<1>4. QED  BY <1>1, <1>2, <1>3 DEF RoutesInv

\* The counters and what is held, step by step.
LEMMA CountedStays == ASSUME Counted, [Next]_vars PROVE Counted'
<1> USE DEF Counted
<1>1. ASSUME NEW r \in Requests, Begins(r) PROVE Counted'
  <2>1. /\ begun < MaxRequests /\ begun' = begun + 1 /\ holds' = [holds EXCEPT ![r] = FALSE] /\ left' = left
    BY <1>1 DEF Begins, Reserve, Connect, Disconnect, Delete, Begin
  <2>2. QED  BY <2>1, DomainNaming
<1>2. ASSUME NEW r \in Requests, Steps(r) PROVE Counted'
  <2>1. left' = left \/ (left > 0 /\ left' = left - 1)
    BY <1>2 DEF Steps, PostRecord, LookAtRecord, PatchRecord, RecordCallFails, FindRecord, EraseRecord,
      EraseFails, StoreRow, StoreFails, HangUp, ReadRoutes, GetIngress, PutIngress, SyncFails, Spend
  <2>2. begun' = begun
    BY <1>2 DEF Steps, PostRecord, LookAtRecord, PatchRecord, RecordCallFails, FindRecord, EraseRecord,
      EraseFails, StoreRow, StoreFails, HangUp, ReadRoutes, GetIngress, PutIngress, SyncFails
  <2>3. \/ holds' = holds
        \/ \E b \in BOOLEAN : holds' = [holds EXCEPT ![r] = b]
        \/ NoLongerHeld(req[r].host)
    BY <1>2 DEF Steps, PostRecord, LookAtRecord, PatchRecord, RecordCallFails, FindRecord, EraseRecord,
      EraseFails, StoreRow, StoreFails, HangUp, ReadRoutes, GetIngress, PutIngress, SyncFails, Erase
  <2>4. holds' \in [Requests -> BOOLEAN]
    BY <2>3 DEF NoLongerHeld
  <2>5. left' \in 0 .. MaxFaults
    BY <2>1, DomainNaming
  <2>6. QED  BY <2>2, <2>4, <2>5
<1>3. ASSUME Restart \/ Outside PROVE Counted'
  <2>1. left > 0 /\ left' = left - 1 /\ begun' = begun
    BY <1>3 DEF Restart, Outside, OutsiderMovesRecord, OutsiderAddsRule, Spend
  <2>2. holds' \in [Requests -> BOOLEAN]
    BY <1>3 DEF Restart, Outside, OutsiderMovesRecord, OutsiderAddsRule, NoLongerHeld
  <2>3. QED  BY <2>1, <2>2, DomainNaming
<1>4. ASSUME NEW p \in Projects, Register(p) PROVE Counted'
  BY <1>4 DEF Register
<1>5. CASE UNCHANGED vars
  BY <1>5 DEF vars
<1>6. QED  BY <1>1, <1>2, <1>3, <1>4, <1>5 DEF Next

\* A step that leaves the table and the tunnel alone and ends no sync in silence.
LEMMA SettledStays ==
  ASSUME Settled, UNCHANGED <<row, ingress>>, unsure => unsure',
         \A s \in Requests : req[s].pc \in Syncing => req'[s].pc \in Syncing \/ unsure'
  PROVE  Settled'
BY DEF Settled

LEMMA TypedStays == ASSUME RulesTyped, UNCHANGED <<sync, ingress>> PROVE RulesTyped'
BY DEF RulesTyped

\* The rows, the rules and the requests' hosts in one step of a request that
\* neither syncs nor writes its row.
LEMMA BeforeTheSync ==
  ASSUME DrawInv, RoutesInv, NEW r \in Requests,
         \/ Begins(r)
         \/ PostRecord(r) \/ LookAtRecord(r) \/ PatchRecord(r) \/ RecordCallFails(r)
         \/ FindRecord(r) \/ EraseRecord(r) \/ EraseFails(r) \/ StoreFails(r) \/ HangUp(r)
  PROVE  RulesTyped' /\ Gone' /\ Settled'
<1>1. UNCHANGED <<row, ingress, sync, unsure>>
  BY DEF Begins, Reserve, Connect, Disconnect, Delete, PostRecord, LookAtRecord, PatchRecord,
    RecordCallFails, FindRecord, EraseRecord, EraseFails, StoreFails, HangUp
<1>2. req[r].pc \notin Syncing
  <2>1. CASE Begins(r)
    <3>1. req[r].op = "idle"
      BY <2>1 DEF Begins, Reserve, Connect, Disconnect, Delete, Begin
    <3>2. QED  BY <3>1 DEF DrawInv, Placed, Places, Syncing
  <2>2. CASE ~Begins(r)
    BY <2>2 DEF PostRecord, LookAtRecord, PatchRecord, RecordCallFails, FindRecord, EraseRecord,
      EraseFails, StoreFails, HangUp, At, Syncing
  <2>3. QED  BY <2>1, <2>2
<1>3. \A s \in Requests \ {r} : req'[s] = req[s]
  <2>1. CASE Begins(r)
    BY <2>1 DEF Begins, Reserve, Connect, Disconnect, Delete, Begin, DrawInv, Typed
  <2>2. CASE Steps(r) /\ ~StoreRow(r)
    BY <2>2, StepsOn DEF DrawInv, Typed
  <2>3. CASE StoreFails(r) \/ HangUp(r)
    BY <2>3 DEF StoreFails, HangUp, Go, Turn, Done, DrawInv, Typed
  <2>4. CASE StoreRow(r) /\ ~StoreFails(r) /\ ~HangUp(r) /\ ~Begins(r)
    BY <2>4 DEF StoreRow, PostRecord, LookAtRecord, PatchRecord, RecordCallFails, FindRecord,
      EraseRecord, EraseFails, At
  <2>5. QED  BY <2>1, <2>2, <2>3, <2>4 DEF Steps
<1>4. RulesTyped' /\ Settled'
  BY <1>1, <1>2, <1>3, TypedStays, SettledStays DEF RoutesInv
<1>5. QED  BY <1>1, <1>4 DEF RoutesInv, Gone

\* A request's write goes on to its sync.
LEMMA WriteSettles ==
  ASSUME DrawInv, RoutesInv, NEW r \in Requests, StoreRow(r)
  PROVE  RulesTyped' /\ Gone' /\ Settled'
<1>1. UNCHANGED <<ingress, sync>> /\ req'[r].pc = "routes"
  BY DEF StoreRow, Go, Turn, DrawInv, Typed
<1>2. Settled'
  BY <1>1 DEF Settled, Syncing
<1>3. Gone'
  <2> DEFINE p == req[r].project
  <2>1. p \in Projects /\ \A t \in Projects : row'[t] = IF t = p THEN Stored(r) ELSE row[t]
    BY StoredRow DEF DrawInv, Typed
  <2>2. Stored(r) = row[p] \/ Stored(r).there \/ Stored(r) = NoRow
    BY <2>1 DEF Stored, DrawInv, Typed, Placed, Places, Requested, StoreRow, At
  <2>3. ~Stored(r).there => Stored(r).auto = NoHost /\ Stored(r).custom = NoHost
    BY <2>1, <2>2 DEF RoutesInv, Gone, NoRow
  <2>4. QED  BY <2>1, <2>3 DEF RoutesInv, Gone
<1>4. QED  BY <1>1, <1>2, <1>3, TypedStays DEF RoutesInv

\* The sync: what was read of both is merged, and written over what is there.
LEMMA SyncSettles ==
  ASSUME DrawInv, RoutesInv, NEW r \in Requests,
         ReadRoutes(r) \/ GetIngress(r) \/ PutIngress(r) \/ SyncFails(r)
  PROVE  RulesTyped' /\ Gone' /\ Settled'
<1>1. Gone'
  BY DEF ReadRoutes, GetIngress, PutIngress, SyncFails, RoutesInv, Gone
<1>2. sync \in [Requests -> [routes : Seq(Ours), seen : Seq(Rules)]] /\ ingress \in Seq(Rules) /\ row \in [Projects -> Rows]
  BY DEF RoutesInv, RulesTyped, DrawInv, Typed
<1>3. sync[r].routes \in Seq(Ours) /\ sync[r].seen \in Seq(Rules)
  BY <1>2
<1>4. /\ Merged(r) \in Seq(Rules) /\ Merged(r) # <<>>
      /\ \A i \in DOMAIN Merged(r) : Merged(r)[i].host = NoHost <=> i = Len(Merged(r))
  BY <1>3, MergeIsWhole DEF Merged
<1>5. CASE ReadRoutes(r)
  <2>1. sync' = [sync EXCEPT ![r] = [routes |-> Routes(row), seen |-> <<>>]] /\ ingress' = ingress
    BY <1>5 DEF ReadRoutes
  <2>2. [routes |-> Routes(row), seen |-> <<>>] \in [routes : Seq(Ours), seen : Seq(Rules)]
    BY <1>2, RoutesHave
  <2>3. RulesTyped'
    BY <1>2, <2>1, <2>2 DEF RoutesInv, RulesTyped
  <2>4. req'[r].pc = "get"
    BY <1>5 DEF ReadRoutes, Go, Turn, DrawInv, Typed
  <2>5. QED  BY <1>1, <2>3, <2>4 DEF Settled, Syncing
<1>6. CASE GetIngress(r)
  <2>1. sync' = [sync EXCEPT ![r] = [routes |-> sync[r].routes, seen |-> ingress]] /\ ingress' = ingress
    BY <1>6 DEF GetIngress
  <2>2. RulesTyped'
    BY <1>2, <1>3, <2>1 DEF RoutesInv, RulesTyped
  <2>3. req'[r].pc = "put"
    BY <1>6 DEF GetIngress, Go, Turn, DrawInv, Typed
  <2>4. QED  BY <1>1, <2>2, <2>3 DEF Settled, Syncing
<1>7. ASSUME sync' = [sync EXCEPT ![r] = Nothing], ingress' \in {ingress, Merged(r)} PROVE RulesTyped'
  <2>1. Nothing \in [routes : Seq(Ours), seen : Seq(Rules)]
    BY DEF Nothing
  <2>2. sync' \in [Requests -> [routes : Seq(Ours), seen : Seq(Rules)]]
    BY <1>2, <1>7, <2>1
  <2>3. /\ ingress' \in Seq(Rules) /\ ingress' # <<>>
        /\ \A i \in DOMAIN ingress' : ingress'[i].host = NoHost <=> i = Len(ingress')
    BY <1>4, <1>7, Zenon DEF RoutesInv, RulesTyped
  <2>4. QED  BY <2>2, <2>3 DEF RulesTyped
<1>8. CASE PutIngress(r)
  <2>1. RulesTyped'
    BY <1>7, <1>8 DEF PutIngress, SyncEnds
  <2>2. Settled'
    <3> SUFFICES ASSUME ~unsure' PROVE Leads(ingress, row)'
      BY DEF Settled
    <3>1. sync[r].seen = ingress /\ sync[r].routes = Routes(row) /\ ingress' = Merged(r) /\ row' = row
      BY <1>8 DEF PutIngress
    <3>2. Leads(MergeIngress(ingress, Routes(row)), row)
      BY <1>2, MergeLeads
    <3>3. Leads(ingress', row)
      BY <3>1, <3>2 DEF Merged
    <3>4. QED  BY <3>1, <3>3 DEF Leads, Has
  <2>3. QED  BY <1>1, <2>1, <2>2
<1>9. CASE SyncFails(r)
  <2>1. RulesTyped'
    BY <1>7, <1>9 DEF SyncFails, SyncEnds
  <2>2. QED  BY <1>1, <1>9, <2>1 DEF Settled, SyncFails
<1>10. QED  BY <1>5, <1>6, <1>8, <1>9

\* Somebody's rule is a rule; for a host of nobody here it changes nothing for
\* webo's hosts.
LEMMA RuleAddedSettles ==
  ASSUME RoutesInv, NEW h \in Foreign, OutsiderAddsRule(h)
  PROVE  RulesTyped' /\ Gone' /\ Settled'
<1> DEFINE rule == [host |-> h, service |-> Elsewhere]
<1>1. ingress' = <<rule>> \o ingress /\ UNCHANGED <<row, sync, req, unsure>>
  BY DEF OutsiderAddsRule
<1>2. rule \in Rules /\ h # NoHost
  BY DomainNaming DEF Rules, Services
<1>3. ingress \in Seq(Rules) /\ ingress # <<>>
  BY DEF RoutesInv, RulesTyped
<1>4. PICK n \in Nat \ {0} : n = Len(ingress) /\ DOMAIN ingress = 1 .. n
  BY <1>3
<1>5. /\ ingress' \in Seq(Rules) /\ Len(ingress') = n + 1 /\ ingress'[1] = rule
      /\ \A i \in 1 .. n : ingress'[i + 1] = ingress[i]
  <2> HIDE DEF rule
  <2>1. <<rule>> \in Seq(Rules) /\ Len(<<rule>>) = 1 /\ <<rule>>[1] = rule
    BY <1>2
  <2>2. QED  BY <1>1, <1>3, <1>4, <2>1
<1>6. DOMAIN ingress' = 1 .. n + 1 /\ \A i \in 2 .. n + 1 : i - 1 \in 1 .. n /\ ingress'[i] = ingress[i - 1]
  BY <1>4, <1>5
<1>7. RulesTyped'
  <2>1. ASSUME NEW i \in 1 .. n + 1 PROVE ingress'[i].host = NoHost <=> i = n + 1
    <3>1. CASE i = 1
      BY <1>2, <1>4, <1>5, <3>1
    <3>2. CASE i \in 2 .. n + 1
      <4>1. ingress[i - 1].host = NoHost <=> i - 1 = n
        BY <1>4, <1>6, <3>2 DEF RoutesInv, RulesTyped
      <4>2. QED  BY <1>4, <1>6, <3>2, <4>1
    <3>3. QED  BY <1>4, <3>1, <3>2
  <2>2. ingress' # <<>>
    BY <1>5
  <2>3. QED  BY <1>1, <1>5, <1>6, <2>1, <2>2 DEF RoutesInv, RulesTyped
<1>8. ASSUME Foreign \cap Hosts = {} PROVE \A x : x.host \in Hosts => (x \in Range(ingress') <=> x \in Range(ingress))
  <2>1. Range(ingress') = {rule} \cup Range(ingress)
    <3>1. rule \in Range(ingress')
      BY <1>4, <1>5, <1>6 DEF Range
    <3>2. \A i \in 1 .. n : i + 1 \in DOMAIN ingress' /\ ingress'[i + 1] = ingress[i]
      BY <1>4, <1>5, <1>6
    <3>3. Range(ingress) \subseteq Range(ingress')
      BY <1>4, <3>2, Zenon DEF Range
    <3>4. \A i \in DOMAIN ingress' : ingress'[i] = rule \/ \E j \in DOMAIN ingress : ingress'[i] = ingress[j]
      <4>1. \A i \in 1 .. n + 1 : i = 1 \/ i \in 2 .. n + 1
        BY <1>4
      <4>2. QED  BY <1>4, <1>5, <1>6, <4>1
    <3> HIDE DEF rule
    <3>5. \A x \in Range(ingress') : x = rule \/ x \in Range(ingress)
      BY <3>4, Zenon DEF Range
    <3>6. QED  BY <3>1, <3>3, <3>5
  <2>2. rule.host \notin Hosts
    BY <1>8
  <2> HIDE DEF rule
  <2>3. QED  BY <2>1, <2>2
<1>9. Settled'
  <2>1. Foreign \cap Hosts = {} => (Leads(ingress, row) => Leads(ingress', row))
    BY <1>8 DEF Leads
  <2>2. Leads(ingress', row) => Leads(ingress, row)'
    BY <1>1 DEF Leads, Has
  <2>3. QED  BY <1>1, <2>1, <2>2 DEF RoutesInv, Settled
<1>10. QED  BY <1>1, <1>7, <1>9 DEF RoutesInv, Gone

LEMMA AroundSettles ==
  ASSUME DrawInv, RoutesInv, (\E p \in Projects : Register(p)) \/ Restart \/ UNCHANGED vars
         \/ \E h \in Hosts \cap Zone, to \in Records : OutsiderMovesRecord(h, to)
  PROVE  RulesTyped' /\ Gone' /\ Settled'
<1>1. CASE \E h \in Hosts \cap Zone, to \in Records : OutsiderMovesRecord(h, to)
  <2>1. UNCHANGED <<row, ingress, sync, req, unsure>>
    BY <1>1 DEF OutsiderMovesRecord
  <2>2. QED  BY <2>1, TypedStays, SettledStays DEF RoutesInv, Gone
<1>2. CASE UNCHANGED vars
  <2>1. UNCHANGED <<row, ingress, sync, req, unsure>>
    BY <1>2 DEF vars
  <2>2. QED  BY <2>1, TypedStays, SettledStays DEF RoutesInv, Gone
<1>3. CASE Restart
  <2>1. /\ UNCHANGED <<row, ingress>> /\ sync' = [r \in Requests |-> Nothing]
        /\ unsure' = (unsure \/ \E r \in Requests : req[r].pc \in Syncing)
    BY <1>3 DEF Restart, Syncing
  <2>2. Nothing \in [routes : Seq(Ours), seen : Seq(Rules)]
    BY DEF Nothing
  <2>3. RulesTyped'
    BY <2>1, <2>2 DEF RoutesInv, RulesTyped
  <2>4. Settled'
    BY <2>1, SettledStays DEF RoutesInv
  <2>5. QED  BY <2>1, <2>3, <2>4 DEF RoutesInv, Gone
<1>4. ASSUME NEW p \in Projects, Register(p) PROVE RulesTyped' /\ Gone' /\ Settled'
  <2>1. /\ UNCHANGED <<ingress, sync, req, unsure>> /\ ~row[p].there
        /\ \A t \in Projects : row'[t] = IF t = p THEN [there |-> TRUE, auto |-> NoHost, custom |-> NoHost] ELSE row[t]
    BY <1>4 DEF Register, DrawInv, Typed
  <2>2. \A t \in Projects, h \in Hosts : Has(row, t, h) <=> Has(row', t, h)
    BY <2>1 DEF RoutesInv, Gone, Has
  <2>3. Leads(ingress, row) => Leads(ingress', row')
    BY <2>1, <2>2 DEF Leads
  <2>4. Leads(ingress', row') => Leads(ingress, row)'
    BY DEF Leads, Has
  <2>5. Settled'
    BY <2>1, <2>3, <2>4 DEF RoutesInv, Settled
  <2>6. Gone'
    BY <2>1 DEF RoutesInv, Gone
  <2>7. QED  BY <2>1, <2>5, <2>6, TypedStays DEF RoutesInv
<1>5. QED  BY <1>1, <1>2, <1>3, <1>4

LEMMA RoutesStep == DrawInv /\ RoutesInv /\ [Next]_vars => RoutesInv'
<1> SUFFICES ASSUME DrawInv, RoutesInv, [Next]_vars PROVE RoutesInv'
  OBVIOUS
<1>1. Counted'
  BY CountedStays DEF RoutesInv
<1>2. ASSUME NEW r \in Requests, Begins(r) \/ Steps(r) PROVE RulesTyped' /\ Gone' /\ Settled'
  BY <1>2, BeforeTheSync, WriteSettles, SyncSettles DEF Steps
<1>3. RulesTyped' /\ Gone' /\ Settled'
  BY <1>2, AroundSettles, RuleAddedSettles DEF Next, Outside
<1>4. QED  BY <1>1, <1>3 DEF RoutesInv

THEOREM RoutesHold == Spec => []RoutesInv
BY RoutesInit, RoutesStep, DrawsApart, PTL DEF Spec

\* The state is of its type, the catch-all is the tunnel's last rule and no other,
\* and once a sync was not disturbed every host of every project is routed to it,
\* for any projects, hosts, requests and faults, as long as nobody else routes a
\* host of webo's through the tunnel (sync_routes, merge_ingress).
THEOREM RoutesStayWhole == ASSUME Foreign \cap Hosts = {} PROVE Spec => []RoutesAreWhole
<1>1. DrawInv /\ AskedFor /\ RoutesInv => RoutesAreWhole
  <2> SUFFICES ASSUME DrawInv, AskedFor, RoutesInv PROVE RoutesAreWhole
    OBVIOUS
  <2>1. TypeOK
    <3>1. sync \in [Requests -> [routes : Seq(Rules), seen : Seq(Rules)]]
      <4>1. \A r \in Requests : sync[r] \in [routes : Seq(Rules), seen : Seq(Rules)]
        BY OursAreRules DEF RoutesInv, RulesTyped
      <4>2. QED  BY <4>1 DEF RoutesInv, RulesTyped
    <3>2. QED  BY <3>1 DEF DrawInv, Typed, AskedFor, RoutesInv, RulesTyped, Counted, TypeOK
  <2>2. HostsAreServed
    <3>1. CASE ~unsure /\ \A r \in Requests : req[r].op = "idle"
      <4>1. \A r \in Requests : req[r].pc \notin Syncing
        BY <3>1 DEF DrawInv, Placed, Places, Syncing
      <4>2. QED  BY <3>1, <4>1, LeadsServe DEF RoutesInv, RulesTyped, Settled
    <3>2. CASE ~(~unsure /\ \A r \in Requests : req[r].op = "idle")
      BY <3>2 DEF HostsAreServed
    <3>3. QED  BY <3>1, <3>2
  <2>3. QED  BY <2>1, <2>2 DEF RoutesAreWhole
<1>2. QED  BY <1>1, RoutesHold, DrawsApart, AskedInvariance, PTL

-----------------------------------------------------------------------------
(* Everybody else's rules *)

\* The merge leaves the rules it keeps as they were.
SameOnly(m, seen, routes) == Only(m, NotOurs(routes)) = Only(seen, NotOurs(routes))

LEMMA MergeKeeps ==
  ASSUME NEW seen \in Seq(Rules), NEW routes \in Seq(Ours)
  PROVE  SameOnly(MergeIngress(seen, routes), seen, routes)
<1> DEFINE N == NotOurs(routes)
           kept == Only(seen, N)
           Own == {routes[i] : i \in DOMAIN routes}
<1>1. kept \in Seq(Rules \cap N) /\ kept \in Seq(Rules)
  BY OnlyPasses
<1>2. routes \in Seq(Own) /\ routes \in Seq(Rules) /\ Own \cap N = {}
  <2>1. \A i \in DOMAIN routes : routes[i] \notin N
    BY DEF NotOurs, Manages
  <2>2. QED  BY <2>1, OursAreRules
<1>3. CatchAll \in Rules /\ CatchAll \notin N
  BY DEF CatchAll, Rules, Services, NotOurs
<1>4. MergeIngress(seen, routes) = Append(kept \o routes, CatchAll)
  BY DEF MergeIngress
<1> HIDE DEF kept, Own, N
<1>5. Only(kept, N) = kept
  BY <1>1, OnlyOfAll
<1>6. Only(routes, N) = <<>>
  BY <1>2, OnlyOfOthers
<1>7. Only(kept \o routes, N) = kept
  <2>1. Only(kept \o routes, N) = Only(kept, N) \o Only(routes, N)
    <3>1. kept \in Seq(Rules) /\ routes \in Seq(Rules)
      BY <1>1, <1>2
    <3>2. QED  BY <3>1, OnlyOfTwo
  <2>2. kept \o <<>> = kept
    BY <1>1
  <2>3. QED  BY <1>5, <1>6, <2>1, <2>2, Zenon
<1>8. kept \o routes \in Seq(Rules)
  BY <1>1, <1>2
<1>9. Only(Append(kept \o routes, CatchAll), N) = kept
  <2>1. Only(Append(kept \o routes, CatchAll), N)
          = IF CatchAll \in N THEN Append(Only(kept \o routes, N), CatchAll) ELSE Only(kept \o routes, N)
    BY <1>3, <1>8, OnlyOfMore, Zenon
  <2>2. QED  BY <1>3, <1>7, <2>1, Zenon
<1>10. QED  BY <1>4, <1>9 DEF SameOnly, kept, N

\* A write of the routes that nobody overtook leaves the rules of other hosts as
\* they were, in their order, whatever hosts they are for (merge_ingress).
THEOREM OthersRulesStay == Spec => ForeignRulesStay
<1> DEFINE Stay == \A r \in Requests : At(r, "put") /\ req'[r].pc = "idle" /\ sync[r].seen = ingress =>
                     Only(ingress', NotOurs(sync[r].routes)) = Only(ingress, NotOurs(sync[r].routes))
<1>1. DrawInv /\ RoutesInv /\ [Next]_vars => [Stay]_vars
  <2> SUFFICES ASSUME DrawInv, RoutesInv, Next, NEW r \in Requests,
                      At(r, "put"), req'[r].pc = "idle", sync[r].seen = ingress
               PROVE  Only(ingress', NotOurs(sync[r].routes)) = Only(ingress, NotOurs(sync[r].routes))
    OBVIOUS
  <2>1. sync[r].routes \in Seq(Ours) /\ sync[r].seen \in Seq(Rules)
    BY DEF RoutesInv, RulesTyped
  <2>2. SameOnly(Merged(r), ingress, sync[r].routes)
    BY <2>1, MergeKeeps DEF Merged
  <2>3. ingress' \in {ingress, Merged(r)}
    <3>1. ASSUME NEW s \in Requests, Begins(s) PROVE ingress' = ingress
      BY <3>1 DEF Begins, Reserve, Connect, Disconnect, Delete
    <3>2. ASSUME NEW s \in Requests, Steps(s) PROVE ingress' \in {ingress, Merged(r)}
      <4>1. CASE s = r /\ (PutIngress(s) \/ SyncFails(s))
        BY <4>1 DEF PutIngress, SyncFails
      <4>2. CASE s # r /\ (PutIngress(s) \/ SyncFails(s))
        <5>1. req'[r] = req[r]
          BY <4>2 DEF PutIngress, SyncFails, SyncEnds, Done, DrawInv, Typed
        <5>2. QED  BY <5>1 DEF At
      <4>3. CASE ~(PutIngress(s) \/ SyncFails(s))
        BY <3>2, <4>3 DEF Steps, PostRecord, LookAtRecord, PatchRecord, RecordCallFails, FindRecord,
          EraseRecord, EraseFails, StoreRow, StoreFails, HangUp, ReadRoutes, GetIngress
      <4>4. QED  BY <4>1, <4>2, <4>3
    <3>3. CASE (\E p \in Projects : Register(p)) \/ Restart
      BY <3>3 DEF Register, Restart
    <3>4. CASE \E h \in Hosts \cap Zone, to \in Records : OutsiderMovesRecord(h, to)
      BY <3>4 DEF OutsiderMovesRecord
    <3>5. CASE \E h \in Foreign : OutsiderAddsRule(h)
      BY <3>5 DEF OutsiderAddsRule, At
    <3>6. QED  BY <3>1, <3>2, <3>3, <3>4, <3>5 DEF Next, Outside
  <2>4. QED  BY <2>2, <2>3 DEF SameOnly
<1>2. QED  BY <1>1, RoutesHold, DrawsApart, AskedInvariance, PTL DEF Spec, ForeignRulesStay
=============================================================================
