--------------------------- MODULE DomainControl ---------------------------
(***************************************************************************)
(* The control plane of workspace domains, apps/nova-domain-control:       *)
(*                                                                         *)
(*   src/store.ts         SurrealDomainStore: proxy and domain rows        *)
(*   src/server.ts        the admin requests                               *)
(*   src/caddy.ts         the routes of the edge proxy                     *)
(*   src/verification.ts  the TXT record that proves a host is owned       *)
(*                                                                         *)
(* A request is cut at its awaits: between reading a row and writing it,   *)
(* or asking the DNS, other requests run.  Rows are identified by a        *)
(* number, so that a request which comes back to a row it has read can     *)
(* find it gone, or find another row of the same host.  The token of a row *)
(* is made with the row and never changes, so the number stands for it,    *)
(* and for the claim on the host that the row is.                          *)
(*                                                                         *)
(* Only the configuration with a Caddy admin endpoint is modelled.  The    *)
(* bearer token, the studio a removal is asked for, ports and addresses,   *)
(* and the requests that only read are left out, and so is the status      *)
(* "blocked", which no code sets.                                          *)
(***************************************************************************)
EXTENDS Naturals, FiniteSets

CONSTANTS
  Host,        \* hosts that requests name
  Subdomain,   \* those under the configured subdomainHost
  Proxy,       \* proxyNames; one row each, never deleted
  Request,     \* requests that may be in progress together
  NoHost, NoProxy,
  MaxRemoved,  \* bound: domain rows deleted
  MaxFaults    \* bound: calls of the database, the DNS or Caddy that fail

ASSUME HostAssumption == Subdomain \subseteq Host /\ NoHost \notin Host
ASSUME ProxyAssumption == NoProxy \notin Proxy
ASSUME BoundAssumption == MaxRemoved \in Nat /\ MaxFaults \in Nat

VARIABLES
  made,     \* the proxies with a workspace_proxy row
  enabled,  \* those whose row is enabled
  dom,      \* dom[h]: the proxy_domain row of h
  routes,   \* routes[h]: where Caddy sends h, and for which row of h
  txt,      \* txt[h]: tokens in the TXT record of h
  proved,   \* history: proved[h], the rows of h whose token the DNS has shown
  contested,\* history: contested[h], the rows of h created while a verify of
            \*          an earlier row of h was under way
  req,      \* req[q]: the request q in progress
  removed, faults

rows == <<made, enabled, dom>>
history == <<proved, contested>>
bounds == <<removed, faults>>
vars == <<rows, routes, txt, history, req, bounds>>

Custom == Host \ Subdomain
Kind == {"subdomain", "custom"}
Status == {"absent", "pending", "verified", "active"}

Domain(n, p, k, st) == [num |-> n, proxy |-> p, kind |-> k, status |-> st]
NoRow == Domain(0, NoProxy, "custom", "absent")
Number == 1..(MaxRemoved + 1)
Row == [num : Number \cup {0}, proxy : Proxy \cup {NoProxy},
        kind : Kind, status : Status]
NoRoute == [proxy |-> NoProxy, num |-> 0]

\* Names in the body of an upsert: generatedHost makes the host of a
\* subdomain, a custom domain is any valid host.
Name == [host : Subdomain, kind : {"subdomain"}] \cup [host : Host, kind : {"custom"}]
NameOf(h) == [host |-> h, kind |-> "custom"]
NoName == NameOf(NoHost)

\* A request: where it waits, its proxy, the names it has still to save, the
\* name it is at, the row it has read, the token it verifies (0: none), the
\* status it is about to set, and what it knows of the proxy or sends to
\* Caddy: specs[h] is the row for which it routes h.
PC == {"idle", "proxyPut", "domainRead", "domainPut", "dns", "setRead",
       "setPut", "syncProxy", "syncRead", "load", "delete"}
Handlers == [pc : PC, proxy : Proxy \cup {NoProxy}, todo : SUBSET Name,
             name : Name \cup {NoName}, row : Row, token : Number \cup {0},
             put : Status, seen : BOOLEAN, specs : [Host -> Number \cup {0}]]
Idle == [pc |-> "idle", proxy |-> NoProxy, todo |-> {}, name |-> NoName,
         row |-> NoRow, token |-> 0, put |-> "absent", seen |-> FALSE,
         specs |-> [h \in Host |-> 0]]

TypeOK ==
  /\ made \subseteq Proxy
  /\ enabled \subseteq Proxy
  /\ dom \in [Host -> Row]
  /\ routes \in [Host -> [proxy : Proxy \cup {NoProxy}, num : Number \cup {0}]]
  /\ txt \in [Host -> SUBSET Number]
  /\ proved \in [Host -> SUBSET Number]
  /\ contested \in [Host -> SUBSET Number]
  /\ req \in [Request -> Handlers]
  /\ removed \in 0..MaxRemoved
  /\ faults \in 0..MaxFaults

Init ==
  /\ made = {}
  /\ enabled = {}
  /\ dom = [h \in Host |-> NoRow]
  /\ routes = [h \in Host |-> NoRoute]
  /\ txt = [h \in Host |-> {}]
  /\ proved = [h \in Host |-> {}]
  /\ contested = [h \in Host |-> {}]
  /\ req = [q \in Request |-> Idle]
  /\ removed = 0
  /\ faults = 0

At(q, pc) == req[q].pc = pc
Become(q, r) == req' = [req EXCEPT ![q] = r]
End(q) == Become(q, Idle)
-----------------------------------------------------------------------------
(* POST /admin/proxies *)

\* A body names a proxy and hosts, each host once.
Upsert(q, p, names) ==
  /\ At(q, "idle")
  /\ \A a, b \in names : a.host = b.host => a = b
  /\ Become(q, [Idle EXCEPT !.pc = "proxyPut", !.proxy = p, !.todo = names,
                            !.seen = p \in made])
  /\ UNCHANGED <<rows, routes, txt, history, bounds>>

ReservedNever(a) == FALSE

Reserved(a) == a.kind = "custom" /\ a.host \in Subdomain

\* The row is updated or created (a second create of the name breaks the
\* unique index), and only then are the names checked.
UpsertProxy(q) ==
  /\ At(q, "proxyPut")
  /\ LET p == req[q].proxy
         names == req[q].todo
     IN IF ~req[q].seen /\ p \in made
        THEN End(q) /\ UNCHANGED <<made, enabled>>
        ELSE /\ made' = made \cup {p}
             /\ \E on \in BOOLEAN :
                  enabled' = IF on THEN enabled \cup {p} ELSE enabled \ {p}
             /\ IF names = {} \/ \E a \in names : Reserved(a)
                THEN End(q)
                ELSE Become(q, [req[q] EXCEPT !.pc = "domainRead", !.seen = FALSE])
  /\ UNCHANGED <<dom, routes, txt, history, bounds>>

UpsertRead(q) ==
  /\ At(q, "domainRead")
  /\ \E a \in req[q].todo :
       Become(q, [req[q] EXCEPT !.pc = "domainPut", !.name = a,
                                !.todo = @ \ {a}, !.row = dom[a.host]])
  /\ UNCHANGED <<rows, routes, txt, history, bounds>>

\* What a name is saved as: a subdomain is active at once, a custom domain
\* keeps the status its row had when it was read.
Saved(q) ==
  LET a == req[q].name
      row == req[q].row
  IN Domain(IF row = NoRow THEN removed + 1 ELSE row.num, req[q].proxy, a.kind,
            IF a.kind = "subdomain" THEN "active"
            ELSE IF row = NoRow THEN "pending" ELSE row.status)

Verifies(q, h) == req[q].token > 0 /\ req[q].name.host = h

\* The history of a row that is created while a verify of its host, asked for
\* an earlier row, has not ended.
Contest(h, num) ==
  contested' = IF \E x \in Request : Verifies(x, h)
               THEN [contested EXCEPT ![h] = @ \cup {num}] ELSE contested

\* A row that was read is updated by its id, and a row that is gone by then
\* ends the request with an error; so does a create for a host that has one.
UpsertDomain(q) ==
  /\ At(q, "domainPut")
  /\ LET h == req[q].name.host
     IN IF dom[h].num = req[q].row.num
        THEN /\ dom' = [dom EXCEPT ![h] = Saved(q)]
             /\ IF dom[h].num = 0 THEN Contest(h, removed + 1) ELSE UNCHANGED contested
             /\ IF req[q].todo = {}
                THEN End(q)
                ELSE Become(q, [req[q] EXCEPT !.pc = "domainRead", !.name = NoName,
                                              !.row = NoRow])
        ELSE End(q) /\ UNCHANGED <<dom, contested>>
  /\ UNCHANGED <<made, enabled, routes, txt, proved, bounds>>
-----------------------------------------------------------------------------
(* POST /admin/domains/verify *)

VerifyAnyKind(q, h) ==
  /\ At(q, "idle")
  /\ dom[h] # NoRow
  /\ Become(q, [Idle EXCEPT !.pc = "dns", !.token = dom[h].num,
                            !.proxy = dom[h].proxy, !.name = NameOf(h)])
  /\ UNCHANGED <<rows, routes, txt, history, bounds>>

Verify(q, h) ==
  /\ At(q, "idle")
  /\ dom[h] # NoRow /\ dom[h].kind = "custom"
  /\ Become(q, [Idle EXCEPT !.pc = "dns", !.token = dom[h].num,
                            !.proxy = dom[h].proxy, !.name = NameOf(h)])
  /\ UNCHANGED <<rows, routes, txt, history, bounds>>

\* Takes any token the record holds, as of an earlier row of the host.
VerifyDnsAnyToken(q) ==
  /\ At(q, "dns")
  /\ LET h == req[q].name.host
     IN IF txt[h] # {}
        THEN /\ proved' = [proved EXCEPT ![h] = @ \cup txt[h]]
             /\ Become(q, [req[q] EXCEPT !.pc = "setRead", !.put = "verified"])
        ELSE End(q) /\ UNCHANGED proved
  /\ UNCHANGED <<rows, routes, txt, contested, bounds>>

\* The answer is compared with the token of the row read before the query.
VerifyDns(q) ==
  /\ At(q, "dns")
  /\ LET h == req[q].name.host
     IN IF req[q].token \in txt[h]
        THEN /\ proved' = [proved EXCEPT ![h] = @ \cup {req[q].token}]
             /\ Become(q, [req[q] EXCEPT !.pc = "setRead", !.put = "verified"])
        ELSE End(q) /\ UNCHANGED proved
  /\ UNCHANGED <<rows, routes, txt, contested, bounds>>

\* setDomainStatus finds the row by its host, and does nothing without one.
\* Whatever it returns, the handler goes on: after "verified" to Caddy, after
\* "active" to its answer.
AfterSet(q) ==
  IF req[q].put = "verified"
  THEN Become(q, [req[q] EXCEPT !.pc = "syncProxy", !.row = NoRow])
  ELSE End(q)

SetRead(q) ==
  /\ At(q, "setRead")
  /\ LET h == req[q].name.host
     IN IF dom[h] = NoRow
        THEN AfterSet(q)
        ELSE Become(q, [req[q] EXCEPT !.pc = "setPut", !.row = dom[h]])
  /\ UNCHANGED <<rows, routes, txt, history, bounds>>

SetPut(q) ==
  /\ At(q, "setPut")
  /\ LET h == req[q].name.host
     IN dom' = IF dom[h].num = req[q].row.num
               THEN [dom EXCEPT ![h].status = req[q].put] ELSE dom
  /\ AfterSet(q)
  /\ UNCHANGED <<made, enabled, routes, txt, history, bounds>>
-----------------------------------------------------------------------------
(* POST /admin/proxies/:name/sync-caddy, and the same calls of a verify *)

Sync(q, p) ==
  /\ At(q, "idle")
  /\ Become(q, [Idle EXCEPT !.pc = "syncProxy", !.proxy = p])
  /\ UNCHANGED <<rows, routes, txt, history, bounds>>

\* listProxyDomains reads the proxy, then its domains.
SyncProxy(q) ==
  /\ At(q, "syncProxy")
  /\ Become(q, [req[q] EXCEPT !.pc = "syncRead", !.seen = req[q].proxy \in enabled])
  /\ UNCHANGED <<rows, routes, txt, history, bounds>>

RoutedAnyStatus(q, h) ==
  dom[h].proxy = req[q].proxy \/ h = req[q].name.host

\* buildRouteSpecs: a verify counts its own host as active already.
Routed(q, h) ==
  /\ dom[h].proxy = req[q].proxy
  /\ dom[h].status = "active" \/ h = req[q].name.host

SyncRead(q) ==
  /\ At(q, "syncRead")
  /\ Become(q, [req[q] EXCEPT !.pc = "load",
                              !.specs = [h \in Host |-> IF req[q].seen /\ Routed(q, h)
                                                       THEN dom[h].num ELSE 0]])
  /\ UNCHANGED <<rows, routes, txt, history, bounds>>

\* mergeWorkspaceRoutes: the managed routes become those of this proxy, the
\* routes of every other proxy are dropped.
Merged(q) ==
  [h \in Host |-> IF req[q].specs[h] = 0 THEN NoRoute
                  ELSE [proxy |-> req[q].proxy, num |-> req[q].specs[h]]]

SyncLoadLast(q) ==
  /\ At(q, "load")
  /\ routes' = Merged(q)
  /\ End(q)
  /\ UNCHANGED <<rows, txt, history, bounds>>

SyncLoad(q) ==
  /\ At(q, "load")
  /\ routes' = Merged(q)
  /\ IF req[q].put = "verified"
     THEN Become(q, [req[q] EXCEPT !.pc = "setRead", !.put = "active",
                                   !.seen = FALSE, !.specs = Idle.specs])
     ELSE End(q)
  /\ UNCHANGED <<rows, txt, history, bounds>>
-----------------------------------------------------------------------------
(* DELETE /admin/proxies/:name and DELETE /admin/domains/:host *)

Disable(p) ==
  /\ p \in enabled
  /\ enabled' = enabled \ {p}
  /\ UNCHANGED <<made, dom, routes, txt, history, req, bounds>>

Remove(q, h) ==
  /\ At(q, "idle")
  /\ dom[h] # NoRow
  /\ removed < MaxRemoved
  /\ Become(q, [Idle EXCEPT !.pc = "delete", !.row = dom[h], !.name = NameOf(h)])
  /\ UNCHANGED <<rows, routes, txt, history, bounds>>

RemoveRow(q) ==
  /\ At(q, "delete")
  /\ LET h == req[q].name.host
     IN IF dom[h].num = req[q].row.num
        THEN /\ removed < MaxRemoved
             /\ dom' = [dom EXCEPT ![h] = NoRow]
             /\ removed' = removed + 1
        ELSE UNCHANGED <<dom, removed>>
  /\ End(q)
  /\ UNCHANGED <<made, enabled, routes, txt, history, faults>>
-----------------------------------------------------------------------------
(* The owner of a host and the failures of a call. *)

PublishTxt(h) ==
  /\ dom[h].num > 0 /\ dom[h].kind = "custom"
  /\ dom[h].num \notin txt[h]
  /\ txt' = [txt EXCEPT ![h] = @ \cup {dom[h].num}]
  /\ UNCHANGED <<rows, routes, history, req, bounds>>

WithdrawTxt(h) ==
  /\ txt[h] # {}
  /\ txt' = [txt EXCEPT ![h] = {}]
  /\ UNCHANGED <<rows, routes, history, req, bounds>>

\* Any call may throw, and the handler answers 500.
Fail(q) ==
  /\ ~At(q, "idle")
  /\ faults < MaxFaults
  /\ faults' = faults + 1
  /\ End(q)
  /\ UNCHANGED <<rows, routes, txt, history, removed>>

Step(q) ==
  \/ UpsertProxy(q) \/ UpsertRead(q) \/ UpsertDomain(q)
  \/ VerifyDns(q) \/ SetRead(q) \/ SetPut(q)
  \/ SyncProxy(q) \/ SyncRead(q) \/ SyncLoad(q)
  \/ RemoveRow(q)

Next ==
  \/ \E q \in Request, p \in Proxy :
       Sync(q, p) \/ \E names \in SUBSET Name : Upsert(q, p, names)
  \/ \E q \in Request, h \in Host : Verify(q, h) \/ Remove(q, h)
  \/ \E q \in Request : Step(q) \/ Fail(q)
  \/ \E p \in Proxy : Disable(p)
  \/ \E h \in Host : PublishTxt(h) \/ WithdrawTxt(h)

\* The event loop runs every handler on; clients and owners owe nothing.
Spec == Init /\ [][Next]_vars /\ \A q \in Request : WF_vars(Step(q))
-----------------------------------------------------------------------------
\* The rows of h that may be more than pending: those whose own token was seen,
\* and those that a verify of an earlier row may have taken for that one.
Vouched(h) == proved[h] \cup contested[h]

\* A row of h, or what a request has read as one: the row of a host of the
\* base domain is active, that of a customer's host was vouched for if it is
\* more than pending.
Sound(h, row) ==
  \/ row = NoRow
  \/ /\ row.num > 0
     /\ (row.kind = "subdomain") <=> (h \in Subdomain)
     /\ IF h \in Subdomain THEN row.status = "active"
        ELSE \/ row.status = "pending"
             \/ row.status \in {"verified", "active"} /\ row.num \in Vouched(h)

\* What a request waiting at its place may carry.
SoundRequest(q) ==
  /\ req[q].pc = "proxyPut" => req[q].proxy \in Proxy
  /\ req[q].pc \in {"domainRead", "domainPut"} => \A a \in req[q].todo : ~Reserved(a)
  /\ req[q].pc = "domainPut" =>
       /\ req[q].name \in Name /\ ~Reserved(req[q].name)
       /\ Sound(req[q].name.host, req[q].row)
  /\ req[q].pc = "delete" => req[q].name.host \in Host
  /\ req[q].pc = "setPut" => req[q].row.num > 0
  /\ req[q].pc = "load" =>
       \A h \in Custom : req[q].specs[h] > 0 => req[q].specs[h] \in Vouched(h)
  /\ IF req[q].token = 0
     THEN /\ req[q].pc \notin {"dns", "setRead", "setPut"}
          /\ req[q].put = "absent"
          /\ req[q].pc \in {"syncProxy", "syncRead", "load"} => req[q].name = NoName
     ELSE /\ req[q].name.host \in Custom
          /\ \/ req[q].pc = "dns" /\ req[q].put = "absent"
             \/ /\ req[q].pc \in {"setRead", "setPut", "syncProxy", "syncRead", "load"}
                /\ req[q].put \in {"verified", "active"}
                /\ req[q].token \in proved[req[q].name.host]

\* The row a verify will find for its host is the one it asked about, or was
\* created while it was under way.
FindsItsRow(q) ==
  LET h == req[q].name.host
  IN req[q].token > 0 =>
       /\ req[q].token <= removed \/ req[q].token = dom[h].num
       /\ dom[h].num \in {0, req[q].token} \cup contested[h]

\* A number names one row of a host: no row made from now on has one that is
\* in the histories.
Fresh(h) ==
  /\ dom[h].num <= removed + 1
  /\ \A n \in Vouched(h) : n <= removed \/ n = dom[h].num

(* The inductive invariant of the proofs, checked here first.              *)
IInv ==
  /\ TypeOK
  /\ \A h \in Host : Sound(h, dom[h]) /\ Fresh(h)
  /\ \A q \in Request : SoundRequest(q) /\ FindsItsRow(q)
  /\ \A h \in Custom : routes[h] # NoRoute => routes[h].num \in Vouched(h)

(* The row of a customer's host is called verified or active only after    *)
(* the token of that very row was seen in the DNS, also when a request     *)
(* writes back the status the row had before another request changed it    *)
(* (store.ts:324), and when the host was verified before, removed and      *)
(* claimed again.  The exception is the row that was created while a       *)
(* verify of an earlier row of the host was under way: that verify finds   *)
(* its row by the host (server.ts:193, 207; store.ts:364) and activates    *)
(* the new one, whose token nobody has seen.                               *)
ActiveIsProved ==
  \A h \in Custom :
    dom[h].status \in {"verified", "active"} /\ dom[h].num \notin contested[h]
      => dom[h].num \in proved[h]

(* Caddy is given a customer's host only for a row whose own token was     *)
(* seen (with the same exception): neither a sync that runs beside a       *)
(* verify, nor the verify's own early route (server.ts:202) exposes a host *)
(* for a row that is still to be proved.  A route outlives its row: the    *)
(* row is the one it was made for, not the one the host has now.           *)
RoutesAreProved ==
  \A h \in Custom :
    routes[h] # NoRoute /\ routes[h].num \notin contested[h] => routes[h].num \in proved[h]

Lifecycle ==
  INSTANCE HostLifecycle WITH
    stage <- [h \in Host |-> dom[h].status],
    claim <- [h \in Host |-> dom[h].num],
    asked <- [h \in Host |-> {req[q].token : q \in {x \in Request : Verifies(x, h)}}]

(* Every step of every request is a step of the host's promised life, or   *)
(* changes nothing of it (server.ts and store.ts as HostLifecycle).        *)
ImplementsLifecycle == Lifecycle!Spec

\* The owner keeps the token of the row published, and its user asks for
\* the verification again as often as there is a handler to take it.
OwnerPublishes == \A h \in Custom : <>[](dom[h].num = 0 \/ dom[h].num \in txt[h])
UserRetries == \A h \in Custom : SF_vars(\E q \in Request : Verify(q, h))

(* "verified" is left again: a verify that failed between its two status   *)
(* writes (server.ts:193 and :207), or whose "active" was overwritten by   *)
(* an upsert that had read "verified", is repaired by asking again.        *)
VerifiedSettles ==
  OwnerPublishes /\ UserRetries =>
    \A h \in Custom : dom[h].status = "verified" ~> dom[h].status # "verified"
=============================================================================
