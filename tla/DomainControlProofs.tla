------------------------ MODULE DomainControlProofs ------------------------
(***************************************************************************)
(* Proofs about DomainControl for any hosts, proxies and requests and any  *)
(* number of removals and failing calls.  The argument: what a request     *)
(* carries from one await to the next (the row it read, the status it is   *)
(* about to set, the hosts it sends to Caddy) is either pending or about a *)
(* row that was vouched for, and a row stays vouched for; so writing it    *)
(* back late can lower the status of a row, and never raise one that was   *)
(* not vouched for.  A verify finds under its host the row it asked about, *)
(* or one that was created beside it, which is contested.                  *)
(***************************************************************************)
EXTENDS DomainControl, TLAPS

USE DEF rows, history, bounds, At, Become, End, Custom, Vouched

LEMMA RowType == NoRow \in Row /\ NoName.host \notin Host /\ Idle \in Handlers
BY HostAssumption, BoundAssumption
   DEF NoRow, Domain, Row, Kind, Status, NoName, NameOf, Idle, Handlers, PC, Number

\* Handlers that requests become.
LEMMA GoType ==
  ASSUME TypeOK, NEW q \in Request, NEW pc \in PC
  PROVE  /\ req[q] \in Handlers
         /\ [req[q] EXCEPT !.pc = pc] \in Handlers
         /\ \A put \in Status : [req[q] EXCEPT !.pc = pc, !.put = put] \in Handlers
         /\ \A row \in Row : [req[q] EXCEPT !.pc = pc, !.row = row] \in Handlers
         /\ \A seen \in BOOLEAN : [req[q] EXCEPT !.pc = pc, !.seen = seen] \in Handlers
         /\ \A specs \in [Host -> Number \cup {0}] :
              [req[q] EXCEPT !.pc = pc, !.specs = specs] \in Handlers
<1>1. req[q] \in Handlers
  BY DEF TypeOK
<1> QED
  BY <1>1 DEF Handlers

\* A handler that moves, and nothing else of the handlers, keeps their type.
LEMMA MoveType ==
  ASSUME TypeOK, NEW q \in Request, NEW r \in Handlers, Become(q, r)
  PROVE  /\ req' \in [Request -> Handlers]
         /\ req'[q] = r /\ \A x \in Request \ {q} : req'[x] = req[x]
BY DEF TypeOK

LEMMA SavedType ==
  ASSUME TypeOK, NEW q \in Request, req[q].name \in Name
  PROVE  Saved(q) \in Row
<1>1. req[q] \in Handlers /\ removed \in 0..MaxRemoved /\ MaxRemoved \in Nat
  BY BoundAssumption DEF TypeOK
<1>2. removed + 1 \in Number \cup {0}
  BY <1>1 DEF Number
<1>3. req[q].name.kind \in Kind
  BY DEF Name, Kind
<1>4. req[q].row.num \in Number \cup {0} /\ req[q].row.status \in Status
  BY <1>1 DEF Handlers, Row
<1>5. req[q].proxy \in Proxy \cup {NoProxy}
  BY <1>1 DEF Handlers
<1> QED
  BY <1>2, <1>3, <1>4, <1>5 DEF Saved, Domain, Row, Status

\* A name that a body may hold is about a host.
LEMMA NameHost ==
  ASSUME NEW a \in Name
  PROVE  a.host \in Host /\ (a.kind = "subdomain" => a.host \in Subdomain)
         /\ a.kind \in {"subdomain", "custom"}
BY HostAssumption DEF Name
-----------------------------------------------------------------------------
(* The requests that do not move *)

\* The histories only grow.
Grows == \A h \in Host : proved[h] \subseteq proved'[h] /\ contested[h] \subseteq contested'[h]

LEMMA SoundStays ==
  ASSUME Grows, NEW h \in Host, NEW row, Sound(h, row)
  PROVE  Sound(h, row)'
BY DEF Grows, Sound

\* If one request moves and the histories only grow, the others are as sound
\* as they were.
LEMMA OthersSound ==
  ASSUME IInv, NEW q \in Request, NEW r \in Handlers, Become(q, r),
         Grows, SoundRequest(q)'
  PROVE  \A x \in Request : SoundRequest(x)'
<1> SUFFICES ASSUME NEW x \in Request PROVE SoundRequest(x)'
  OBVIOUS
<1>1. CASE x = q
  BY <1>1
<1>2. CASE x # q
  <2>1. req'[x] = req[x]
    BY <1>2, MoveType DEF IInv
  <2>2. SoundRequest(x)
    BY DEF IInv
  <2>3. req[x].pc = "domainPut" => Sound(req[x].name.host, req[x].row)'
    <3>1. req[x].pc = "domainPut" => Sound(req[x].name.host, req[x].row)
                                     /\ req[x].name.host \in Host
      BY <2>2, NameHost DEF SoundRequest
    <3>2. ASSUME req[x].pc = "domainPut"
          PROVE  Sound(req[x].name.host, req[x].row)'
      <4>1. PICK h \in Host, row \in {req[x].row} : h = req[x].name.host
        BY <3>1, <3>2
      <4>2. req'[x].name.host = h /\ req'[x].row = row /\ Sound(h, row)
        BY <2>1, <3>1, <3>2, <4>1
      <4> QED
        BY <4>2 DEF Grows, Sound
    <3> QED
      BY <3>2
  <2>4. req[x].pc = "load" =>
          \A h \in Custom : req[x].specs[h] > 0 => req[x].specs[h] \in Vouched(h)'
    BY <2>2 DEF SoundRequest, Grows
  <2>5. req[x].token # 0 =>
          /\ req[x].name.host \in Custom
          /\ \/ req[x].pc = "dns" /\ req[x].put = "absent"
             \/ /\ req[x].pc \in {"setRead", "setPut", "syncProxy", "syncRead", "load"}
                /\ req[x].put \in {"verified", "active"}
                /\ req[x].token \in proved'[req[x].name.host]
    BY <2>2 DEF SoundRequest, Grows
  <2>6. /\ req[x].pc = "proxyPut" => req[x].proxy \in Proxy
        /\ req[x].pc \in {"domainRead", "domainPut"} => \A a \in req[x].todo : ~Reserved(a)
        /\ req[x].pc = "domainPut" => req[x].name \in Name /\ ~Reserved(req[x].name)
        /\ req[x].pc = "delete" => req[x].name.host \in Host
        /\ req[x].pc = "setPut" => req[x].row.num > 0
        /\ req[x].token = 0 =>
             /\ req[x].pc \notin {"dns", "setRead", "setPut"}
             /\ req[x].put = "absent"
             /\ req[x].pc \in {"syncProxy", "syncRead", "load"} => req[x].name = NoName
    BY <2>2 DEF SoundRequest
  <2> QED
    BY <2>1, <2>3, <2>4, <2>5, <2>6 DEF SoundRequest, Reserved
<1> QED
  BY <1>1, <1>2

\* A request that moves on with its token, or without one, finds its row if
\* no row is made or removed.
LEMMA OthersFind ==
  ASSUME IInv, NEW q \in Request, NEW r \in Handlers, Become(q, r),
         (r.token = 0 \/ (r.token = req[q].token /\ r.name = req[q].name)),
         \A h \in Host : dom'[h].num = dom[h].num,
         UNCHANGED <<removed, contested>>
  PROVE  \A x \in Request : FindsItsRow(x)'
<1> SUFFICES ASSUME NEW x \in Request, req'[x].token > 0 PROVE FindsItsRow(x)'
  BY DEF FindsItsRow
<1>1. req'[x].token = req[x].token /\ req'[x].name = req[x].name
  <2>1. CASE x = q
    <3>1. req'[x] = r
      BY <2>1, MoveType DEF IInv
    <3> QED
      BY <2>1, <3>1
  <2>2. CASE x # q
    BY <2>2, MoveType DEF IInv
  <2> QED
    BY <2>1, <2>2
<1>2. FindsItsRow(x) /\ req[x].name.host \in Host
  BY <1>1 DEF IInv, SoundRequest
<1>3. PICK h \in Host : h = req[x].name.host
  BY <1>2
<1>4. dom'[h].num = dom[h].num /\ req'[x].name.host = h
  BY <1>1, <1>3
<1> QED
  BY <1>1, <1>2, <1>3, <1>4 DEF FindsItsRow

\* A request that only reads moves to a handler that is sound.
LEMMA ReadStep ==
  ASSUME IInv, NEW q \in Request, NEW r \in Handlers, Become(q, r),
         (r.token = 0 \/ (r.token = req[q].token /\ r.name = req[q].name)),
         SoundRequest(q)', UNCHANGED <<rows, routes, txt, history, removed>>,
         faults' \in 0..MaxFaults
  PROVE  IInv'
<1>1. TypeOK'
  BY MoveType DEF TypeOK, IInv
<1>2. \A h \in Host : Sound(h, dom[h])' /\ Fresh(h)'
  BY DEF Sound, Fresh, IInv
<1>3. \A x \in Request : SoundRequest(x)' /\ FindsItsRow(x)'
  BY OthersSound, OthersFind DEF Grows
<1> QED
  BY <1>1, <1>2, <1>3 DEF IInv

\* A handler that has ended carries nothing.
LEMMA IdleSound ==
  ASSUME IInv, NEW q \in Request, End(q)
  PROVE  SoundRequest(q)' /\ Idle.token = 0
<1>1. req'[q] = Idle
  BY MoveType, RowType DEF IInv
<1>2. Idle.pc = "idle" /\ Idle.token = 0 /\ Idle.put = "absent"
  BY DEF Idle
<1> QED
  BY <1>1, <1>2 DEF SoundRequest
-----------------------------------------------------------------------------
(* Steps that only move a request *)

LEMMA UpsertStep ==
  ASSUME IInv, NEW q \in Request, NEW p \in Proxy, NEW names \in SUBSET Name,
         Upsert(q, p, names)
  PROVE  IInv'
<1> DEFINE r == [Idle EXCEPT !.pc = "proxyPut", !.proxy = p, !.todo = names,
                             !.seen = p \in made]
<1>0. (p \in made) \in BOOLEAN /\ Idle \in Handlers /\ "proxyPut" \in PC
  BY RowType DEF PC
<1>1. r \in Handlers
  BY <1>0 DEF Handlers
<1>2. Become(q, r) /\ UNCHANGED <<rows, routes, txt, history, bounds>>
  BY DEF Upsert
<1>3. req'[q] = r
  BY <1>1, <1>2, MoveType DEF IInv
<1>4. /\ r.pc = "proxyPut" /\ r.proxy \in Proxy /\ r.token = 0 /\ r.put = "absent"
  BY DEF Idle
<1>5. SoundRequest(q)'
  BY <1>3, <1>4 DEF SoundRequest
<1> QED
  BY <1>1, <1>2, <1>4, <1>5, ReadStep DEF IInv, TypeOK

LEMMA UpsertReadStep ==
  ASSUME IInv, NEW q \in Request, UpsertRead(q)
  PROVE  IInv'
<1> PICK a \in req[q].todo :
      Become(q, [req[q] EXCEPT !.pc = "domainPut", !.name = a,
                               !.todo = @ \ {a}, !.row = dom[a.host]])
  BY DEF UpsertRead
<1> DEFINE r == [req[q] EXCEPT !.pc = "domainPut", !.name = a,
                               !.todo = @ \ {a}, !.row = dom[a.host]]
<1>0. req[q] \in Handlers
  BY DEF IInv, TypeOK
<1>1. req[q] \in Handlers /\ a \in Name /\ a.host \in Host
  BY <1>0, NameHost DEF Handlers
<1>2. dom[a.host] \in Row
  BY <1>1 DEF IInv, TypeOK
<1>3. req[q].todo \ {a} \in SUBSET Name
  BY <1>1 DEF Handlers
<1>4. r = [req[q] EXCEPT !.pc = "domainPut", !.name = a,
                         !.todo = req[q].todo \ {a}, !.row = dom[a.host]]
  OBVIOUS
<1>5. r \in Handlers
  BY <1>1, <1>2, <1>3, <1>4 DEF Handlers, PC
<1>6. req'[q] = r /\ UNCHANGED <<rows, routes, txt, history, bounds>>
  BY <1>5, MoveType DEF IInv, UpsertRead
<1>7. /\ r.pc = "domainPut" /\ r.name = a /\ r.todo = req[q].todo \ {a}
      /\ r.row = dom[a.host] /\ r.put = req[q].put /\ r.token = req[q].token
  BY <1>1 DEF Handlers
<1>8. SoundRequest(q)
  BY DEF IInv
<1>9. req[q].pc = "domainRead" /\ \A b \in req[q].todo : ~Reserved(b)
  BY <1>8 DEF UpsertRead, SoundRequest
<1>10. Sound(a.host, dom[a.host])'
  BY <1>1, <1>6 DEF IInv, Sound
<1>11. req[q].put = "absent" /\ req[q].token = 0
  BY <1>8, <1>9 DEF SoundRequest
<1>12. SoundRequest(q)'
  <2>1. \A b \in r.todo : ~Reserved(b)
    BY <1>7, <1>9
  <2>2. ~Reserved(a)
    BY <1>9
  <2>3. Sound(r.name.host, r.row)'
    BY <1>7, <1>10
  <2> QED
    BY <1>1, <1>6, <1>7, <1>11, <2>1, <2>2, <2>3 DEF SoundRequest, Reserved
<1> QED
  BY <1>5, <1>6, <1>7, <1>11, <1>12, ReadStep DEF IInv, TypeOK, UpsertRead

\* A verify starts with the token of the row its host has.
LEMMA VerifyStep ==
  ASSUME IInv, NEW q \in Request, NEW h \in Host, Verify(q, h)
  PROVE  IInv'
<1> DEFINE r == [Idle EXCEPT !.pc = "dns", !.token = dom[h].num,
                             !.proxy = dom[h].proxy, !.name = NameOf(h)]
<1>1. dom[h] \in Row /\ NameOf(h) \in Name /\ NameOf(h).host = h
  BY DEF IInv, TypeOK, NameOf, Name
<1>2. dom[h].proxy \in Proxy \cup {NoProxy} /\ dom[h].num \in Number \cup {0}
  BY <1>1 DEF Row
<1>3. r \in Handlers
  <2>1. Idle \in Handlers /\ "dns" \in PC
    BY RowType DEF PC
  <2> QED
    BY <1>1, <1>2, <2>1 DEF Handlers
<1>4. Become(q, r) /\ UNCHANGED <<rows, routes, txt, history, bounds>>
  BY DEF Verify
<1>5. req'[q] = r /\ \A x \in Request \ {q} : req'[x] = req[x]
  BY <1>3, <1>4, MoveType DEF IInv
<1>6. h \in Custom /\ dom[h].num > 0
  BY DEF IInv, Sound, Verify
<1>7. r.pc = "dns" /\ r.put = "absent" /\ r.token = dom[h].num /\ r.name.host = h
  BY <1>1 DEF Idle
<1>8. SoundRequest(q)'
  BY <1>5, <1>6, <1>7 DEF SoundRequest
<1>9. TypeOK'
  BY <1>3, <1>4, MoveType DEF TypeOK, IInv
<1>10. \A x \in Host : Sound(x, dom[x])' /\ Fresh(x)'
  BY <1>4 DEF Sound, Fresh, IInv
<1>11. \A x \in Request : SoundRequest(x)'
  BY <1>3, <1>4, <1>8, OthersSound DEF Grows
<1>12. \A x \in Request : FindsItsRow(x)'
  <2> SUFFICES ASSUME NEW x \in Request PROVE FindsItsRow(x)'
    OBVIOUS
  <2>1. CASE x = q
    <3>1. req'[x].token = dom'[h].num /\ req'[x].name.host = h
      BY <1>4, <1>5, <1>7, <2>1
    <3> QED
      BY <3>1 DEF FindsItsRow
  <2>2. CASE x # q
    BY <1>4, <1>5, <2>2 DEF FindsItsRow, IInv
  <2> QED
    BY <2>1, <2>2
<1> QED
  BY <1>4, <1>9, <1>10, <1>11, <1>12 DEF IInv

LEMMA RemoveStep ==
  ASSUME IInv, NEW q \in Request, NEW h \in Host, Remove(q, h)
  PROVE  IInv'
<1> DEFINE r == [Idle EXCEPT !.pc = "delete", !.row = dom[h], !.name = NameOf(h)]
<1>1. dom[h] \in Row /\ NameOf(h) \in Name /\ NameOf(h).host = h
  BY DEF IInv, TypeOK, NameOf, Name
<1>2. Idle \in Handlers /\ "delete" \in PC
  BY RowType DEF PC
<1>3. r \in Handlers
  BY <1>1, <1>2 DEF Handlers
<1>4. Become(q, r) /\ UNCHANGED <<rows, routes, txt, history, bounds>>
  BY DEF Remove
<1>5. req'[q] = r
  BY <1>3, <1>4, MoveType DEF IInv
<1>6. r.pc = "delete" /\ r.token = 0 /\ r.put = "absent" /\ r.name.host = h
  BY <1>1 DEF Idle
<1>7. SoundRequest(q)'
  BY <1>5, <1>6 DEF SoundRequest
<1> QED
  BY <1>3, <1>4, <1>6, <1>7, ReadStep DEF IInv, TypeOK

LEMMA SyncStep ==
  ASSUME IInv, NEW q \in Request, NEW p \in Proxy, Sync(q, p)
  PROVE  IInv'
<1> DEFINE r == [Idle EXCEPT !.pc = "syncProxy", !.proxy = p]
<1>1. Idle \in Handlers /\ "syncProxy" \in PC
  BY RowType DEF PC
<1>2. r \in Handlers
  BY <1>1 DEF Handlers
<1>3. Become(q, r) /\ UNCHANGED <<rows, routes, txt, history, bounds>>
  BY DEF Sync
<1>4. req'[q] = r
  BY <1>2, <1>3, MoveType DEF IInv
<1>5. r.pc = "syncProxy" /\ r.token = 0 /\ r.put = "absent" /\ r.name = NoName
  BY DEF Idle
<1>6. SoundRequest(q)'
  BY <1>4, <1>5 DEF SoundRequest
<1> QED
  BY <1>2, <1>3, <1>5, <1>6, ReadStep DEF IInv, TypeOK

\* A handler that ends with an error or an answer, and writes nothing.
LEMMA EndStep ==
  ASSUME IInv, NEW q \in Request, End(q), faults' \in 0..MaxFaults,
         UNCHANGED <<rows, routes, txt, history, removed>>
  PROVE  IInv'
BY RowType, IdleSound, ReadStep

\* setDomainStatus is over: on to Caddy, or the answer.
LEMMA AfterSetSound ==
  ASSUME IInv, NEW q \in Request, AfterSet(q), req[q].pc \in {"setRead", "setPut"}
  PROVE  \E r \in Handlers :
           /\ Become(q, r)
           /\ (r.token = 0 \/ (r.token = req[q].token /\ r.name = req[q].name))
           /\ UNCHANGED proved => SoundRequest(q)'
<1>1. CASE req[q].put = "verified"
  <2> DEFINE r == [req[q] EXCEPT !.pc = "syncProxy", !.row = NoRow]
  <2>1. r \in Handlers /\ req[q] \in Handlers
    BY GoType, RowType DEF IInv, PC
  <2>2. Become(q, r)
    BY <1>1 DEF AfterSet
  <2>3. req'[q] = r
    BY <2>1, <2>2, MoveType DEF IInv
  <2>4. r.pc = "syncProxy" /\ r.put = "verified" /\ r.name = req[q].name
        /\ r.token = req[q].token
    BY <1>1, <2>1 DEF Handlers
  <2>5. /\ req[q].name.host \in Custom /\ req[q].token # 0
        /\ req[q].token \in proved[req[q].name.host]
    BY <1>1 DEF IInv, SoundRequest
  <2>6. UNCHANGED proved => SoundRequest(q)'
    BY <2>3, <2>4, <2>5 DEF SoundRequest
  <2> QED
    BY <2>1, <2>2, <2>4, <2>6
<1>2. CASE req[q].put # "verified"
  BY <1>2, RowType, IdleSound DEF AfterSet
<1> QED
  BY <1>1, <1>2

LEMMA SetReadStep ==
  ASSUME IInv, NEW q \in Request, SetRead(q)
  PROVE  IInv'
<1> DEFINE h == req[q].name.host
<1>1. UNCHANGED <<rows, routes, txt, history, bounds>> /\ faults' \in 0..MaxFaults
      /\ SoundRequest(q) /\ req[q].pc = "setRead"
  BY DEF SetRead, IInv, TypeOK
<1>2. CASE dom[h] = NoRow
  BY <1>1, <1>2, AfterSetSound, ReadStep DEF SetRead
<1>3. CASE dom[h] # NoRow
  <2> DEFINE r == [req[q] EXCEPT !.pc = "setPut", !.row = dom[h]]
  <2>1. /\ h \in Custom /\ req[q].token # 0 /\ req[q].token \in proved[h]
        /\ req[q].put \in {"verified", "active"}
    BY <1>1 DEF SoundRequest
  <2>2. dom[h] \in Row /\ dom[h].num > 0
    BY <1>3, <2>1 DEF IInv, TypeOK, Sound
  <2>3. r \in Handlers /\ req[q] \in Handlers
    BY <2>2, GoType DEF IInv, PC
  <2>4. Become(q, r)
    BY <1>3 DEF SetRead
  <2>5. req'[q] = r
    BY <2>3, <2>4, MoveType DEF IInv
  <2>6. /\ r.pc = "setPut" /\ r.put = req[q].put /\ r.name = req[q].name
        /\ r.row = dom[h] /\ r.token = req[q].token
    BY <2>3 DEF Handlers
  <2>7. SoundRequest(q)'
    BY <1>1, <2>1, <2>2, <2>5, <2>6 DEF SoundRequest
  <2> QED
    BY <1>1, <2>3, <2>4, <2>6, <2>7, ReadStep
<1> QED
  BY <1>2, <1>3

LEMMA SyncProxyStep ==
  ASSUME IInv, NEW q \in Request, SyncProxy(q)
  PROVE  IInv'
<1> DEFINE r == [req[q] EXCEPT !.pc = "syncRead", !.seen = req[q].proxy \in enabled]
<1>1. (req[q].proxy \in enabled) \in BOOLEAN
  OBVIOUS
<1>2. r \in Handlers /\ req[q] \in Handlers
  BY <1>1, GoType DEF IInv, PC
<1>3. Become(q, r) /\ UNCHANGED <<rows, routes, txt, history, bounds>>
      /\ req[q].pc = "syncProxy"
  BY DEF SyncProxy
<1>4. req'[q] = r
  BY <1>2, <1>3, MoveType DEF IInv
<1>5. r.pc = "syncRead" /\ r.put = req[q].put /\ r.name = req[q].name
      /\ r.token = req[q].token
  BY <1>2 DEF Handlers
<1>6. SoundRequest(q)'
  BY <1>3, <1>4, <1>5 DEF SoundRequest, IInv
<1> QED
  BY <1>2, <1>3, <1>5, <1>6, ReadStep DEF IInv, TypeOK

\* What is sent to Caddy: hosts whose row is active, and the host of the
\* verify itself, whose row is the one proved or contested.
LEMMA SyncReadStep ==
  ASSUME IInv, NEW q \in Request, SyncRead(q)
  PROVE  IInv'
<1> DEFINE specs == [h \in Host |-> IF req[q].seen /\ Routed(q, h)
                                    THEN dom[h].num ELSE 0]
           r == [req[q] EXCEPT !.pc = "load", !.specs = specs]
<1>1. specs \in [Host -> Number \cup {0}]
  BY DEF IInv, TypeOK, Row
<1>2. r \in Handlers /\ req[q] \in Handlers
  BY <1>1, GoType DEF IInv, PC
<1>3. Become(q, r) /\ UNCHANGED <<rows, routes, txt, history, bounds>>
      /\ req[q].pc = "syncRead"
  BY DEF SyncRead
<1>4. req'[q] = r
  BY <1>2, <1>3, MoveType DEF IInv
<1>5. /\ r.pc = "load" /\ r.put = req[q].put /\ r.name = req[q].name
      /\ r.specs = specs /\ r.token = req[q].token
  BY <1>2 DEF Handlers
<1>6. \A h \in Custom : specs[h] > 0 => specs[h] \in Vouched(h)
  <2> SUFFICES ASSUME NEW h \in Custom, Routed(q, h), dom[h].num > 0
               PROVE  dom[h].num \in Vouched(h)
    OBVIOUS
  <2>1. CASE dom[h].status = "active"
    BY <2>1 DEF IInv, Sound, NoRow, Domain
  <2>2. CASE h = req[q].name.host
    <3>1. req[q].token # 0 /\ req[q].token \in proved[h] /\ req[q].token \in Number \cup {0}
      BY <1>2, <1>3, <2>2, RowType DEF IInv, SoundRequest, Handlers
    <3>2. req[q].token > 0
      BY <3>1, BoundAssumption DEF Number
    <3> QED
      BY <2>2, <3>1, <3>2 DEF IInv, FindsItsRow
  <2> QED
    BY <2>1, <2>2 DEF Routed
<1>7. SoundRequest(q)'
  <2>1. SoundRequest(q)
    BY DEF IInv
  <2>2. \A h \in Custom : r.specs[h] > 0 => r.specs[h] \in Vouched(h)'
    BY <1>3, <1>5, <1>6
  <2> QED
    BY <1>3, <1>4, <1>5, <2>1, <2>2 DEF SoundRequest
<1> QED
  BY <1>2, <1>3, <1>5, <1>7, ReadStep DEF IInv, TypeOK
-----------------------------------------------------------------------------
(* Steps that write rows, routes or the history of proofs *)

LEMMA UpsertProxyStep ==
  ASSUME IInv, NEW q \in Request, UpsertProxy(q)
  PROVE  IInv'
<1>1. /\ UNCHANGED <<dom, routes, txt, history, bounds>> /\ SoundRequest(q)
      /\ req[q].pc = "proxyPut" /\ req[q] \in Handlers
  BY DEF UpsertProxy, IInv, TypeOK
<1>2. made' \subseteq Proxy /\ enabled' \subseteq Proxy
  <2>1. req[q].proxy \in Proxy
    BY <1>1 DEF SoundRequest
  <2> QED
    BY <2>1 DEF UpsertProxy, IInv, TypeOK
<1>3. \E r \in Handlers : /\ Become(q, r) /\ SoundRequest(q)'
                          /\ (r.token = 0 \/ (r.token = req[q].token /\ r.name = req[q].name))
  <2>1. CASE End(q)
    BY <2>1, RowType, IdleSound
  <2>2. CASE /\ Become(q, [req[q] EXCEPT !.pc = "domainRead", !.seen = FALSE])
             /\ ~\E a \in req[q].todo : Reserved(a)
    <3> DEFINE r == [req[q] EXCEPT !.pc = "domainRead", !.seen = FALSE]
    <3>1. r \in Handlers
      BY GoType DEF IInv, PC
    <3>2. req'[q] = r
      BY <2>2, <3>1, MoveType DEF IInv
    <3>3. /\ r.pc = "domainRead" /\ r.put = req[q].put /\ r.todo = req[q].todo
          /\ r.token = req[q].token /\ r.name = req[q].name
      BY <1>1 DEF Handlers
    <3>4. req[q].put = "absent" /\ req[q].token = 0
      BY <1>1 DEF SoundRequest
    <3>5. SoundRequest(q)'
      BY <2>2, <3>2, <3>3, <3>4 DEF SoundRequest, Reserved
    <3> QED
      BY <2>2, <3>1, <3>3, <3>5
  <2> QED
    BY <2>1, <2>2 DEF UpsertProxy
<1>4. PICK r \in Handlers : /\ Become(q, r) /\ SoundRequest(q)'
                            /\ (r.token = 0 \/ (r.token = req[q].token /\ r.name = req[q].name))
  BY <1>3
<1>5. TypeOK'
  BY <1>1, <1>2, <1>4, MoveType DEF IInv, TypeOK
<1>6. \A h \in Host : Sound(h, dom[h])' /\ Fresh(h)'
  BY <1>1 DEF IInv, Sound, Fresh
<1>7. \A x \in Request : SoundRequest(x)' /\ FindsItsRow(x)'
  BY <1>1, <1>4, OthersSound, OthersFind DEF Grows
<1> QED
  BY <1>1, <1>5, <1>6, <1>7 DEF IInv

\* One row changes, into a sound one, and the request moves on.
LEMMA RowStep ==
  ASSUME IInv, NEW q \in Request, NEW r \in Handlers, Become(q, r), SoundRequest(q)',
         NEW h \in Host, NEW row \in Row, dom' = [dom EXCEPT ![h] = row],
         Sound(h, row)', removed' \in 0..MaxRemoved,
         contested' \in [Host -> SUBSET Number], Grows,
         \A x \in Host : Fresh(x)', \A x \in Request : FindsItsRow(x)',
         UNCHANGED <<made, enabled, routes, txt, proved, faults>>
  PROVE  IInv'
<1>1. TypeOK'
  BY MoveType DEF IInv, TypeOK
<1>2. \A x \in Host : Sound(x, dom[x])'
  <2> SUFFICES ASSUME NEW x \in Host PROVE Sound(x, dom[x])'
    OBVIOUS
  <2>1. CASE x = h
    <3>1. dom'[x] = row
      BY <2>1 DEF IInv, TypeOK
    <3> QED
      BY <2>1, <3>1 DEF Sound
  <2>2. CASE x # h
    <3>1. dom'[x] = dom[x] /\ Sound(x, dom[x])
      BY <2>2 DEF IInv, TypeOK
    <3>2. Vouched(x) \subseteq Vouched(x)'
      BY DEF Grows
    <3> QED
      BY <3>1, <3>2 DEF Sound
  <2> QED
    BY <2>1, <2>2
<1>3. \A x \in Request : SoundRequest(x)'
  BY OthersSound
<1>4. \A x \in Custom : routes'[x] # NoRoute => routes'[x].num \in Vouched(x)'
  BY DEF IInv, Grows
<1> QED
  BY <1>1, <1>2, <1>3, <1>4 DEF IInv

\* A row that keeps its number changes nothing of the claims.
LEMMA SameRowStep ==
  ASSUME IInv, NEW q \in Request, NEW r \in Handlers, Become(q, r), SoundRequest(q)',
         (r.token = 0 \/ (r.token = req[q].token /\ r.name = req[q].name)),
         NEW h \in Host, NEW row \in Row, dom' = [dom EXCEPT ![h] = row],
         row.num = dom[h].num, Sound(h, row),
         UNCHANGED <<made, enabled, routes, txt, history, bounds>>
  PROVE  IInv'
<1>1. \A x \in Host : dom'[x].num = dom[x].num
  BY DEF IInv, TypeOK
<1>2. \A x \in Host : Fresh(x)'
  BY <1>1 DEF IInv, Fresh
<1>3. \A x \in Request : FindsItsRow(x)'
  BY <1>1, OthersFind
<1>4. Grows /\ Sound(h, row)'
  BY DEF Grows, Sound
<1>5. removed' \in 0..MaxRemoved /\ contested' \in [Host -> SUBSET Number]
  BY DEF IInv, TypeOK
<1> QED
  BY <1>2, <1>3, <1>4, <1>5, RowStep

\* An upsert saves a sound row: a new one is pending or of the base domain,
\* an old one has the status it was read with.
LEMMA SavedSound ==
  ASSUME IInv, NEW q \in Request, req[q].pc = "domainPut"
  PROVE  /\ Saved(q) \in Row /\ Sound(req[q].name.host, Saved(q))
         /\ Saved(q).num = IF req[q].row = NoRow THEN removed + 1 ELSE req[q].row.num
         /\ req[q].row = NoRow => Saved(q).status \in {"pending", "active"}
<1>1. /\ req[q].name \in Name /\ ~Reserved(req[q].name)
      /\ Sound(req[q].name.host, req[q].row)
  BY DEF IInv, SoundRequest
<1>2. Saved(q) \in Row
  BY <1>1, SavedType DEF IInv
<1>3. removed + 1 > 0 /\ req[q].name.kind \in {"subdomain", "custom"}
  BY <1>1, NameHost DEF IInv, TypeOK
<1>4. (req[q].name.kind = "subdomain") <=> (req[q].name.host \in Subdomain)
  BY <1>1, NameHost DEF Reserved
<1>5. /\ Saved(q).num = IF req[q].row = NoRow THEN removed + 1 ELSE req[q].row.num
      /\ Saved(q).kind = req[q].name.kind
      /\ Saved(q).status = IF req[q].name.kind = "subdomain" THEN "active"
                           ELSE IF req[q].row = NoRow THEN "pending"
                           ELSE req[q].row.status
  BY DEF Saved, Domain
<1> QED
  BY <1>1, <1>2, <1>3, <1>4, <1>5 DEF Sound

\* A new row has a number nobody has proved, and is contested when a verify
\* of its host is under way.
LEMMA NewRow ==
  ASSUME IInv, NEW q \in Request, NEW r \in Handlers, Become(q, r), r.token = 0,
         NEW h \in Host, NEW row \in Row, dom' = [dom EXCEPT ![h] = row],
         dom[h].num = 0, row.num = removed + 1, Contest(h, removed + 1),
         UNCHANGED <<removed, proved>>
  PROVE  /\ contested' \in [Host -> SUBSET Number] /\ Grows
         /\ \A x \in Host : Fresh(x)'
         /\ \A x \in Request : FindsItsRow(x)'
<1>1. removed \in Nat /\ removed + 1 \in Number /\ Number \subseteq Nat \ {0}
  <2>1. removed \in 0..MaxRemoved /\ MaxRemoved \in Nat
    BY BoundAssumption DEF IInv, TypeOK
  <2> QED
    BY <2>1 DEF Number
<1>2. contested' \in [Host -> SUBSET Number] /\ Grows
  BY <1>1 DEF Contest, Grows, IInv, TypeOK
<1>3. \A x \in Host : dom'[x].num = IF x = h THEN removed + 1 ELSE dom[x].num
  BY DEF IInv, TypeOK
<1>4. \A x \in Host : /\ contested'[x] \subseteq contested[x] \cup {removed + 1}
                      /\ x # h => contested'[x] = contested[x]
  BY DEF Contest, IInv, TypeOK
<1>5. \A x \in Host : Fresh(x)'
  <2> SUFFICES ASSUME NEW x \in Host PROVE Fresh(x)'
    OBVIOUS
  <2>1. Fresh(x) /\ Vouched(x) \subseteq Number /\ Fresh(h)
    BY DEF IInv, TypeOK
  <2>2. CASE x = h
    <3>1. dom'[x].num = removed' + 1
      BY <1>3, <2>2
    <3>2. ASSUME NEW n \in Vouched(x)' PROVE n <= removed' \/ n = dom'[x].num
      <4>1. n \in Vouched(x) \/ n = removed + 1
        BY <1>4
      <4>2. CASE n \in Vouched(x)
        <5>1. n \in Nat \ {0} /\ (n <= removed \/ n = dom[h].num)
          BY <1>1, <2>1, <2>2, <4>2 DEF Fresh
        <5> QED
          BY <5>1
      <4> QED
        BY <3>1, <4>1, <4>2
    <3>3. dom'[x].num <= removed' + 1
      BY <1>1, <3>1
    <3> QED
      BY <3>2, <3>3 DEF Fresh
  <2>3. CASE x # h
    <3>1. dom'[x].num = dom[x].num /\ Vouched(x)' = Vouched(x)
      BY <1>3, <1>4, <2>3
    <3> QED
      BY <2>1, <3>1 DEF Fresh
  <2> QED
    BY <2>2, <2>3
<1>6. \A x \in Request : FindsItsRow(x)'
  <2> SUFFICES ASSUME NEW x \in Request, req'[x].token > 0 PROVE FindsItsRow(x)'
    BY DEF FindsItsRow
  <2>1. x # q /\ req'[x] = req[x] /\ req[x].token > 0
    <3>1. req'[q].token = 0
      BY MoveType DEF IInv
    <3>2. x # q
      BY <3>1
    <3> QED
      BY <3>2, MoveType DEF IInv
  <2>2. FindsItsRow(x) /\ req[x].name.host \in Host
    BY <2>1 DEF IInv, SoundRequest
  <2>3. PICK g \in Host : g = req[x].name.host
    BY <2>2
  <2>4. /\ req[x].token <= removed \/ req[x].token = dom[g].num
        /\ dom[g].num \in {0, req[x].token} \cup contested[g]
    BY <2>1, <2>2, <2>3 DEF FindsItsRow
  <2>5. req[x].token \in Nat
    <3>1. req[x] \in Handlers
      BY DEF IInv, TypeOK
    <3>2. req[x].token \in Number \cup {0}
      BY <3>1 DEF Handlers
    <3> QED
      BY <3>2, BoundAssumption DEF Number
  <2>6. CASE g = h
    <3>1. dom'[g].num = removed + 1 /\ removed + 1 \in contested'[g]
      BY <1>3, <2>1, <2>3, <2>6 DEF Contest, Verifies, IInv, TypeOK
    <3>2. req[x].token <= removed'
      BY <2>1, <2>4, <2>6
    <3> QED
      BY <2>1, <2>3, <3>1, <3>2 DEF FindsItsRow
  <2>7. CASE g # h
    <3>1. dom'[g].num = dom[g].num /\ contested'[g] = contested[g]
      BY <1>3, <1>4, <2>7
    <3> QED
      BY <2>1, <2>3, <2>4, <3>1 DEF FindsItsRow
  <2> QED
    BY <2>6, <2>7
<1> QED
  BY <1>2, <1>5, <1>6

\* A row is gone, and its number is never used again.
LEMMA GoneRow ==
  ASSUME IInv, NEW q \in Request, NEW r \in Handlers, Become(q, r), r.token = 0,
         NEW h \in Host, dom' = [dom EXCEPT ![h] = NoRow],
         removed' = removed + 1, UNCHANGED history
  PROVE  /\ \A x \in Host : Fresh(x)'
         /\ \A x \in Request : FindsItsRow(x)'
<1>1. removed \in Nat /\ Number \subseteq Nat \ {0}
  BY BoundAssumption DEF IInv, TypeOK, Number
<1>2. \A x \in Host : /\ dom'[x].num = IF x = h THEN 0 ELSE dom[x].num
                      /\ dom[x].num \in Nat
  <2>1. \A x \in Host : dom[x].num \in Number \cup {0}
    BY DEF IInv, TypeOK, Row
  <2>2. NoRow.num = 0
    BY DEF NoRow, Domain
  <2>3. \A x \in Host : dom'[x].num = IF x = h THEN 0 ELSE dom[x].num
    BY <2>2 DEF IInv, TypeOK
  <2>4. \A x \in Host : dom[x].num \in Nat
    BY <2>1, BoundAssumption DEF Number
  <2> QED
    BY <2>3, <2>4
<1>3. \A x \in Host : Fresh(x)'
  <2> SUFFICES ASSUME NEW x \in Host PROVE Fresh(x)'
    OBVIOUS
  <2>1. /\ dom[x].num <= removed + 1
        /\ \A n \in Vouched(x) : n \in Nat /\ (n <= removed \/ n = dom[x].num)
    BY <1>1 DEF IInv, TypeOK, Fresh
  <2>2. \A n \in Vouched(x) : n <= removed + 1
    BY <1>1, <2>1
  <2>3. dom'[x].num <= removed' + 1
    BY <1>1, <1>2, <2>1
  <2> QED
    BY <2>2, <2>3 DEF Fresh
<1>4. \A x \in Request : FindsItsRow(x)'
  <2> SUFFICES ASSUME NEW x \in Request, req'[x].token > 0 PROVE FindsItsRow(x)'
    BY DEF FindsItsRow
  <2>1. x # q /\ req'[x] = req[x] /\ req[x].token > 0
    <3>1. req'[q].token = 0
      BY MoveType DEF IInv
    <3>2. x # q
      BY <3>1
    <3> QED
      BY <3>2, MoveType DEF IInv
  <2>2. FindsItsRow(x) /\ req[x].name.host \in Host
    BY <2>1 DEF IInv, SoundRequest
  <2>3. PICK g \in Host : g = req[x].name.host
    BY <2>2
  <2>4. /\ req[x].token <= removed \/ req[x].token = dom[g].num
        /\ dom[g].num \in {0, req[x].token} \cup contested[g]
    BY <2>1, <2>2, <2>3 DEF FindsItsRow
  <2>5. req[x].token \in Nat
    <3>1. req[x] \in Handlers
      BY DEF IInv, TypeOK
    <3>2. req[x].token \in Number \cup {0}
      BY <3>1 DEF Handlers
    <3> QED
      BY <3>2, BoundAssumption DEF Number
  <2>6. dom[g].num <= removed + 1
    BY DEF IInv, Fresh
  <2>7. req[x].token <= removed'
    BY <1>1, <1>2, <2>4, <2>5, <2>6
  <2>8. dom'[g].num \in {0, req[x].token} \cup contested'[g]
    BY <1>2, <2>4
  <2> QED
    BY <2>1, <2>3, <2>7, <2>8 DEF FindsItsRow
<1> QED
  BY <1>3, <1>4

LEMMA UpsertDomainStep ==
  ASSUME IInv, NEW q \in Request, UpsertDomain(q)
  PROVE  IInv'
<1>1. /\ UNCHANGED <<made, enabled, routes, txt, proved, bounds>> /\ SoundRequest(q)
      /\ req[q].pc = "domainPut" /\ req[q] \in Handlers
      /\ removed' \in 0..MaxRemoved /\ faults' \in 0..MaxFaults
  BY DEF UpsertDomain, IInv, TypeOK
<1>h. PICK h \in Host : h = req[q].name.host
  BY <1>1, NameHost DEF SoundRequest
<1>2. CASE dom[h].num # req[q].row.num
  BY <1>1, <1>h, <1>2, EndStep DEF UpsertDomain
<1>3. CASE dom[h].num = req[q].row.num
  <2>2. \E r \in Handlers : Become(q, r) /\ SoundRequest(q)' /\ r.token = 0
    <3>1. CASE End(q)
      BY <3>1, RowType, IdleSound
    <3>2. CASE Become(q, [req[q] EXCEPT !.pc = "domainRead", !.name = NoName, !.row = NoRow])
      <4> DEFINE r == [req[q] EXCEPT !.pc = "domainRead", !.name = NoName, !.row = NoRow]
      <4>1. r \in Handlers
        <5>1. NoName \in Name \cup {NoName} /\ NoRow \in Row /\ "domainRead" \in PC
          BY RowType DEF PC
        <5> QED
          BY <1>1, <5>1 DEF Handlers
      <4>2. req'[q] = r
        BY <3>2, <4>1, MoveType DEF IInv
      <4>3. /\ r.pc = "domainRead" /\ r.put = req[q].put /\ r.todo = req[q].todo
            /\ r.token = req[q].token
        BY <1>1 DEF Handlers
      <4>4. /\ req[q].put = "absent" /\ req[q].token = 0
            /\ \A a \in req[q].todo : ~Reserved(a)
        BY <1>1 DEF SoundRequest
      <4>5. SoundRequest(q)'
        BY <4>2, <4>3, <4>4 DEF SoundRequest, Reserved
      <4> QED
        BY <3>2, <4>1, <4>3, <4>4, <4>5
    <3> QED
      BY <1>h, <1>3, <3>1, <3>2 DEF UpsertDomain
  <2>3. PICK r \in Handlers : Become(q, r) /\ SoundRequest(q)' /\ r.token = 0
    BY <2>2
  <2>4. PICK row \in Row :
          /\ row = Saved(q) /\ Sound(h, row)
          /\ row.num = IF req[q].row = NoRow THEN removed + 1 ELSE req[q].row.num
          /\ req[q].row = NoRow => row.status \in {"pending", "active"}
    BY <1>1, <1>h, SavedSound
  <2>5. dom' = [dom EXCEPT ![h] = row]
    BY <1>h, <1>3, <2>4 DEF UpsertDomain
  <2>6. (req[q].row = NoRow) <=> (dom[h].num = 0)
    <3>1. Sound(h, req[q].row) /\ Sound(h, dom[h])
      BY <1>1, <1>h DEF SoundRequest, IInv
    <3> QED
      BY <1>3, <3>1 DEF Sound, NoRow, Domain
  <2>7. CASE dom[h].num = 0
    <3>1. Contest(h, removed + 1) /\ row.num = removed + 1
      BY <1>h, <1>3, <2>4, <2>6, <2>7 DEF UpsertDomain
    <3>2. /\ contested' \in [Host -> SUBSET Number] /\ Grows
          /\ \A x \in Host : Fresh(x)'
          /\ \A x \in Request : FindsItsRow(x)'
      BY <1>1, <2>3, <2>5, <2>7, <3>1, NewRow
    <3>3. Sound(h, row)'
      BY <2>4, <3>2, SoundStays
    <3> QED
      BY <1>1, <2>3, <2>5, <3>2, <3>3, RowStep
  <2>8. CASE dom[h].num # 0
    <3>1. UNCHANGED contested /\ row.num = dom[h].num
      BY <1>h, <1>3, <2>4, <2>6, <2>8 DEF UpsertDomain
    <3> QED
      BY <1>1, <2>3, <2>4, <2>5, <3>1, SameRowStep
  <2> QED
    BY <2>7, <2>8
<1> QED
  BY <1>2, <1>3

LEMMA SetPutStep ==
  ASSUME IInv, NEW q \in Request, SetPut(q)
  PROVE  IInv'
<1> DEFINE h == req[q].name.host
           row == [dom[h] EXCEPT !.status = req[q].put]
<1>1. /\ UNCHANGED <<made, enabled, routes, txt, history, bounds>> /\ SoundRequest(q)
      /\ req[q].pc = "setPut" /\ removed' \in 0..MaxRemoved /\ faults' \in 0..MaxFaults
      /\ FindsItsRow(q) /\ req[q].token \in Number \cup {0}
  BY DEF SetPut, IInv, TypeOK, Handlers
<1>2. /\ h \in Custom /\ req[q].put \in {"verified", "active"}
      /\ req[q].token # 0 /\ req[q].token \in proved[h] /\ req[q].row.num > 0
  BY <1>1 DEF SoundRequest
<1>3. PICK r \in Handlers : /\ Become(q, r) /\ SoundRequest(q)'
                            /\ (r.token = 0 \/ (r.token = req[q].token /\ r.name = req[q].name))
  BY <1>1, AfterSetSound DEF SetPut
<1>4. CASE dom[h].num # req[q].row.num
  BY <1>1, <1>3, <1>4, ReadStep DEF SetPut
<1>5. CASE dom[h].num = req[q].row.num
  <2>1. dom[h] \in Row /\ h \in Host
    BY <1>2 DEF IInv, TypeOK
  <2>2. row \in Row
    BY <1>2, <2>1 DEF Row, Status
  <2>3. row.num = dom[h].num /\ row.kind = dom[h].kind /\ row.status = req[q].put
    BY <2>1 DEF Row
  <2>4. dom[h].num \in Vouched(h)
    <3>1. req[q].token > 0 /\ dom[h].num # 0
      BY <1>1, <1>2, <1>5, BoundAssumption DEF Number
    <3> QED
      BY <1>1, <1>2, <3>1 DEF FindsItsRow
  <2>5. Sound(h, row)
    BY <1>2, <1>5, <2>1, <2>3, <2>4 DEF IInv, Sound, NoRow, Domain
  <2>6. dom' = [dom EXCEPT ![h] = row]
    BY <1>5 DEF SetPut
  <2> QED
    BY <1>1, <1>3, <2>1, <2>2, <2>3, <2>5, <2>6, SameRowStep
<1> QED
  BY <1>4, <1>5

LEMMA RemoveRowStep ==
  ASSUME IInv, NEW q \in Request, RemoveRow(q)
  PROVE  IInv'
<1>h. PICK h \in Host : h = req[q].name.host
  BY DEF RemoveRow, IInv, SoundRequest
<1>1. /\ UNCHANGED <<made, enabled, routes, txt, history, faults>>
      /\ faults' \in 0..MaxFaults /\ End(q)
  BY DEF RemoveRow, IInv, TypeOK
<1>2. CASE dom[h].num # req[q].row.num
  BY <1>h, <1>1, <1>2, EndStep DEF RemoveRow
<1>3. CASE dom[h].num = req[q].row.num
  <2>1. removed' \in 0..MaxRemoved /\ removed' = removed + 1
    BY <1>h, <1>3, BoundAssumption DEF RemoveRow, IInv, TypeOK
  <2>2. Sound(h, NoRow)'
    BY DEF Sound
  <2>3. dom' = [dom EXCEPT ![h] = NoRow]
    BY <1>h, <1>3 DEF RemoveRow
  <2>4. NoRow \in Row /\ Idle \in Handlers /\ SoundRequest(q)' /\ Idle.token = 0
    BY <1>1, RowType, IdleSound
  <2>5. /\ \A x \in Host : Fresh(x)'
        /\ \A x \in Request : FindsItsRow(x)'
    BY <1>1, <2>1, <2>3, <2>4, GoneRow
  <2>6. Grows /\ contested' \in [Host -> SUBSET Number]
    BY <1>1 DEF Grows, IInv, TypeOK
  <2> QED
    BY <1>1, <2>1, <2>2, <2>3, <2>4, <2>5, <2>6, RowStep
<1> QED
  BY <1>2, <1>3

\* The DNS shows the token of a row that is or was.
LEMMA VerifyDnsStep ==
  ASSUME IInv, NEW q \in Request, VerifyDns(q)
  PROVE  IInv'
<1> DEFINE h == req[q].name.host
           r == [req[q] EXCEPT !.pc = "setRead", !.put = "verified"]
<1>1. /\ UNCHANGED <<rows, routes, txt, contested, bounds>> /\ faults' \in 0..MaxFaults
      /\ req[q].pc = "dns" /\ req[q] \in Handlers /\ SoundRequest(q) /\ FindsItsRow(q)
  BY DEF VerifyDns, IInv, TypeOK
<1>2. CASE req[q].token \notin txt[h]
  BY <1>1, <1>2, EndStep DEF VerifyDns
<1>3. CASE req[q].token \in txt[h]
  <2>1. /\ h \in Custom /\ proved' = [proved EXCEPT ![h] = @ \cup {req[q].token}]
        /\ Become(q, r) /\ req[q].token # 0
    BY <1>1, <1>3 DEF VerifyDns, SoundRequest
  <2>2. r \in Handlers
    BY GoType DEF IInv, PC, Status
  <2>3. req'[q] = r
    BY <2>1, <2>2, MoveType DEF IInv
  <2>4. /\ r.pc = "setRead" /\ r.put = "verified" /\ r.name = req[q].name
        /\ r.token = req[q].token
    BY <1>1 DEF Handlers
  <2>5. /\ proved' \in [Host -> SUBSET Number] /\ Grows /\ req[q].token \in proved'[h]
        /\ \A x \in Host : x # h => proved'[x] = proved[x]
        /\ proved'[h] = proved[h] \cup {req[q].token}
    <3>1. req[q].token \in Number
      BY <1>1, <2>1 DEF Handlers
    <3> QED
      BY <1>1, <2>1, <3>1 DEF IInv, TypeOK, Grows
  <2>6. SoundRequest(q)'
    BY <2>1, <2>3, <2>4, <2>5 DEF SoundRequest
  <2>7. TypeOK'
    BY <1>1, <2>1, <2>2, <2>5, MoveType DEF IInv, TypeOK
  <2>8. \A x \in Host : Sound(x, dom[x])'
    BY <1>1, <2>5 DEF IInv, Sound, Grows
  <2>9. \A x \in Host : Fresh(x)'
    <3> SUFFICES ASSUME NEW x \in Host PROVE Fresh(x)'
      OBVIOUS
    <3>1. Fresh(x)
      BY DEF IInv
    <3>2. CASE x # h
      BY <1>1, <2>5, <3>1, <3>2 DEF Fresh
    <3>3. CASE x = h
      <4>1. req[q].token > 0
        BY <1>1, <2>1, BoundAssumption DEF Handlers, Number
      <4>2. req[q].token <= removed \/ req[q].token = dom[h].num
        BY <1>1, <4>1 DEF FindsItsRow
      <4> QED
        BY <1>1, <2>5, <3>1, <3>3, <4>2 DEF Fresh
    <3> QED
      BY <3>2, <3>3
  <2>10. \A x \in Request : SoundRequest(x)' /\ FindsItsRow(x)'
    BY <1>1, <2>1, <2>2, <2>4, <2>5, <2>6, OthersSound, OthersFind
  <2>11. \A x \in Custom : routes'[x] # NoRoute => routes'[x].num \in Vouched(x)'
    BY <1>1, <2>5 DEF IInv, Grows
  <2> QED
    BY <2>7, <2>8, <2>9, <2>10, <2>11 DEF IInv
<1> QED
  BY <1>2, <1>3

LEMMA SyncLoadStep ==
  ASSUME IInv, NEW q \in Request, SyncLoad(q)
  PROVE  IInv'
<1>1. /\ UNCHANGED <<rows, txt, history, bounds>> /\ routes' = Merged(q)
      /\ req[q].pc = "load" /\ req[q] \in Handlers /\ SoundRequest(q)
  BY DEF SyncLoad, IInv, TypeOK
<1>2. /\ \A h \in Custom : req[q].specs[h] > 0 => req[q].specs[h] \in Vouched(h)
      /\ req[q].proxy \in Proxy \cup {NoProxy}
      /\ req[q].specs \in [Host -> Number \cup {0}]
  BY <1>1 DEF SoundRequest, Handlers
<1>3. PICK r \in Handlers : /\ Become(q, r) /\ SoundRequest(q)'
                            /\ (r.token = 0 \/ (r.token = req[q].token /\ r.name = req[q].name))
  <2>1. CASE req[q].put = "verified"
    <3> DEFINE r == [req[q] EXCEPT !.pc = "setRead", !.put = "active", !.seen = FALSE,
                                   !.specs = Idle.specs]
    <3>1. r \in Handlers
      <4>1. Idle.specs \in [Host -> Number \cup {0}]
        BY DEF Idle
      <4> QED
        BY <1>1, <4>1 DEF Handlers, PC, Status
    <3>2. Become(q, r)
      BY <2>1 DEF SyncLoad
    <3>3. req'[q] = r
      BY <3>1, <3>2, MoveType DEF IInv
    <3>4. r.pc = "setRead" /\ r.put = "active" /\ r.name = req[q].name
          /\ r.token = req[q].token
      BY <1>1 DEF Handlers
    <3>5. /\ req[q].name.host \in Custom /\ req[q].token # 0
          /\ req[q].token \in proved[req[q].name.host]
      BY <1>1, <2>1 DEF SoundRequest
    <3>6. SoundRequest(q)'
      BY <1>1, <3>3, <3>4, <3>5 DEF SoundRequest
    <3> QED
      BY <3>1, <3>2, <3>4, <3>6
  <2>2. CASE req[q].put # "verified"
    BY <2>2, RowType, IdleSound DEF SyncLoad
  <2> QED
    BY <2>1, <2>2
<1>4. TypeOK'
  <2>1. routes' \in [Host -> [proxy : Proxy \cup {NoProxy}, num : Number \cup {0}]]
    BY <1>1, <1>2 DEF Merged, NoRoute
  <2> QED
    BY <1>1, <1>3, <2>1, MoveType DEF IInv, TypeOK
<1>5. \A x \in Host : Sound(x, dom[x])' /\ Fresh(x)'
  BY <1>1 DEF IInv, Sound, Fresh
<1>6. \A x \in Request : SoundRequest(x)' /\ FindsItsRow(x)'
  BY <1>1, <1>3, OthersSound, OthersFind DEF Grows
<1>7. \A h \in Custom : routes'[h] # NoRoute => routes'[h].num \in Vouched(h)'
  <2> SUFFICES ASSUME NEW h \in Custom, routes'[h] # NoRoute
               PROVE  routes'[h].num \in Vouched(h)
    BY <1>1
  <2>1. req[q].specs[h] # 0 /\ routes'[h].num = req[q].specs[h]
    BY <1>1 DEF Merged, NoRoute
  <2>2. req[q].specs[h] > 0
    BY <1>2, <2>1, BoundAssumption DEF Number
  <2> QED
    BY <1>2, <2>1, <2>2
<1> QED
  BY <1>4, <1>5, <1>6, <1>7 DEF IInv

\* Steps that move no request.
LEMMA WorldStep ==
  ASSUME IInv, UNCHANGED <<dom, routes, history, req, bounds, made>>,
         enabled' \subseteq Proxy, txt' \in [Host -> SUBSET Number]
  PROVE  IInv'
<1>1. TypeOK'
  BY DEF IInv, TypeOK
<1>2. \A x \in Host : Sound(x, dom[x])' /\ Fresh(x)'
  BY DEF IInv, Sound, Fresh
<1>3. \A x \in Request : SoundRequest(x)' /\ FindsItsRow(x)'
  BY DEF IInv, SoundRequest, FindsItsRow, Sound, Reserved
<1> QED
  BY <1>1, <1>2, <1>3 DEF IInv
-----------------------------------------------------------------------------
(* The invariant *)

LEMMA InitInv == Init => IInv
<1> SUFFICES ASSUME Init PROVE IInv
  OBVIOUS
<1>1. TypeOK
  BY RowType, BoundAssumption DEF Init, TypeOK, NoRoute
<1>2. \A h \in Host : Sound(h, dom[h]) /\ Fresh(h)
  BY DEF Init, Sound, Fresh, NoRow, Domain
<1>3. \A q \in Request : SoundRequest(q) /\ FindsItsRow(q)
  BY DEF Init, SoundRequest, FindsItsRow, Idle, NoName
<1> QED
  BY <1>1, <1>2, <1>3 DEF Init, IInv

LEMMA StepInv ==
  ASSUME IInv, NEW q \in Request, Step(q)
  PROVE  IInv'
<1>1. CASE UpsertProxy(q)
  BY <1>1, UpsertProxyStep
<1>2. CASE UpsertRead(q)
  BY <1>2, UpsertReadStep
<1>3. CASE UpsertDomain(q)
  BY <1>3, UpsertDomainStep
<1>4. CASE VerifyDns(q)
  BY <1>4, VerifyDnsStep
<1>5. CASE SetRead(q)
  BY <1>5, SetReadStep
<1>6. CASE SetPut(q)
  BY <1>6, SetPutStep
<1>7. CASE SyncProxy(q)
  BY <1>7, SyncProxyStep
<1>8. CASE SyncRead(q)
  BY <1>8, SyncReadStep
<1>9. CASE SyncLoad(q)
  BY <1>9, SyncLoadStep
<1>10. CASE RemoveRow(q)
  BY <1>10, RemoveRowStep
<1> QED
  BY <1>1, <1>2, <1>3, <1>4, <1>5, <1>6, <1>7, <1>8, <1>9, <1>10 DEF Step

LEMMA FailStep ==
  ASSUME IInv, NEW q \in Request, Fail(q)
  PROVE  IInv'
<1>1. faults' \in 0..MaxFaults
  BY BoundAssumption DEF Fail, IInv, TypeOK
<1> QED
  BY <1>1, EndStep DEF Fail

LEMMA NextInv ==
  ASSUME IInv, [Next]_vars
  PROVE  IInv'
<1>1. ASSUME NEW q \in Request, NEW p \in Proxy, Sync(q, p)
      PROVE  IInv'
  BY <1>1, SyncStep
<1>2. ASSUME NEW q \in Request, NEW p \in Proxy, NEW names \in SUBSET Name,
             Upsert(q, p, names)
      PROVE  IInv'
  BY <1>2, UpsertStep
<1>3. ASSUME NEW q \in Request, NEW h \in Host, Verify(q, h)
      PROVE  IInv'
  BY <1>3, VerifyStep
<1>4. ASSUME NEW q \in Request, NEW h \in Host, Remove(q, h)
      PROVE  IInv'
  BY <1>4, RemoveStep
<1>5. ASSUME NEW q \in Request, Step(q)
      PROVE  IInv'
  BY <1>5, StepInv
<1>6. ASSUME NEW q \in Request, Fail(q)
      PROVE  IInv'
  BY <1>6, FailStep
<1>7. ASSUME NEW p \in Proxy, Disable(p)
      PROVE  IInv'
  <2>1. enabled' \subseteq Proxy /\ txt' \in [Host -> SUBSET Number]
    BY <1>7 DEF Disable, IInv, TypeOK
  <2> QED
    BY <1>7, <2>1, WorldStep DEF Disable
<1>8. ASSUME NEW h \in Host, PublishTxt(h)
      PROVE  IInv'
  <2>1. dom[h].num \in Number
    <3>1. dom[h].num \in Number \cup {0}
      BY DEF IInv, TypeOK, Row
    <3> QED
      BY <1>8, <3>1 DEF PublishTxt
  <2>2. enabled' \subseteq Proxy /\ txt' \in [Host -> SUBSET Number]
    BY <1>8, <2>1 DEF PublishTxt, IInv, TypeOK
  <2> QED
    BY <1>8, <2>2, WorldStep DEF PublishTxt
<1>9. ASSUME NEW h \in Host, WithdrawTxt(h)
      PROVE  IInv'
  <2>1. enabled' \subseteq Proxy /\ txt' \in [Host -> SUBSET Number]
    BY <1>9 DEF WithdrawTxt, IInv, TypeOK
  <2> QED
    BY <1>9, <2>1, WorldStep DEF WithdrawTxt
<1>10. CASE UNCHANGED vars
  BY <1>10, WorldStep DEF vars, IInv, TypeOK
<1> QED
  BY <1>1, <1>2, <1>3, <1>4, <1>5, <1>6, <1>7, <1>8, <1>9, <1>10 DEF Next

\* What the requests carry and the rows and routes agree with what the DNS
\* has shown (all handlers of server.ts).
THEOREM Invariance == Spec => []IInv
<1> QED
  BY InitInv, NextInv, PTL DEF Spec

\* A row of a customer is verified or active only after its own token was
\* seen in the DNS, under any interleaving of the requests, unless it was
\* created while a verify of an earlier row of the host was under way.
THEOREM ActivationIsProved == Spec => []ActiveIsProved
<1>1. IInv => ActiveIsProved
  <2> SUFFICES ASSUME IInv, NEW h \in Custom, dom[h].status \in {"verified", "active"},
                      dom[h].num \notin contested[h]
               PROVE  dom[h].num \in proved[h]
    BY DEF ActiveIsProved
  <2>1. Sound(h, dom[h])
    BY DEF IInv
  <2> QED
    BY <2>1 DEF Sound, NoRow, Domain
<1> QED
  BY <1>1, Invariance, PTL

\* Caddy is sent a host of a customer only for a row whose own token was
\* seen, with the same exception.
THEOREM RoutingIsProved == Spec => []RoutesAreProved
<1>1. IInv => RoutesAreProved
  BY DEF IInv, RoutesAreProved
<1> QED
  BY <1>1, Invariance, PTL
-----------------------------------------------------------------------------
(* The refinement *)

Stage == [h \in Host |-> dom[h].status]
Claims == [h \in Host |-> dom[h].num]
Asked == [h \in Host |-> {req[q].token : q \in {x \in Request : Verifies(x, h)}}]

\* A host whose row is written becomes the host's stage and claim.
LEMMA StageMoves ==
  ASSUME TypeOK, NEW h \in Host, NEW row \in Row, dom' = [dom EXCEPT ![h] = row]
  PROVE  /\ Stage' = [Stage EXCEPT ![h] = row.status]
         /\ Claims' = [Claims EXCEPT ![h] = row.num]
<1>1. \A x \in Host : /\ dom'[x].status = IF x = h THEN row.status ELSE dom[x].status
                      /\ dom'[x].num = IF x = h THEN row.num ELSE dom[x].num
  BY DEF TypeOK
<1> QED
  BY <1>1 DEF Stage, Claims

\* What is asked about a host: the tokens of the requests that verify it.
LEMMA AskedOf ==
  ASSUME NEW h \in Host
  PROVE  \A n : n \in Asked[h] <=> \E x \in Request : Verifies(x, h) /\ n = req[x].token
BY DEF Asked

\* A request that keeps its token, or has none before and after, changes
\* nothing of what is asked.
LEMMA AskedSame ==
  ASSUME TypeOK, NEW q \in Request, NEW r \in Handlers, Become(q, r),
         \/ r.token = 0 /\ req[q].token = 0
         \/ r.token = req[q].token /\ r.name = req[q].name
  PROVE  Asked' = Asked
<1>1. \A x \in Request : /\ req'[x].token = req[x].token
                         /\ req[x].token > 0 => req'[x].name = req[x].name
  <2> TAKE x \in Request
  <2>1. CASE x = q
    <3>1. req'[x] = r
      BY <2>1, MoveType
    <3> QED
      BY <2>1, <3>1
  <2>2. CASE x # q
    BY <2>2, MoveType
  <2> QED
    BY <2>1, <2>2
<1>2. \A x \in Request, h \in Host : Verifies(x, h)' <=> Verifies(x, h)
  BY <1>1 DEF Verifies
<1>3. \A h \in Host : {req'[x].token : x \in {y \in Request : Verifies(y, h)'}}
                        = {req[x].token : x \in {y \in Request : Verifies(y, h)}}
  BY <1>1, <1>2
<1> QED
  BY <1>3 DEF Asked

\* A request that ends takes its question back, and no other host's.
LEMMA AskedLess ==
  ASSUME TypeOK, NEW q \in Request, NEW r \in Handlers, Become(q, r), r.token = 0,
         NEW h \in Host, h = req[q].name.host
  PROVE  \E left \in SUBSET Asked[h] : Asked' = [Asked EXCEPT ![h] = left]
<1>1. \A x \in Request : x # q => req'[x] = req[x]
  BY MoveType
<1>2. req'[q].token = 0
  BY MoveType
<1>3. \A g \in Host : ~Verifies(q, g)'
  BY <1>2 DEF Verifies
<1>4. \A x \in Request, g \in Host : g # h => (Verifies(x, g)' <=> Verifies(x, g))
  <2> TAKE x \in Request, g \in Host
  <2>1. CASE x = q
    BY <1>3, <2>1 DEF Verifies
  <2>2. CASE x # q
    BY <1>1, <2>2 DEF Verifies
  <2> QED
    BY <2>1, <2>2
<1>5. \A g \in Host \ {h} : Asked'[g] = Asked[g]
  <2> TAKE g \in Host \ {h}
  <2>1. \A x \in Request : Verifies(x, g) => req'[x].token = req[x].token
    BY <1>1, <1>3, <1>4
  <2>2. {req'[x].token : x \in {y \in Request : Verifies(y, g)'}}
          = {req[x].token : x \in {y \in Request : Verifies(y, g)}}
    BY <1>4, <2>1
  <2> QED
    BY <2>2 DEF Asked
<1>6. Asked'[h] \subseteq Asked[h]
  <2>1. \A x \in Request : Verifies(x, h)' => Verifies(x, h) /\ req'[x].token = req[x].token
    <3> TAKE x \in Request
    <3>1. CASE x = q
      BY <1>3, <3>1
    <3>2. CASE x # q
      BY <1>1, <3>2 DEF Verifies
    <3> QED
      BY <3>1, <3>2
  <2>2. {req'[x].token : x \in {y \in Request : Verifies(y, h)'}}
          \subseteq {req[x].token : x \in {y \in Request : Verifies(y, h)}}
    BY <2>1
  <2> QED
    BY <2>2 DEF Asked
<1>7. Asked' = [Asked EXCEPT ![h] = Asked'[h]]
  BY <1>5 DEF Asked
<1> QED
  BY <1>6, <1>7

\* A verify that starts asks about the claim its host has.
LEMMA AskedMore ==
  ASSUME TypeOK, NEW q \in Request, NEW r \in Handlers, Become(q, r),
         req[q].token = 0, r.token > 0, NEW h \in Host, r.name.host = h
  PROVE  Asked' = [Asked EXCEPT ![h] = @ \cup {r.token}]
<1>1. \A x \in Request : x # q => req'[x] = req[x]
  BY MoveType
<1>2. req'[q] = r
  BY MoveType
<1>3. \A g \in Host : ~Verifies(q, g) /\ (Verifies(q, g)' <=> g = h)
  BY <1>2 DEF Verifies
<1>4. \A x \in Request, g \in Host : x # q => (Verifies(x, g)' <=> Verifies(x, g))
  BY <1>1 DEF Verifies
<1>5. \A g \in Host : {req'[x].token : x \in {y \in Request : Verifies(y, g)'}}
                        = {req[x].token : x \in {y \in Request : Verifies(y, g)}}
                          \cup (IF g = h THEN {r.token} ELSE {})
  <2> TAKE g \in Host
  <2>1. CASE g = h
    BY <1>1, <1>2, <1>3, <1>4, <2>1
  <2>2. CASE g # h
    BY <1>1, <1>2, <1>3, <1>4, <2>2
  <2> QED
    BY <2>1, <2>2
<1>6. \A g \in Host : Asked'[g] = Asked[g] \cup (IF g = h THEN {r.token} ELSE {})
  BY <1>5 DEF Asked
<1>7. Asked' = [g \in Host |-> Asked'[g]]
  BY DEF Asked
<1>8. Asked' = [g \in Host |-> Asked[g] \cup (IF g = h THEN {r.token} ELSE {})]
  BY <1>6, <1>7
<1>9. [Asked EXCEPT ![h] = @ \cup {r.token}]
        = [g \in Host |-> Asked[g] \cup (IF g = h THEN {r.token} ELSE {})]
  <2>1. \A f, S : f = [g \in Host |-> f[g]]
          => [f EXCEPT ![h] = @ \cup S] = [g \in Host |-> f[g] \cup (IF g = h THEN S ELSE {})]
    OBVIOUS
  <2>2. Asked = [g \in Host |-> Asked[g]]
    BY DEF Asked
  <2> QED
    BY <2>1, <2>2
<1> QED
  BY <1>8, <1>9

\* Nothing happens to the claims, and a request moves on or ends.
LEMMA QuietMaps ==
  ASSUME IInv, NEW q \in Request, NEW r \in Handlers, Become(q, r),
         (r.token = 0 \/ (r.token = req[q].token /\ r.name = req[q].name)),
         UNCHANGED <<dom, history>>
  PROVE  [Lifecycle!Next]_(Lifecycle!vars)
<1>1. UNCHANGED <<Stage, Claims, history>> /\ TypeOK
  BY DEF Stage, Claims, IInv
<1>2. CASE req[q].token # 0 /\ r.token = 0
  <2>1. PICK h \in Host : h = req[q].name.host
    BY <1>2 DEF IInv, SoundRequest
  <2>2. PICK left \in SUBSET Asked[h] : Asked' = [Asked EXCEPT ![h] = left]
    BY <1>1, <1>2, <2>1, AskedLess
  <2>3. Lifecycle!GiveUp(h)
    BY <1>1, <2>2 DEF Lifecycle!GiveUp, Lifecycle!Answer, Asked, Stage, Claims
  <2> QED
    BY <2>3 DEF Lifecycle!Next
<1>3. CASE req[q].token = 0 \/ r.token # 0
  <2>1. Asked' = Asked
    BY <1>1, <1>3, AskedSame
  <2> QED
    BY <1>1, <2>1 DEF Lifecycle!vars, Asked, Stage, Claims
<1> QED
  BY <1>2, <1>3

LEMMA EndMaps ==
  ASSUME IInv, NEW q \in Request, End(q), UNCHANGED <<dom, history>>
  PROVE  [Lifecycle!Next]_(Lifecycle!vars)
BY RowType, IdleSound, QuietMaps

\* A handler that goes on keeps its token and, when it verifies, its host.
LEMMA GoMaps ==
  ASSUME IInv, NEW q \in Request, req'[q] \in Handlers, Become(q, req'[q]),
         \/ req'[q].token = 0
         \/ req'[q].token = req[q].token /\ req'[q].name = req[q].name,
         UNCHANGED <<dom, history>>
  PROVE  [Lifecycle!Next]_(Lifecycle!vars)
<1>1. PICK r \in Handlers : r = req'[q]
  OBVIOUS
<1> QED
  BY <1>1, QuietMaps

LEMMA AfterSetGoes ==
  ASSUME IInv, NEW q \in Request, AfterSet(q)
  PROVE  /\ Become(q, req'[q])
         /\ \/ req'[q].token = 0
            \/ req'[q].token = req[q].token /\ req'[q].name = req[q].name
<1>1. req \in [Request -> Handlers] /\ req[q] \in Handlers /\ Idle.token = 0
  BY DEF IInv, TypeOK, Idle
<1>2. CASE Become(q, [req[q] EXCEPT !.pc = "syncProxy", !.row = NoRow])
  <2>1. req'[q] = [req[q] EXCEPT !.pc = "syncProxy", !.row = NoRow]
    BY <1>1, <1>2
  <2> QED
    BY <1>1, <1>2, <2>1 DEF Handlers
<1>3. CASE End(q)
  <2>1. req'[q] = Idle
    BY <1>1, <1>3
  <2> QED
    BY <1>1, <1>3, <2>1
<1> QED
  BY <1>2, <1>3 DEF AfterSet

LEMMA ReadMaps ==
  ASSUME IInv, NEW q \in Request,
         \/ UpsertProxy(q) \/ UpsertRead(q) \/ SetRead(q)
         \/ SyncProxy(q) \/ SyncRead(q) \/ SyncLoad(q)
  PROVE  [Lifecycle!Next]_(Lifecycle!vars)
<1>1. IInv'
  BY UpsertProxyStep, UpsertReadStep, SetReadStep, SyncProxyStep, SyncReadStep, SyncLoadStep
<1>2. /\ UNCHANGED <<dom, history>> /\ req'[q] \in Handlers /\ SoundRequest(q)
      /\ req \in [Request -> Handlers] /\ req[q] \in Handlers /\ Idle.token = 0
  BY <1>1 DEF UpsertProxy, UpsertRead, SetRead, SyncProxy, SyncRead, SyncLoad, IInv,
              TypeOK, Idle
<1>3. CASE End(q)
  BY <1>2, <1>3, EndMaps
<1>4. CASE Become(q, [req[q] EXCEPT !.pc = "domainRead", !.seen = FALSE])
  <2>1. req'[q] = [req[q] EXCEPT !.pc = "domainRead", !.seen = FALSE]
    BY <1>2, <1>4
  <2>2. req'[q].token = req[q].token /\ req'[q].name = req[q].name
    BY <1>2, <2>1 DEF Handlers
  <2> QED
    BY <1>2, <1>4, <2>1, <2>2, GoMaps
<1>5. CASE UpsertRead(q)
  <2>1. PICK a \in req[q].todo :
          Become(q, [req[q] EXCEPT !.pc = "domainPut", !.name = a, !.todo = @ \ {a},
                                   !.row = dom[a.host]])
    BY <1>5 DEF UpsertRead
  <2>2. req'[q] = [req[q] EXCEPT !.pc = "domainPut", !.name = a,
                                 !.todo = req[q].todo \ {a}, !.row = dom[a.host]]
    BY <1>2, <2>1
  <2>3. req[q].token = 0
    BY <1>2, <1>5 DEF UpsertRead, SoundRequest
  <2>4. req'[q].token = 0
    BY <1>2, <2>2, <2>3 DEF Handlers
  <2>5. Become(q, req'[q])
    BY <2>1, <2>2
  <2> QED
    BY <1>2, <2>4, <2>5, GoMaps
<1>6. CASE SetRead(q)
  <2>1. CASE AfterSet(q)
    BY <1>2, <2>1, AfterSetGoes, GoMaps
  <2>2. CASE Become(q, [req[q] EXCEPT !.pc = "setPut", !.row = dom[req[q].name.host]])
    <3>1. req'[q] = [req[q] EXCEPT !.pc = "setPut", !.row = dom[req[q].name.host]]
      BY <1>2, <2>2
    <3>2. req'[q].token = req[q].token /\ req'[q].name = req[q].name
      BY <1>2, <3>1 DEF Handlers
    <3> QED
      BY <1>2, <2>2, <3>1, <3>2, GoMaps
  <2> QED
    BY <1>6, <2>1, <2>2 DEF SetRead
<1>7. CASE SyncProxy(q)
  <2>1. Become(q, [req[q] EXCEPT !.pc = "syncRead", !.seen = req[q].proxy \in enabled])
    BY <1>7 DEF SyncProxy
  <2>2. req'[q] = [req[q] EXCEPT !.pc = "syncRead", !.seen = req[q].proxy \in enabled]
    BY <1>2, <2>1
  <2>3. req'[q].token = req[q].token /\ req'[q].name = req[q].name
    BY <1>2, <2>2 DEF Handlers
  <2> QED
    BY <1>2, <2>1, <2>2, <2>3, GoMaps
<1>8. CASE SyncRead(q)
  <2> DEFINE specs == [h \in Host |-> IF req[q].seen /\ Routed(q, h)
                                      THEN dom[h].num ELSE 0]
  <2>1. Become(q, [req[q] EXCEPT !.pc = "load", !.specs = specs])
    BY <1>8 DEF SyncRead
  <2>2. req'[q] = [req[q] EXCEPT !.pc = "load", !.specs = specs]
    BY <1>2, <2>1
  <2>3. req'[q].token = req[q].token /\ req'[q].name = req[q].name
    BY <1>2, <2>2 DEF Handlers
  <2> QED
    BY <1>2, <2>1, <2>2, <2>3, GoMaps
<1>9. CASE Become(q, [req[q] EXCEPT !.pc = "setRead", !.put = "active", !.seen = FALSE,
                                    !.specs = Idle.specs])
  <2>1. req'[q] = [req[q] EXCEPT !.pc = "setRead", !.put = "active", !.seen = FALSE,
                                 !.specs = Idle.specs]
    BY <1>2, <1>9
  <2>2. req'[q].token = req[q].token /\ req'[q].name = req[q].name
    BY <1>2, <2>1 DEF Handlers
  <2> QED
    BY <1>2, <1>9, <2>1, <2>2, GoMaps
<1> QED
  BY <1>3, <1>4, <1>5, <1>6, <1>7, <1>8, <1>9 DEF UpsertProxy, SyncLoad

\* A request that starts: an upsert, a removal or a sync asks nothing, a
\* verify asks about the claim its host has.
LEMMA StartMaps ==
  ASSUME IInv, NEW q \in Request
  PROVE  /\ \A p \in Proxy, names \in SUBSET Name :
              Upsert(q, p, names) => [Lifecycle!Next]_(Lifecycle!vars)
         /\ \A p \in Proxy : Sync(q, p) => [Lifecycle!Next]_(Lifecycle!vars)
         /\ \A h \in Host : Remove(q, h) => [Lifecycle!Next]_(Lifecycle!vars)
<1>1. req \in [Request -> Handlers] /\ req[q] \in Handlers
  BY DEF IInv, TypeOK
<1>2. ASSUME NEW p \in Proxy, NEW names \in SUBSET Name, Upsert(q, p, names)
      PROVE  [Lifecycle!Next]_(Lifecycle!vars)
  <2>1. req'[q] = [Idle EXCEPT !.pc = "proxyPut", !.proxy = p, !.todo = names,
                               !.seen = p \in made]
    BY <1>1, <1>2 DEF Upsert
  <2>2. req'[q].token = 0 /\ req'[q] \in Handlers
    BY <1>2, <2>1, UpsertStep DEF Idle, IInv, TypeOK
  <2> QED
    BY <1>2, <2>1, <2>2, GoMaps DEF Upsert
<1>3. ASSUME NEW p \in Proxy, Sync(q, p)
      PROVE  [Lifecycle!Next]_(Lifecycle!vars)
  <2>1. req'[q] = [Idle EXCEPT !.pc = "syncProxy", !.proxy = p]
    BY <1>1, <1>3 DEF Sync
  <2>2. req'[q].token = 0 /\ req'[q] \in Handlers
    BY <1>3, <2>1, SyncStep DEF Idle, IInv, TypeOK
  <2> QED
    BY <1>3, <2>1, <2>2, GoMaps DEF Sync
<1>4. ASSUME NEW h \in Host, Remove(q, h)
      PROVE  [Lifecycle!Next]_(Lifecycle!vars)
  <2>1. req'[q] = [Idle EXCEPT !.pc = "delete", !.row = dom[h], !.name = NameOf(h)]
    BY <1>1, <1>4 DEF Remove
  <2>2. req'[q].token = 0 /\ req'[q] \in Handlers
    BY <1>4, <2>1, RemoveStep DEF Idle, IInv, TypeOK
  <2> QED
    BY <1>4, <2>1, <2>2, GoMaps DEF Remove
<1> QED
  BY <1>2, <1>3, <1>4

LEMMA VerifyMaps ==
  ASSUME IInv, NEW q \in Request, NEW h \in Host, Verify(q, h)
  PROVE  [Lifecycle!Next]_(Lifecycle!vars)
<1>1. /\ UNCHANGED <<dom, history>> /\ TypeOK /\ SoundRequest(q) /\ req[q].pc = "idle"
      /\ Sound(h, dom[h]) /\ dom[h] # NoRow /\ dom[h].kind = "custom"
  BY DEF Verify, IInv
<1>2. h \in Custom /\ dom[h].num > 0 /\ dom[h].status # "absent"
  BY <1>1 DEF Sound
<1>3. req[q].token = 0
  BY <1>1 DEF SoundRequest
<1>4. req'[q] = [Idle EXCEPT !.pc = "dns", !.token = dom[h].num,
                             !.proxy = dom[h].proxy, !.name = NameOf(h)]
  BY <1>1 DEF Verify, TypeOK
<1>5. PICK r \in Handlers : r = req'[q] /\ Become(q, r)
  <2>1. req'[q] \in Handlers
    BY VerifyStep DEF IInv, TypeOK
  <2> QED
    BY <1>4, <2>1 DEF Verify
<1>6. r.token = dom[h].num /\ r.name.host = h
  BY <1>4, <1>5 DEF Idle, NameOf
<1>7. Asked' = [Asked EXCEPT ![h] = @ \cup {dom[h].num}]
  BY <1>1, <1>2, <1>3, <1>5, <1>6, AskedMore
<1>8. Stage' = Stage /\ Claims' = Claims /\ Stage[h] = dom[h].status /\ Claims[h] = dom[h].num
  BY <1>1 DEF Stage, Claims
<1>9. Asked' = [Asked EXCEPT ![h] = @ \cup {Claims[h]}]
  BY <1>7, <1>8
<1>10. Lifecycle!Ask(h)
  BY <1>1, <1>2, <1>8, <1>9 DEF Lifecycle!Ask, Lifecycle!Custom, Stage, Claims, Asked
<1> QED
  BY <1>10 DEF Lifecycle!Next

\* An upsert claims a host, moves a claim that was vouched for, or changes
\* nothing of the claims.
LEMMA UpsertDomainMaps ==
  ASSUME IInv, NEW q \in Request, UpsertDomain(q)
  PROVE  [Lifecycle!Next]_(Lifecycle!vars)
<1>1. /\ UNCHANGED proved /\ TypeOK /\ SoundRequest(q) /\ req[q].pc = "domainPut"
  BY DEF UpsertDomain, IInv
<1>h. PICK h \in Host : h = req[q].name.host
  BY <1>1, NameHost DEF SoundRequest
<1>2. /\ req[q].name \in Name /\ ~Reserved(req[q].name) /\ Sound(h, req[q].row)
      /\ h = req[q].name.host /\ Sound(h, dom[h]) /\ Fresh(h) /\ req[q].token = 0
  BY <1>1, <1>h DEF SoundRequest, IInv
<1>3. CASE dom[h].num # req[q].row.num
  BY <1>1, <1>2, <1>3, EndMaps DEF UpsertDomain
<1>4. CASE dom[h].num = req[q].row.num
  <2>1. PICK r \in Handlers : Become(q, r) /\ r.token = 0
    <3>1. req'[q] \in Handlers
      BY UpsertDomainStep DEF IInv, TypeOK
    <3>2. CASE End(q)
      BY <3>2, RowType DEF Idle
    <3>3. CASE Become(q, [req[q] EXCEPT !.pc = "domainRead", !.name = NoName, !.row = NoRow])
      <4>1. req'[q] = [req[q] EXCEPT !.pc = "domainRead", !.name = NoName, !.row = NoRow]
        BY <1>1, <3>3 DEF TypeOK
      <4>2. [req[q] EXCEPT !.pc = "domainRead", !.name = NoName, !.row = NoRow].token
              = req[q].token
        BY <1>1 DEF TypeOK, Handlers
      <4> QED
        BY <1>2, <3>1, <3>3, <4>1, <4>2
    <3> QED
      BY <1>2, <1>4, <3>2, <3>3 DEF UpsertDomain
  <2>2. Asked' = Asked
    BY <1>1, <1>2, <2>1, AskedSame
  <2>3. PICK row \in Row : row = Saved(q)
    BY <1>1, SavedSound
  <2>4. dom' = [dom EXCEPT ![h] = row]
    BY <1>2, <1>4, <2>3 DEF UpsertDomain
  <2>5. /\ Stage' = [Stage EXCEPT ![h] = row.status]
        /\ Claims' = [Claims EXCEPT ![h] = row.num]
    BY <1>1, <2>4, StageMoves
  <2>6. (req[q].name.kind = "subdomain") <=> (h \in Subdomain)
    BY <1>2, NameHost DEF Reserved
  <2>7. /\ row.status = IF h \in Subdomain THEN "active"
                        ELSE IF req[q].row = NoRow THEN "pending" ELSE req[q].row.status
        /\ row.num = IF req[q].row = NoRow THEN removed + 1 ELSE req[q].row.num
    BY <2>3, <2>6 DEF Saved, Domain
  <2>8. Stage[h] = dom[h].status /\ Claims[h] = dom[h].num
    BY <1>2 DEF Stage, Claims
  <2>9. ((dom[h] = NoRow) <=> (req[q].row = NoRow)) /\ ((dom[h] = NoRow) <=> (dom[h].num = 0))
    BY <1>2, <1>4 DEF Sound, NoRow, Domain
  <2>10. CASE dom[h] = NoRow
    <3>1. removed \in Nat /\ removed + 1 \in Number /\ \A n \in Vouched(h) : n \in Nat \ {0}
      <4>1. removed \in 0..MaxRemoved /\ MaxRemoved \in Nat
        BY <1>1, BoundAssumption DEF TypeOK
      <4>2. Vouched(h) \subseteq Number
        BY <1>1 DEF TypeOK
      <4> QED
        BY <4>1, <4>2 DEF Number
    <3>2. removed + 1 \notin Vouched(h)
      BY <1>2, <2>9, <2>10, <3>1 DEF Fresh
    <3>3. Contest(h, removed + 1)
      BY <1>2, <1>4, <2>9, <2>10 DEF UpsertDomain
    <3>4. (Asked[h] = {}) <=> ~\E x \in Request : Verifies(x, h)
      BY DEF Asked
    <3>5. contested' = IF Asked[h] = {} THEN contested
                       ELSE [contested EXCEPT ![h] = @ \cup {removed + 1}]
      BY <3>3, <3>4 DEF Contest
    <3>6. Stage[h] = "absent"
      BY <2>8, <2>10 DEF NoRow, Domain
    <3>7. Stage' = [Stage EXCEPT ![h] = IF h \in Subdomain THEN "active" ELSE "pending"]
      BY <2>5, <2>7, <2>9, <2>10
    <3>8. Claims' = [Claims EXCEPT ![h] = removed + 1]
      BY <2>5, <2>7, <2>9, <2>10
    <3>n. PICK n \in Number : n = removed + 1
      BY <3>1
    <3>9. Lifecycle!Claim(h, n)
      BY <1>1, <2>2, <3>2, <3>5, <3>6, <3>7, <3>8, <3>n
         DEF Lifecycle!Claim, Stage, Claims, Asked
    <3> QED
      BY <3>9 DEF Lifecycle!Next
  <2>11. CASE dom[h] # NoRow
    <3>1. UNCHANGED contested /\ row.num = dom[h].num
      BY <1>2, <1>4, <2>7, <2>9, <2>11 DEF UpsertDomain
    <3>2. Claims' = Claims
      BY <2>5, <2>8, <3>1 DEF Claims
    <3>3. CASE row.status = dom[h].status
      <4>1. Stage' = Stage
        BY <2>5, <2>8, <3>3 DEF Stage
      <4> QED
        BY <1>1, <2>2, <3>1, <3>2, <4>1 DEF Lifecycle!vars, Stage, Claims, Asked
    <3>4. CASE row.status # dom[h].status
      <4>1. h \in Custom /\ dom[h].num \in Vouched(h)
        BY <1>2, <1>4, <2>7, <2>9, <2>11, <3>4 DEF Sound
      <4>2. row.status \in Lifecycle!Claimed /\ dom[h].status # "absent"
        BY <1>2, <1>4, <2>7, <2>9, <2>11, <4>1 DEF Sound, Lifecycle!Claimed
      <4>3. Lifecycle!Answer(h)
        <5>1. Asked' = [Asked EXCEPT ![h] = Asked[h]]
          BY <2>2 DEF Asked
        <5> QED
          BY <5>1 DEF Lifecycle!Answer, Asked
      <4>4. Lifecycle!Move(h)
        BY <1>1, <2>5, <2>8, <3>1, <3>2, <4>1, <4>2, <4>3
           DEF Lifecycle!Move, Lifecycle!Custom, Stage, Claims
      <4> QED
        BY <4>4 DEF Lifecycle!Next
    <3> QED
      BY <3>3, <3>4
  <2> QED
    BY <2>10, <2>11
<1> QED
  BY <1>3, <1>4

LEMMA SetPutMaps ==
  ASSUME IInv, NEW q \in Request, SetPut(q)
  PROVE  [Lifecycle!Next]_(Lifecycle!vars)
<1>1. /\ UNCHANGED history /\ TypeOK /\ SoundRequest(q) /\ FindsItsRow(q)
      /\ req[q].pc = "setPut" /\ req[q].token \in Number \cup {0}
  BY DEF SetPut, IInv, TypeOK, Handlers
<1>h. PICK h \in Host : h = req[q].name.host
  BY <1>1 DEF SoundRequest
<1>2. /\ req[q].put \in {"verified", "active"} /\ req[q].row.num > 0
      /\ h = req[q].name.host /\ h \in Custom
      /\ req[q].token # 0 /\ req[q].token \in proved[h]
  BY <1>1, <1>h DEF SoundRequest
<1>3. PICK r \in Handlers : Become(q, r) /\ (r.token = 0 \/ (r.token = req[q].token /\ r.name = req[q].name))
  BY <1>1, AfterSetSound DEF SetPut
<1>4. CASE dom[h].num # req[q].row.num
  <2>1. UNCHANGED dom
    BY <1>2, <1>4 DEF SetPut
  <2> QED
    BY <1>1, <1>3, <2>1, QuietMaps
<1>5. CASE dom[h].num = req[q].row.num
  <2>1. Sound(h, dom[h]) /\ dom[h] # NoRow /\ dom[h] \in Row
    BY <1>1, <1>2, <1>5 DEF IInv, TypeOK, NoRow, Domain
  <2>2. Stage[h] = dom[h].status /\ Claims[h] = dom[h].num /\ dom[h].status # "absent"
    BY <1>2, <2>1 DEF Sound, Stage, Claims
  <2>3. dom[h].num \in Vouched(h)
    <3>1. req[q].token > 0 /\ dom[h].num # 0
      BY <1>1, <1>2, <1>5, BoundAssumption DEF Number
    <3> QED
      BY <1>1, <1>2, <3>1 DEF FindsItsRow
  <2>4. PICK row \in Row : /\ dom' = [dom EXCEPT ![h] = row]
                           /\ row.num = dom[h].num /\ row.status = req[q].put
    <3>1. [dom[h] EXCEPT !.status = req[q].put] \in Row
      BY <1>2, <2>1 DEF Row, Status
    <3>2. dom' = [dom EXCEPT ![h] = [dom[h] EXCEPT !.status = req[q].put]]
      BY <1>1, <1>2, <1>5 DEF SetPut, TypeOK
    <3> QED
      BY <2>1, <3>1, <3>2 DEF Row
  <2>5. /\ Stage' = [Stage EXCEPT ![h] = req[q].put]
        /\ Claims' = [Claims EXCEPT ![h] = dom[h].num]
    <3>1. /\ Stage' = [Stage EXCEPT ![h] = row.status]
          /\ Claims' = [Claims EXCEPT ![h] = row.num]
      BY <1>1, <2>4, StageMoves
    <3> QED
      BY <2>4, <3>1
  <2>6. Claims' = Claims
    BY <2>2, <2>5 DEF Claims
  <2>7. \E left \in SUBSET Asked[h] : Asked' = [Asked EXCEPT ![h] = left]
    <3>1. CASE r.token = 0
      BY <1>1, <1>2, <1>3, <3>1, AskedLess
    <3>2. CASE r.token # 0
      <4>1. Asked' = Asked
        BY <1>1, <1>3, <3>2, AskedSame
      <4>2. Asked' = [Asked EXCEPT ![h] = Asked[h]]
        BY <4>1 DEF Asked
      <4> QED
        BY <4>2
    <3> QED
      BY <3>1, <3>2
  <2>8. Lifecycle!Move(h)
    BY <1>1, <1>2, <2>2, <2>3, <2>5, <2>6, <2>7
       DEF Lifecycle!Move, Lifecycle!Answer, Lifecycle!Custom, Lifecycle!Claimed,
           Stage, Claims, Asked
  <2> QED
    BY <2>8 DEF Lifecycle!Next
<1> QED
  BY <1>4, <1>5

LEMMA RemoveRowMaps ==
  ASSUME IInv, NEW q \in Request, RemoveRow(q)
  PROVE  [Lifecycle!Next]_(Lifecycle!vars)
<1>h. PICK h \in Host : h = req[q].name.host
  BY DEF RemoveRow, IInv, SoundRequest
<1>1. UNCHANGED history /\ TypeOK /\ h = req[q].name.host /\ End(q)
      /\ req[q].token = 0 /\ Idle \in Handlers /\ Idle.token = 0
  BY <1>h, RowType DEF RemoveRow, IInv, SoundRequest, Idle
<1>2. CASE dom[h].num # req[q].row.num
  BY <1>1, <1>2, EndMaps DEF RemoveRow
<1>3. CASE dom[h].num = req[q].row.num
  <2>1. dom' = [dom EXCEPT ![h] = NoRow]
    BY <1>1, <1>3 DEF RemoveRow
  <2>2. /\ Stage' = [Stage EXCEPT ![h] = "absent"]
        /\ Claims' = [Claims EXCEPT ![h] = 0]
    BY <1>1, <2>1, RowType, StageMoves DEF NoRow, Domain
  <2>3. Asked' = Asked
    BY <1>1, AskedSame
  <2>4. Lifecycle!Release(h)
    BY <1>1, <2>2, <2>3 DEF Lifecycle!Release, Stage, Claims, Asked
  <2> QED
    BY <2>4 DEF Lifecycle!Next
<1> QED
  BY <1>2, <1>3

LEMMA VerifyDnsMaps ==
  ASSUME IInv, NEW q \in Request, VerifyDns(q)
  PROVE  [Lifecycle!Next]_(Lifecycle!vars)
<1>1. /\ UNCHANGED <<dom, contested>> /\ SoundRequest(q) /\ TypeOK
      /\ req[q].pc = "dns" /\ req[q] \in Handlers
  BY DEF VerifyDns, IInv, TypeOK
<1>h. PICK h \in Host : h = req[q].name.host
  BY <1>1 DEF SoundRequest
<1>2. CASE req[q].token \notin txt[h]
  BY <1>1, <1>h, <1>2, EndMaps DEF VerifyDns
<1>3. CASE req[q].token \in txt[h]
  <2>1. /\ proved' = [proved EXCEPT ![h] = @ \cup {req[q].token}]
        /\ Become(q, [req[q] EXCEPT !.pc = "setRead", !.put = "verified"])
    BY <1>h, <1>3 DEF VerifyDns
  <2>2. PICK r \in Handlers : r = [req[q] EXCEPT !.pc = "setRead", !.put = "verified"]
    BY GoType DEF IInv, PC, Status
  <2>3. r.token = req[q].token /\ r.name = req[q].name
    BY <1>1, <2>2 DEF Handlers
  <2>4. Asked' = Asked
    BY <1>1, <2>1, <2>2, <2>3, AskedSame
  <2>5. req[q].token \in Asked[h]
    <3>1. req[q].token # 0 /\ req[q].token \in Number \cup {0}
      BY <1>1 DEF SoundRequest, Handlers
    <3>2. Verifies(q, h)
      BY <1>h, <3>1, BoundAssumption DEF Verifies, Number
    <3> QED
      BY <3>2 DEF Asked
  <2>6. Stage' = Stage /\ Claims' = Claims
    BY <1>1 DEF Stage, Claims
  <2>7. Lifecycle!Prove(h)
    BY <1>1, <2>1, <2>4, <2>5, <2>6 DEF Lifecycle!Prove, Stage, Claims, Asked
  <2> QED
    BY <2>7 DEF Lifecycle!Next
<1> QED
  BY <1>2, <1>3

\* Every step of the handlers is a step of the promised life of a host, or
\* changes nothing of it.
LEMMA StepMaps ==
  ASSUME IInv, [Next]_vars
  PROVE  [Lifecycle!Next]_(Lifecycle!vars)
<1>1. ASSUME NEW q \in Request, Step(q)
      PROVE  [Lifecycle!Next]_(Lifecycle!vars)
  <2>1. CASE \/ UpsertProxy(q) \/ UpsertRead(q) \/ SetRead(q)
             \/ SyncProxy(q) \/ SyncRead(q) \/ SyncLoad(q)
    BY <2>1, ReadMaps
  <2>2. CASE UpsertDomain(q)
    BY <2>2, UpsertDomainMaps
  <2>3. CASE SetPut(q)
    BY <2>3, SetPutMaps
  <2>4. CASE RemoveRow(q)
    BY <2>4, RemoveRowMaps
  <2>5. CASE VerifyDns(q)
    BY <2>5, VerifyDnsMaps
  <2> QED
    BY <1>1, <2>1, <2>2, <2>3, <2>4, <2>5 DEF Step
<1>2. ASSUME NEW q \in Request, Fail(q)
      PROVE  [Lifecycle!Next]_(Lifecycle!vars)
  BY <1>2, EndMaps DEF Fail
<1>3. ASSUME NEW q \in Request, NEW p \in Proxy,
             Sync(q, p) \/ \E names \in SUBSET Name : Upsert(q, p, names)
      PROVE  [Lifecycle!Next]_(Lifecycle!vars)
  BY <1>3, StartMaps
<1>4. ASSUME NEW q \in Request, NEW h \in Host, Verify(q, h) \/ Remove(q, h)
      PROVE  [Lifecycle!Next]_(Lifecycle!vars)
  BY <1>4, StartMaps, VerifyMaps
<1>5. CASE UNCHANGED <<dom, history, req>>
  <2>1. Stage' = Stage /\ Claims' = Claims /\ Asked' = Asked
    BY <1>5 DEF Stage, Claims, Asked, Verifies
  <2> QED
    BY <1>5, <2>1 DEF Lifecycle!vars, Stage, Claims, Asked
<1>6. ASSUME NEW p \in Proxy, Disable(p)
      PROVE  UNCHANGED <<dom, history, req>>
  BY <1>6 DEF Disable
<1>7. ASSUME NEW h \in Host, PublishTxt(h) \/ WithdrawTxt(h)
      PROVE  UNCHANGED <<dom, history, req>>
  BY <1>7 DEF PublishTxt, WithdrawTxt
<1>8. CASE UNCHANGED vars
  BY <1>5, <1>8 DEF vars
<1> QED
  BY <1>1, <1>2, <1>3, <1>4, <1>5, <1>6, <1>7, <1>8 DEF Next

\* The requests of server.ts, however they interleave and fail, implement
\* the life of a host that HostLifecycle promises.
THEOREM Refinement == Spec => ImplementsLifecycle
<1>1. Init => Lifecycle!Init
  <2> SUFFICES ASSUME Init PROVE Lifecycle!Init
    OBVIOUS
  <2>1. Asked = [h \in Host |-> {}]
    BY DEF Init, Asked, Verifies, Idle
  <2> QED
    BY <2>1 DEF Init, Lifecycle!Init, NoRow, Domain, Asked
<1> QED
  BY <1>1, StepMaps, Invariance, PTL DEF Spec, ImplementsLifecycle, Lifecycle!Spec
=============================================================================
