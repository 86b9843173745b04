--------------------------- MODULE CaddyProxyProofs ---------------------------
(***************************************************************************)
(* Proofs about CaddyProxy, for every set of apps, domains, ports and      *)
(* requests and any number of events.                                      *)
(***************************************************************************)
EXTENDS CaddyProxy, TLAPS

Slots == Requests \cup {Boot}

\* The server answers requests, or is about to, after the boot's own sync.
Live == boot.pc \in {"sync", "up"}

\* The syncs under way are in the order of their reads; a sync that a later one
\* was posted before has been passed by it with all that read before it.
OrderOK ==
    /\ overtaken \subseteq Posting /\ \A q \in Slots : req[q].older \subseteq Posting \ {q}
    /\ \A q, r \in Posting : q # r => q \in req[r].older \/ r \in req[q].older
    /\ \A q \in Slots : \A r \in req[q].older : req[r].older \subseteq req[q].older
    /\ \A q \in overtaken : req[q].older \subseteq overtaken

\* The sync that has read last.
Last(p) == p \in Posting /\ Posting \ {p} \subseteq req[p].older

\* A sync is to come that has not read yet, something is owed, or the last one
\* to have read carries the routes of the rows, or has posted them.
RoutesInv ==
    \/ \E q \in Slots : At(q, "sync")
    \/ owed # {}
    \/ /\ \A p \in Posting \ overtaken : Last(p) => ~Stale(p)
       /\ Posting \subseteq overtaken => table = Routes

ProxyInv ==
    /\ OrderOK
    /\ Live => RoutesInv
    /\ ~Live => \A q \in Slots : At(q, "idle")

\* Whether the rest of a boot that nothing has disturbed finds Caddy as it
\* expects it, step by step.
OnPorts == caddy.ports = want
Serving == caddy.state = "running" /\ (boot.seen \in {"created", "paused"} \/ OnPorts)

CaddyOK == caddy \in [state : States, ports : Ports] /\ want \in Ports

QuietOK ==
    /\ boot.pc \in {"down", "ensure", "look"} => boot.seen = "none"
    /\ boot.pc = "health" => caddy.state = "running" /\ boot.seen = "running"
    /\ boot.pc = "ports" => caddy.state = "running" /\ boot.seen = "running"
    /\ boot.pc = "stop" =>
          \/ caddy.state \in {"exited", "dead"} /\ boot.seen = caddy.state
          \/ caddy.state = "running" /\ boot.seen = "running" /\ ~OnPorts
    /\ boot.pc = "rm" =>
          caddy.state \in {"exited", "dead"} /\ boot.seen \in {"running", "exited", "dead"}
    /\ boot.pc = "create" =>
          caddy.state = "none" /\ boot.seen \in {"none", "running", "exited", "dead"}
    /\ boot.pc = "start" =>
          \/ caddy.state = "created" /\ boot.seen = "created"
          \/ /\ caddy.state = "created" /\ OnPorts
             /\ boot.seen \in {"none", "running", "exited", "dead"}
          \/ caddy.state = "running" /\ boot.seen = "paused"
    /\ boot.pc = "unpause" => caddy.state = "paused" /\ boot.seen = "paused"
    /\ boot.pc = "poll" => boot.seen = "restarting"
    /\ boot.pc # "restart"
    /\ boot.pc \in {"verify", "sync", "up"} /\ boot.seen # "restarting" => Serving
    /\ boot.pc = "verify" => boot.seen # "restarting"
    /\ boot.pc = "up" /\ boot.seen # "restarting" /\ named => boot.ok

BootInv == Quiet => QuietOK

AdminFirst(t) ==
    \A i \in Places : t[i].to = Server => t[0].to = Server /\ AdminHost \in t[0].hosts

AdminInv == AdminFirst(table) /\ \A q \in Posting : AdminFirst(req[q].built)

-----------------------------------------------------------------------------
(* The requests *)

\* What a request has.
Shape(r) == r = [pc |-> r.pc, kind |-> r.kind, app |-> r.app, row |-> r.row, built |-> r.built,
                 older |-> r.older]
ReqOK == req = [q \in Slots |-> req[q]] /\ \A q \in Slots : Shape(req[q])

Others(p) == \A q \in Slots \ {p} : req'[q] = req[q]

LEMMA NoReqIs == Shape(NoReq) /\ NoReq.pc = "idle" /\ NoReq.older = {}
BY DEF Shape, NoReq

\* What setting a field leaves.
LEMMA SetPc ==
    ASSUME NEW s, Shape(s), NEW n
    PROVE  LET t == [s EXCEPT !.pc = n] IN
               Shape(t) /\ t.pc = n /\ t.built = s.built /\ t.older = s.older
BY ONLY Shape(s) DEF Shape

LEMMA SetKind ==
    ASSUME NEW s, Shape(s), NEW n
    PROVE  LET t == [s EXCEPT !.kind = n] IN
               Shape(t) /\ t.pc = s.pc /\ t.built = s.built /\ t.older = s.older
BY ONLY Shape(s) DEF Shape

LEMMA SetApp ==
    ASSUME NEW s, Shape(s), NEW n
    PROVE  LET t == [s EXCEPT !.app = n] IN
               Shape(t) /\ t.pc = s.pc /\ t.built = s.built /\ t.older = s.older
BY ONLY Shape(s) DEF Shape

LEMMA SetRow ==
    ASSUME NEW s, Shape(s), NEW n
    PROVE  LET t == [s EXCEPT !.row = n] IN
               Shape(t) /\ t.pc = s.pc /\ t.built = s.built /\ t.older = s.older
BY ONLY Shape(s) DEF Shape

LEMMA SetBuilt ==
    ASSUME NEW s, Shape(s), NEW n
    PROVE  LET t == [s EXCEPT !.built = n] IN
               Shape(t) /\ t.pc = s.pc /\ t.built = n /\ t.older = s.older
BY ONLY Shape(s) DEF Shape

LEMMA SetOlder ==
    ASSUME NEW s, Shape(s), NEW n
    PROVE  LET t == [s EXCEPT !.older = n] IN
               Shape(t) /\ t.pc = s.pc /\ t.built = s.built /\ t.older = n
BY ONLY Shape(s) DEF Shape

LEMMA ChangeIs ==
    ASSUME NEW k, NEW a, NEW w
    PROVE  LET r == [NoReq EXCEPT !.pc = "change", !.kind = k, !.app = a, !.row = w] IN
               Shape(r) /\ r.pc = "change" /\ r.older = {}
<1> DEFINE s == [NoReq EXCEPT !.pc = "change"]
<1> DEFINE t == [s EXCEPT !.kind = k]
<1> DEFINE u == [t EXCEPT !.app = a]
<1>1. Shape(s) /\ s.pc = "change" /\ s.older = {}
  BY NoReqIs, SetPc
<1> HIDE DEF s
<1>2. Shape(t) /\ t.pc = "change" /\ t.older = {}
  BY <1>1, SetKind
<1> HIDE DEF t
<1>3. Shape(u) /\ u.pc = "change" /\ u.older = {}
  BY <1>2, SetApp
<1> HIDE DEF u
<1>4. LET r == [u EXCEPT !.row = w] IN Shape(r) /\ r.pc = "change" /\ r.older = {}
  BY <1>3, SetRow
<1>5. QED  BY <1>4 DEF s, t, u

LEMMA SyncIs ==
    ASSUME NEW k
    PROVE  LET r == [NoReq EXCEPT !.pc = "sync", !.kind = k] IN
               Shape(r) /\ r.pc = "sync" /\ r.older = {}
<1> DEFINE s == [NoReq EXCEPT !.pc = "sync"]
<1>1. Shape(s) /\ s.pc = "sync" /\ s.older = {}
  BY NoReqIs, SetPc
<1> HIDE DEF s
<1>2. LET t == [s EXCEPT !.kind = k] IN
               Shape(t) /\ t.pc = "sync" /\ t.older = {}
  BY <1>1, SetKind
<1>3. QED  BY <1>2 DEF s

LEMMA PostIs ==
    ASSUME NEW p, Shape(req[p])
    PROVE  LET r == [req[p] EXCEPT !.pc = "post", !.built = Routes, !.older = Posting] IN
               Shape(r) /\ r.pc = "post" /\ r.older = Posting /\ r.built = Routes
<1> DEFINE s == [req[p] EXCEPT !.pc = "post"]
<1> DEFINE t == [s EXCEPT !.built = Routes]
<1>2. Shape(s) /\ s.pc = "post"
  BY SetPc
<1> HIDE DEF s
<1>3. Shape(t) /\ t.pc = "post" /\ t.built = Routes
  BY <1>2, SetBuilt
<1> HIDE DEF t
<1>4. LET u == [t EXCEPT !.older = Posting] IN
          Shape(u) /\ u.pc = "post" /\ u.built = Routes /\ u.older = Posting
  BY <1>3, SetOlder
<1>5. QED  BY <1>4 DEF s, t

LEMMA Put ==
    ASSUME ReqOK, NEW p \in Slots, NEW r, Shape(r), req' = [req EXCEPT ![p] = r]
    PROVE  ReqOK' /\ Others(p) /\ req'[p] = r
<1>1. Others(p) /\ req'[p] = r /\ req' = [q \in Slots |-> req'[q]]
  BY DEF ReqOK, Others
<1>2. \A q \in Slots : Shape(req'[q])
  BY <1>1 DEF ReqOK, Others
<1>3. QED  BY <1>1, <1>2 DEF ReqOK, Shape

LEMMA Vanish ==
    ASSUME ReqOK, NEW p \in Slots, Gone(p)
    PROVE  /\ ReqOK' /\ req'[p] = NoReq
           /\ \A q \in Slots \ {p} : /\ req'[q].pc = req[q].pc /\ req'[q].built = req[q].built
                                     /\ req'[q].older = req[q].older \ {p}
<1>1. DOMAIN req = Slots
  BY DEF ReqOK
<1>2. req' = [q \in Slots |-> IF q = p THEN NoReq ELSE [req[q] EXCEPT !.older = @ \ {p}]]
  BY <1>1 DEF Gone
<1>3. \A r : Shape(r) => /\ Shape([r EXCEPT !.older = @ \ {p}])
                         /\ [r EXCEPT !.older = @ \ {p}].pc = r.pc
                         /\ [r EXCEPT !.older = @ \ {p}].built = r.built
                         /\ [r EXCEPT !.older = @ \ {p}].older = r.older \ {p}
  BY DEF Shape
<1>4. \A q \in Slots \ {p} : req'[q] = [req[q] EXCEPT !.older = @ \ {p}]
  BY <1>2
<1>5. req'[p] = NoReq
  BY <1>2
<1>6. \A q \in Slots : Shape(req'[q])
  <2>1. \A q \in Slots \ {p} : Shape(req[q])
    BY DEF ReqOK
  <2>2. ASSUME NEW q \in Slots \ {p} PROVE Shape(req'[q])
    <3>1. Shape(req[q]) /\ req'[q] = [req[q] EXCEPT !.older = @ \ {p}]
      BY <1>4, <2>1
    <3>2. QED  BY ONLY <3>1 DEF Shape
  <2>3. QED  BY <1>5, <2>2, NoReqIs
<1>7. req' = [q \in Slots |-> req'[q]]
  BY <1>2
<1>8. ReqOK'
  BY <1>6, <1>7 DEF ReqOK, Shape
<1>9. QED  BY <1>3, <1>4, <1>5, <1>8 DEF ReqOK

-----------------------------------------------------------------------------
(* The order of the syncs *)

LEMMA PutOrder ==
    ASSUME ReqOK, OrderOK, NEW p \in Slots, NEW r, Shape(r), req' = [req EXCEPT ![p] = r],
           req[p].pc # "post", r.pc # "post", r.older = {}, overtaken' = overtaken
    PROVE  OrderOK' /\ Posting' = Posting
<1>1. Others(p) /\ req'[p] = r
  BY Put
<1>2. Posting' = Posting /\ p \notin Posting
  BY <1>1 DEF Posting, At, Others, Slots
<1>3. \A q \in Slots : /\ req'[q].older \subseteq Posting \ {q}
                       /\ q # p => req'[q].older = req[q].older
  BY <1>1 DEF OrderOK, Others
<1>4. \A q \in Posting : q \in Slots /\ q # p
  BY <1>2 DEF Posting, Slots
<1>5. \A q \in Slots : \A s \in req'[q].older : req'[s].older \subseteq req'[q].older
  BY <1>1, <1>3, <1>4 DEF OrderOK
<1>6. \A q \in overtaken : req'[q].older \subseteq overtaken
  BY <1>3, <1>4 DEF OrderOK
<1>7. \A q, s \in Posting : q # s => q \in req'[s].older \/ s \in req'[q].older
  BY <1>3, <1>4 DEF OrderOK
<1>8. QED  BY <1>2, <1>3, <1>5, <1>6, <1>7 DEF OrderOK

LEMMA GoneOrder ==
    ASSUME ReqOK, OrderOK, NEW p \in Slots, Gone(p),
           overtaken' = overtaken \ {p} \/ overtaken' = (overtaken \cup req[p].older) \ {p}
    PROVE  OrderOK' /\ Posting' = Posting \ {p}
<1>1. req'[p] = NoReq /\ \A q \in Slots \ {p} : /\ req'[q].pc = req[q].pc
                                               /\ req'[q].older = req[q].older \ {p}
  BY Vanish
<1>2. Posting' = Posting \ {p}
  BY <1>1, NoReqIs DEF Posting, At, Slots
<1>3. req'[p].older = {}
  BY <1>1, NoReqIs
<1>4. \A q \in Slots : req'[q].older \subseteq (Posting \ {p}) \ {q}
  BY <1>1, <1>3 DEF OrderOK
<1>5. \A q \in Slots : \A s \in req'[q].older : req'[s].older \subseteq req'[q].older
  <2>1. \A q \in Slots : \A s \in req[q].older : s \in Slots
    BY DEF OrderOK, Posting, Slots
  <2>2. QED  BY <1>1, <1>3, <2>1 DEF OrderOK
<1>6. \A q, s \in Posting \ {p} : q # s => q \in req'[s].older \/ s \in req'[q].older
  <2>1. \A q \in Posting : q \in Slots
    BY DEF Posting, Slots
  <2>2. QED  BY <1>1, <2>1 DEF OrderOK
<1>7. overtaken' \subseteq Posting \ {p}
  BY DEF OrderOK
<1>8. \A q \in overtaken' : req'[q].older \subseteq overtaken'
  <2>1. \A q \in overtaken' : q \in Slots /\ q # p
    BY <1>7 DEF Posting, Slots
  <2>2. QED  BY <1>1, <2>1 DEF OrderOK
<1>9. QED  BY <1>2, <1>4, <1>5, <1>6, <1>7, <1>8 DEF OrderOK

LEMMA ReadOrder ==
    ASSUME ReqOK, OrderOK, NEW p \in Slots, NEW r, Shape(r), req' = [req EXCEPT ![p] = r],
           req[p].pc = "sync", r.pc = "post", r.older = Posting, overtaken' = overtaken
    PROVE  OrderOK' /\ Posting' = Posting \cup {p} /\ p \notin Posting
<1>1. Others(p) /\ req'[p] = r
  BY Put
<1>2. Posting' = Posting \cup {p} /\ p \notin Posting
  BY <1>1 DEF Posting, At, Others, Slots
<1>3. \A q \in Slots : q # p => req'[q].older = req[q].older
  BY <1>1 DEF Others
<1>4. \A q \in Posting : q \in Slots /\ q # p
  BY <1>2 DEF Posting, Slots
<1>5. \A q \in Slots : req'[q].older \subseteq (Posting \cup {p}) \ {q}
  BY <1>1, <1>2, <1>3 DEF OrderOK
<1>6. \A q \in Slots : \A s \in req'[q].older : req'[s].older \subseteq req'[q].older
  <2>1. \A q \in Slots : \A s \in req'[q].older : s \in Posting
    BY <1>1, <1>3 DEF OrderOK
  <2>2. \A s \in Posting : req'[s].older = req[s].older /\ req[s].older \subseteq Posting
    BY <1>3, <1>4 DEF OrderOK
  <2>3. QED  BY <1>1, <1>3, <2>1, <2>2 DEF OrderOK
<1>7. \A q, s \in Posting \cup {p} : q # s => q \in req'[s].older \/ s \in req'[q].older
  BY <1>1, <1>3, <1>4 DEF OrderOK
<1>8. \A q \in overtaken : req'[q].older \subseteq overtaken
  BY <1>3, <1>4 DEF OrderOK
<1>9. QED  BY <1>2, <1>5, <1>6, <1>7, <1>8 DEF OrderOK

-----------------------------------------------------------------------------
(* The routes *)

RowsOK == rows = [a \in Apps |-> rows[a]]

LEMMA RoutesStay ==
    ASSUME UNCHANGED <<rows, named>>
    PROVE  Routes' = Routes /\ CannotBuild' = CannotBuild
BY DEF Routes, AdminRoute, AppRoute, Routed, CannotBuild

\* A row that is not deployed, written where none is deployed, is not routed.
LEMMA UndeployedIsNotRouted ==
    ASSUME RowsOK, UNCHANGED named, NEW b \in Apps, ~Routed(b), NEW row, ~row.deployed,
           rows' = [rows EXCEPT ![b] = row]
    PROVE  Routes' = Routes
<1>1. rows'[b] = row /\ \A a \in Apps \ {b} : rows'[a] = rows[a]
  BY DEF RowsOK
<1>2. ~Routed(b)' /\ \A a \in Apps \ {b} : Routed(a)' = Routed(a)
  BY <1>1 DEF Routed
<1>3. \A a \in Apps : AppRoute(a)' = AppRoute(a)
  BY <1>1, <1>2 DEF AppRoute
<1>4. \A i \in Places : i # 0 => ByName[i] \in Apps
  <2>1. \A i \in Places : i # 0 => i \in 1..Len(ByName)
    BY CaddyOrder DEF Places
  <2>2. QED  BY <2>1 DEF Apps
<1>5. AdminRoute' = AdminRoute
  BY DEF AdminRoute
<1>6. QED  BY <1>3, <1>4, <1>5 DEF Routes

-----------------------------------------------------------------------------
(* The routes catch up *)

BootOK == boot = [pc |-> boot.pc, polls |-> boot.polls, seen |-> boot.seen, ok |-> boot.ok]

\* What the steps of a request or of a sync leave of the others.
Apart(p) ==
    \A q \in Slots \ {p} : /\ req'[q].pc = req[q].pc /\ req'[q].built = req[q].built
                           /\ req'[q].older = req[q].older

\* A failure is owed for; so is a change by the sync that it leads to.
LEMMA Excused ==
    ASSUME OrderOK', (\E q \in Slots : At(q, "sync"))' \/ (owed # {})', Live'
    PROVE  ProxyInv'
BY DEF ProxyInv, RoutesInv

LEMMA LiveIfBusy ==
    ASSUME ProxyInv, NEW p \in Slots, ~At(p, "idle")
    PROVE  Live
BY DEF ProxyInv

\* A step that changes neither the routes nor what is posted.
LEMMA Unmoved ==
    ASSUME ProxyInv, Live, OrderOK', NEW p \in Slots, Apart(p),
           req[p].pc \notin {"sync", "post"} , req'[p].pc # "post",
           Routes' = Routes, UNCHANGED <<table, overtaken, owed>>, Live'
    PROVE  ProxyInv'
<1>1. CASE (\E q \in Slots : At(q, "sync")) \/ owed # {}
  <2>1. (\E q \in Slots : At(q, "sync"))' \/ (owed # {})'
    BY <1>1 DEF At, Apart
  <2>2. QED  BY <2>1, Excused
<1>2. CASE ~ ((\E q \in Slots : At(q, "sync")) \/ owed # {})
  <2>1. /\ \A x \in Posting \ overtaken : Last(x) => ~Stale(x)
        /\ Posting \subseteq overtaken => table = Routes
    BY <1>2 DEF ProxyInv, RoutesInv
  <2>2. Posting' = Posting /\ p \notin Posting
    BY DEF Posting, At, Apart, Slots
  <2>3. \A x \in Posting : (Last(x)' <=> Last(x)) /\ (Stale(x)' <=> Stale(x))
    BY <2>2 DEF Last, Stale, Apart, Posting, At, Slots
  <2>4. RoutesInv'
    BY <2>1, <2>2, <2>3 DEF RoutesInv
  <2>5. QED  BY <2>4 DEF ProxyInv
<1>3. QED  BY <1>1, <1>2

\* A sync that has just read is the last one, and carries the routes of the rows.
LEMMA ReadIsLast ==
    ASSUME ReqOK, ProxyInv, NEW p \in Slots, ReadRows(p), ~CannotBuild
    PROVE  ReqOK' /\ ProxyInv'
<1> DEFINE r == [req[p] EXCEPT !.pc = "post", !.built = Routes, !.older = Posting]
<1>1. req' = [req EXCEPT ![p] = r] /\ UNCHANGED <<boot, owed, rows, named, table, overtaken>>
  BY DEF ReadRows
<1>2. Shape(r) /\ r.pc = "post" /\ r.older = Posting /\ r.built = Routes
  <2>1. Shape(req[p])
    BY DEF ReqOK
  <2>2. QED  BY <2>1, PostIs
<1>3. req[p].pc = "sync"
  BY DEF ReadRows, At
<1> HIDE DEF r
<1>4. ReqOK' /\ Others(p) /\ req'[p] = r
  BY <1>1, <1>2, Put
<1>5. OrderOK' /\ Posting' = Posting \cup {p} /\ p \notin Posting
  BY <1>1, <1>2, <1>3, ReadOrder DEF ProxyInv
<1>6. Live /\ Live'
  BY <1>1, <1>3, LiveIfBusy DEF At, Live
<1>7. Routes' = Routes
  BY <1>1, RoutesStay
<1>8. ASSUME NEW x \in Posting' \ overtaken', Last(x)' PROVE ~Stale(x)'
  <2>1. CASE x = p
    BY <1>2, <1>4, <1>7, <2>1 DEF Stale
  <2>2. CASE x # p
    <3>1. x \in Posting /\ x \in Slots
      BY <1>5, <2>2 DEF Posting, Slots
    <3>2. req'[x].older = req[x].older /\ p \notin req[x].older
      BY <1>4, <1>5, <2>2, <3>1 DEF Others, OrderOK, ProxyInv
    <3>3. p \in Posting' \ {x}
      BY <1>5, <2>2
    <3>4. QED  BY <1>8, <3>2, <3>3 DEF Last
  <2>3. QED  BY <2>1, <2>2
<1>9. ~ (Posting' \subseteq overtaken')
  BY <1>1, <1>5 DEF OrderOK, ProxyInv
<1>10. RoutesInv'
  BY <1>8, <1>9 DEF RoutesInv
<1>11. QED  BY <1>4, <1>5, <1>6, <1>10 DEF ProxyInv

\* A post pays what is owed, unless one that is still to come is stale.
LEMMA PostCatchesUp ==
    ASSUME ReqOK, BootOK, ProxyInv, NEW p \in Slots, Post(p)
    PROVE  ReqOK' /\ BootOK' /\ ProxyInv'
<1>1. At(p, "post") /\ p \in Posting /\ Gone(p) /\ UNCHANGED <<rows, named>>
  BY DEF Post, SyncEnds, Posting, Slots
<1>2. Live /\ Live' /\ BootOK'
  <2>1. Live
    BY <1>1, LiveIfBusy DEF At
  <2>2. boot' = boot \/ \E ok : boot' = [boot EXCEPT !.pc = "up", !.ok = ok]
    BY DEF Post, SyncEnds
  <2>3. QED  BY <2>1, <2>2 DEF BootOK, Live
<1>3. OrderOK' /\ Posting' = Posting \ {p}
  BY <1>1, GoneOrder DEF ProxyInv, Post
<1>4. /\ ReqOK' /\ req'[p] = NoReq
      /\ \A q \in Slots \ {p} : /\ req'[q].pc = req[q].pc /\ req'[q].built = req[q].built
                                /\ req'[q].older = req[q].older \ {p}
  BY <1>1, Vanish
<1>5. Routes' = Routes
  BY <1>1, RoutesStay
<1>6. \A x \in Posting \ {p} : x \in Slots /\ (Stale(x)' <=> Stale(x))
  BY <1>4, <1>5 DEF Stale, At, Posting, Slots
<1>7. CASE caddy.state # "running"
  BY <1>2, <1>3, <1>4, <1>7, Excused DEF Post
<1>8. CASE caddy.state = "running" /\ \A q \in Posting : ~Stale(q)
  <2>1. table' = req[p].built /\ req[p].built = Routes
    BY <1>1, <1>8 DEF Post, Stale
  <2>2. RoutesInv'
    BY <1>3, <1>5, <1>6, <1>8, <2>1 DEF RoutesInv
  <2>3. QED  BY <1>2, <1>3, <1>4, <2>2 DEF ProxyInv
<1>9. CASE caddy.state = "running" /\ ~ \A q \in Posting : ~Stale(q)
  <2>1. /\ table' = req[p].built /\ overtaken' = (overtaken \cup req[p].older) \ {p}
        /\ owed' = owed \cup (IF Stale(p) /\ p \in overtaken THEN {"overtaken"} ELSE {})
    BY <1>9 DEF Post
  <2>2. CASE owed # {} \/ (Stale(p) /\ p \in overtaken)
    BY <1>2, <1>3, <1>4, <2>1, <2>2, Excused
  <2>3. CASE \E q \in Slots : At(q, "sync")
    <3>1. \E q \in Slots \ {p} : At(q, "sync")
      BY <1>1, <2>3 DEF At
    <3>2. (\E q \in Slots : At(q, "sync"))'
      BY <1>4, <3>1 DEF At
    <3>3. QED  BY <1>2, <1>3, <1>4, <3>2, Excused
  <2>4. CASE /\ ~ (owed # {} \/ (Stale(p) /\ p \in overtaken))
             /\ ~ \E q \in Slots : At(q, "sync")
    <3>1. /\ \A x \in Posting \ overtaken : Last(x) => ~Stale(x)
          /\ \A q, s \in Posting : q # s => q \in req[s].older \/ s \in req[q].older
          /\ \A q \in overtaken : req[q].older \subseteq overtaken
          /\ overtaken \subseteq Posting
      BY <1>2, <2>4 DEF ProxyInv, RoutesInv, OrderOK
    <3>2. ASSUME NEW x \in Posting' \ overtaken', Last(x)' PROVE ~Stale(x)'
      <4>1. x \in Posting /\ x # p /\ x \in Slots /\ x \notin overtaken /\ x \notin req[p].older
        BY <1>3, <1>6, <2>1
      <4>2. p \in req[x].older
        BY <1>1, <3>1, <4>1
      <4>3. (Posting \ {p}) \ {x} \subseteq req[x].older
        BY <1>3, <1>4, <3>2, <4>1 DEF Last
      <4>4. Last(x)
        BY <4>1, <4>2, <4>3 DEF Last
      <4>5. QED  BY <1>6, <3>1, <4>1, <4>4
    <3>3. ASSUME Posting' \subseteq overtaken' PROVE table' = Routes'
      <4>1. CASE ~Stale(p)
        BY <1>1, <1>5, <2>1, <4>1 DEF Stale
      <4>2. CASE Stale(p)
        <5>1. p \notin overtaken
          BY <2>4, <4>2
        <5>2. \A x \in Posting \ {p} : x \in overtaken \/ x \in req[p].older
          BY <1>3, <2>1, <3>3
        <5>3. \A x \in overtaken : x # p /\ p \notin req[x].older /\ x \in Posting
          BY <3>1, <5>1
        <5>4. Posting \ {p} \subseteq req[p].older
          BY <1>1, <3>1, <5>2, <5>3
        <5>5. QED  BY <1>1, <3>1, <4>2, <5>1, <5>4 DEF Last
      <4>3. QED  BY <4>1, <4>2
    <3>4. RoutesInv'
      BY <3>2, <3>3 DEF RoutesInv
    <3>5. QED  BY <1>2, <1>3, <1>4, <3>4 DEF ProxyInv
  <2>5. QED  BY <2>2, <2>3, <2>4
<1>10. QED  BY <1>2, <1>4, <1>7, <1>8, <1>9

\* A step of a handler: it syncs next, or owes, or the routes are as they were.
LEMMA HandlerMoves ==
    ASSUME ReqOK, ProxyInv, Live, NEW p \in Slots, NEW r, Shape(r), req' = [req EXCEPT ![p] = r],
           req[p].pc \in {"idle", "change"}, r.pc \in {"idle", "change", "sync"}, r.older = {},
           UNCHANGED <<boot, overtaken>>,
           \/ r.pc = "sync"
           \/ owed' # {}
           \/ Routes' = Routes /\ UNCHANGED <<table, owed>>
    PROVE  ReqOK' /\ ProxyInv'
<1>1. ReqOK' /\ Others(p) /\ req'[p] = r
  BY Put
<1>2. OrderOK'
  BY PutOrder DEF ProxyInv
<1>3. Live' /\ Apart(p)
  BY <1>1 DEF Live, Apart, Others
<1>4. CASE r.pc = "sync" \/ owed' # {}
  <2>1. (\E q \in Slots : At(q, "sync"))' \/ (owed # {})'
    BY <1>1, <1>4 DEF At
  <2>2. QED  BY <1>1, <1>2, <1>3, <2>1, Excused
<1>5. CASE Routes' = Routes /\ UNCHANGED <<table, owed>> /\ r.pc # "sync"
  <2>1. req[p].pc \notin {"sync", "post"} /\ req'[p].pc # "post"
    BY <1>1
  <2>2. QED  BY <1>1, <1>2, <1>3, <1>5, <2>1, Unmoved
<1>6. QED  BY <1>4, <1>5

\* Every step of a handler.
LEMMA HandlerCatchesUp ==
    ASSUME ReqOK, RowsOK, BootOK, ProxyInv, NEW p \in Requests, Handler(p)
    PROVE  ReqOK' /\ RowsOK' /\ BootOK' /\ ProxyInv'
<1>0. p \in Slots
  BY DEF Slots
<1>1. boot' = boot /\ BootOK' /\ RowsOK'
  <2>1. rows' = rows \/ \E a, row : rows' = [rows EXCEPT ![a] = row]
    BY DEF Handler, Begin, Insert, EditRow, ResaveRow, ResaveQuietly, UpdateRow, SaveRefused,
           Drop, Save
  <2>2. boot' = boot
    BY DEF Handler, Begin, Insert, EditRow, ResaveRow, ResaveQuietly, UpdateRow, SaveRefused,
           Drop
  <2>3. QED  BY <2>1, <2>2 DEF RowsOK, BootOK
<1>2. Live
  BY <1>0, LiveIfBusy DEF Handler, Begin, Insert, EditRow, ResaveRow, ResaveQuietly, UpdateRow,
     SaveRefused, Drop, Up, Live, At
<1>5. ASSUME NEW a \in Apps, NEW kind \in Kinds, Begin(p, kind, a) PROVE ReqOK' /\ ProxyInv'
  <2> DEFINE r == [NoReq EXCEPT !.pc = "change", !.kind = kind, !.app = a, !.row = rows[a]]
  <2>1. /\ req' = [req EXCEPT ![p] = r] /\ req[p].pc = "idle"
        /\ UNCHANGED <<rows, named, boot, overtaken, owed, table>>
    BY <1>5 DEF Begin, At
  <2>2. Shape(r) /\ r.pc = "change" /\ r.older = {}
    BY ChangeIs
  <2> HIDE DEF r
  <2>3. QED  BY <1>0, <1>2, <2>1, <2>2, RoutesStay, HandlerMoves
<1>6. ASSUME NEW a \in Apps, NEW kind \in Kinds, Insert(p, kind, a) PROVE ReqOK' /\ ProxyInv'
  <2>1. CASE kind = "restore"
    <3> DEFINE r == [NoReq EXCEPT !.pc = "sync", !.kind = kind]
    <3>1. req' = [req EXCEPT ![p] = r] /\ req[p].pc = "idle" /\ UNCHANGED <<boot, overtaken>>
      BY <1>6, <2>1 DEF Insert, At
    <3>2. Shape(r) /\ r.pc = "sync" /\ r.older = {}
      BY SyncIs
    <3> HIDE DEF r
    <3>3. QED  BY <1>0, <1>2, <3>1, <3>2, HandlerMoves
  <2>2. CASE kind = "create"
    <3>1. UNCHANGED <<req, named, boot, overtaken, owed, table>> /\ ~Routed(a)
      BY <1>6, <2>2 DEF Insert, Routed
    <3>2. PICK row \in Row : ~row.deployed /\ rows' = [rows EXCEPT ![a] = row]
      BY <1>6, <2>2 DEF Insert
    <3>3. Routes' = Routes
      BY <3>1, <3>2, UndeployedIsNotRouted
    <3>4. ReqOK' /\ OrderOK' /\ Live' /\ (RoutesInv => RoutesInv')
      BY <1>2, <3>1, <3>3 DEF ReqOK, ProxyInv, OrderOK, Live, RoutesInv, Posting, At, Last, Stale,
         Shape
    <3>5. QED  BY <1>2, <3>4 DEF ProxyInv
  <2>3. QED  BY <1>6, <2>1, <2>2 DEF Insert
<1>7. CASE EditRow(p) \/ ResaveRow(p) \/ UpdateRow(p)
  <2> DEFINE r == [NoReq EXCEPT !.pc = "sync", !.kind = req[p].kind]
  <2>1. /\ req' = [req EXCEPT ![p] = r] /\ req[p].pc = "change"
        /\ UNCHANGED <<boot, overtaken>>
    BY <1>7 DEF EditRow, ResaveRow, UpdateRow, SyncNext, At
  <2>2. Shape(r) /\ r.pc = "sync" /\ r.older = {}
    BY SyncIs
  <2> HIDE DEF r
  <2>3. QED  BY <1>0, <1>1, <1>2, <2>1, <2>2, HandlerMoves
<1>8. CASE ResaveQuietly(p) \/ SaveRefused(p)
  <2>1. /\ req' = [req EXCEPT ![p] = NoReq] /\ req[p].pc = "change"
        /\ UNCHANGED <<boot, overtaken, table, named>>
    BY <1>8 DEF ResaveQuietly, SaveRefused, At
  <2>2. owed' # {} \/ (rows' = rows /\ owed' = owed)
    BY <1>8 DEF ResaveQuietly, SaveRefused
  <2>3. owed' # {} \/ (Routes' = Routes /\ UNCHANGED <<table, owed>>)
    BY <2>1, <2>2, RoutesStay
  <2>4. QED  BY <1>0, <1>1, <1>2, <2>1, <2>3, NoReqIs, HandlerMoves
<1>9. CASE Drop(p)
  <2>1. /\ Gone(p) /\ req[p].pc # "idle" /\ overtaken' = overtaken \ {p}
        /\ UNCHANGED <<rows, named, table>>
        /\ owed' = IF At(p, "change") THEN owed ELSE owed \cup {"failed"}
    BY <1>9 DEF Drop, At
  <2>2. OrderOK' /\ Posting' = Posting \ {p}
    BY <1>0, <2>1, GoneOrder DEF ProxyInv
  <2>3. /\ ReqOK' /\ req'[p] = NoReq
        /\ \A q \in Slots \ {p} : /\ req'[q].pc = req[q].pc /\ req'[q].built = req[q].built
                                  /\ req'[q].older = req[q].older \ {p}
    BY <1>0, <2>1, Vanish
  <2>4. Live'
    BY <1>1, <1>2 DEF Live
  <2>5. CASE ~At(p, "change")
    BY <1>1, <2>1, <2>2, <2>3, <2>4, <2>5, Excused
  <2>6. CASE At(p, "change")
    <3>1. p \notin Posting
      BY <2>6 DEF Posting, At
    <3>2. overtaken' = overtaken /\ Apart(p)
      <4>1. overtaken \subseteq Posting /\ \A q \in Slots : req[q].older \subseteq Posting
        BY DEF OrderOK, ProxyInv
      <4>2. overtaken \ {p} = overtaken /\ \A q \in Slots : req[q].older \ {p} = req[q].older
        BY <3>1, <4>1
      <4>3. QED  BY <2>1, <2>3, <4>2 DEF Apart
    <3>3. req[p].pc \notin {"sync", "post"} /\ req'[p].pc # "post"
      BY <2>3, <2>6, NoReqIs DEF At
    <3>4. Routes' = Routes /\ UNCHANGED <<table, owed>>
      BY <2>1, <2>6, RoutesStay
    <3>5. QED  BY <1>0, <1>1, <1>2, <2>2, <2>3, <2>4, <3>2, <3>3, <3>4, Unmoved
  <2>7. QED  BY <2>5, <2>6
<1>10. QED  BY <1>1, <1>5, <1>6, <1>7, <1>8, <1>9 DEF Handler

LEMMA CaddyStays == ASSUME CaddyOK, [Next]_vars PROVE CaddyOK'
<1>1. CASE PowerOn \/ CallFails \/ Die \/ UNCHANGED vars
  BY <1>1 DEF PowerOn, CallFails, Die, vars, rest, proxy, CaddyOK
<1>2. CASE Reconfigure
  BY <1>2 DEF Reconfigure, proxy, CaddyOK
<1>3. CASE Disturb
  BY <1>3 DEF Disturb, In, CaddyOK, States
<1>4. CASE Recover
  BY <1>4 DEF Recover, In, CaddyOK, States
<1>5. ASSUME NEW p \in Requests, Handler(p) PROVE CaddyOK'
  BY <1>5 DEF Handler, Begin, Insert, EditRow, ResaveRow, ResaveQuietly, UpdateRow, SaveRefused,
     Drop, proxy, CaddyOK
<1>6. ASSUME NEW p \in Requests \cup {Boot}, Sync(p) PROVE CaddyOK'
  BY <1>6 DEF Sync, ReadRows, Post, proxy, CaddyOK
<1>7. CASE Ensure \/ Look \/ CheckHealth \/ CheckPorts \/ Verify \/ Poll
  BY <1>7 DEF Ensure, Look, CheckHealth, CheckPorts, Verify, Poll, Goto, Started, StartFails,
     rest, proxy, CaddyOK
<1>8. CASE StopOld \/ RemoveOld \/ Create \/ Start \/ Restart \/ Unpause
  <2>1. want' = want
    BY <1>8 DEF StopOld, RemoveOld, Create, Start, Restart, Unpause, Goto, StartFails, rest
  <2>2. \A s : In(s) /\ s \in States => CaddyOK'
    BY <2>1 DEF In, CaddyOK
  <2>3. caddy.state \in States /\ (caddy' = caddy => CaddyOK')
    BY <2>1 DEF CaddyOK
  <2>4. caddy' = [state |-> "created", ports |-> want] => CaddyOK'
    BY <2>1 DEF CaddyOK, States
  <2>5. {"exited", "none", "running"} \subseteq States
    BY DEF States
  <2>6. CASE StopOld
    BY <2>2, <2>3, <2>5, <2>6 DEF StopOld
  <2>7. CASE RemoveOld \/ Create \/ Start \/ Restart \/ Unpause
    BY <2>2, <2>3, <2>4, <2>5, <2>7 DEF RemoveOld, Create, Start, Restart, Unpause
  <2>8. QED  BY <1>8, <2>6, <2>7
<1>9. QED  BY <1>1, <1>2, <1>3, <1>4, <1>5, <1>6, <1>7, <1>8 DEF Next, BootStep

\* Before the boot's own sync no request is served, and none can be.
LEMMA BootCatchesUp ==
    ASSUME ReqOK, RowsOK, BootOK, CaddyOK, ProxyInv, BootStep \/ PowerOn \/ CallFails
    PROVE  ReqOK' /\ RowsOK' /\ BootOK' /\ ProxyInv'
<1>1. UNCHANGED <<rows, named, table, overtaken>> /\ RowsOK'
  <2>1. UNCHANGED rest
    BY DEF BootStep, PowerOn, CallFails, Ensure, Look, CheckHealth, CheckPorts, StopOld, RemoveOld,
           Create, Start, Verify, Restart, Unpause, Poll, Goto, Started, StartFails
  <2>2. QED  BY <2>1 DEF rest, RowsOK
<1>2. ~Live
  BY DEF BootStep, PowerOn, CallFails, Ensure, Look, CheckHealth, CheckPorts, StopOld, RemoveOld,
         Create, Start, Verify, Restart, Unpause, Poll, AtBoot, Live
<1>3. \A q \in Slots : At(q, "idle")
  BY <1>2 DEF ProxyInv
<1>4. BootOK'
  BY DEF BootOK, NoBoot, BootStep, PowerOn, CallFails, Ensure, Look, CheckHealth, CheckPorts,
         StopOld, RemoveOld, Create, Start, Verify, Restart, Unpause, Poll, Goto, Started,
         StartFails
<1>5. CASE Started
  <2> DEFINE r == [NoReq EXCEPT !.pc = "sync"]
  <2>1. req' = [req EXCEPT ![Boot] = r] /\ boot' = [boot EXCEPT !.pc = "sync", !.polls = 0]
    BY <1>5 DEF Started
  <2>2. Shape(r) /\ r.pc = "sync" /\ r.older = {}
    BY NoReqIs, SetPc
  <2> HIDE DEF r
  <2>3. req[Boot].pc # "post" /\ r.pc # "post" /\ Boot \in Slots
    BY <1>3, <2>2 DEF At, Slots
  <2>4. ReqOK' /\ req'[Boot] = r
    BY <2>1, <2>2, <2>3, Put
  <2>5. OrderOK'
    BY <1>1, <2>1, <2>2, <2>3, PutOrder DEF ProxyInv
  <2>6. Live'
    BY <2>1 DEF BootOK, Live
  <2>7. QED  BY <1>1, <1>4, <2>2, <2>3, <2>4, <2>5, <2>6, Excused DEF At
<1>6. CASE ~Started
  <2>1. req' = req
    BY <1>6 DEF BootStep, PowerOn, CallFails, Ensure, Look, CheckHealth, CheckPorts, StopOld,
       RemoveOld, Create, Start, Verify, Restart, Unpause, Poll, Goto, StartFails
  <2>2. ~Live' \/ owed' # {}
    <3>1. CASE StartFails
      BY <3>1 DEF StartFails
    <3>2. \A pc : pc \notin {"sync", "up"} /\ Goto(pc) => ~Live'
      BY DEF Goto, BootOK, Live
    <3>3. CASE Ensure \/ CheckHealth \/ CheckPorts \/ StopOld
      BY <1>6, <3>2, <3>3 DEF Ensure, CheckHealth, CheckPorts, StopOld
    <3>4. CASE ~StartFails /\ (RemoveOld \/ Create \/ Start \/ Verify \/ Restart \/ Unpause)
      BY <1>6, <3>2, <3>4 DEF RemoveOld, Create, Start, Verify, Restart, Unpause
    <3>5. CASE ~StartFails /\ Poll
      <4>1. Live' = Live
        BY <1>6, <3>2, <3>5 DEF Poll, BootOK, Live
      <4>2. QED  BY <1>2, <4>1
    <3>6. CASE Look
      <4>1. caddy.state \in States
        BY DEF CaddyOK
      <4>2. QED  BY <3>6, <4>1 DEF Look, BootOK, Live, States
    <3>7. CASE PowerOn
      BY <3>7 DEF PowerOn, NoBoot, Live
    <3>8. CASE CallFails
      <4>1. CASE owed' = owed \cup {"failed"}
        BY <4>1
      <4>2. CASE owed' # owed \cup {"failed"}
        <5>1. CASE /\ AtBoot("poll")
                   /\ boot' = [boot EXCEPT !.polls = @ + 1, !.seen = "disturbed"]
          BY <5>1 DEF BootOK, Live, AtBoot
        <5>2. CASE /\ AtBoot("health") \/ AtBoot("ports") \/ AtBoot("stop")
                   /\ boot' = [boot EXCEPT !.seen = "disturbed",
                                   !.pc = CASE AtBoot("health") -> "restart"
                                            [] AtBoot("ports") -> "stop"
                                            [] AtBoot("stop") -> "rm"]
          BY <5>2 DEF BootOK, Live, AtBoot
        <5>3. QED  BY <3>8, <4>2, <5>1, <5>2 DEF CallFails, AtBoot
      <4>3. QED  BY <4>1, <4>2
    <3>9. QED  BY <3>1, <3>3, <3>4, <3>5, <3>6, <3>7, <3>8 DEF BootStep
  <2>3. OrderOK' /\ ReqOK' /\ \A q \in Slots : At(q, "idle")'
    BY <1>1, <1>3, <2>1 DEF OrderOK, ReqOK, Posting, At, ProxyInv, Shape
  <2>4. QED  BY <1>1, <1>4, <2>2, <2>3 DEF ProxyInv, RoutesInv
<1>7. QED  BY <1>5, <1>6

LEMMA NextCatchesUp ==
    ASSUME ReqOK, RowsOK, BootOK, CaddyOK, ProxyInv, [Next]_vars
    PROVE  ReqOK' /\ RowsOK' /\ BootOK' /\ ProxyInv'
<1>1. CASE PowerOn \/ BootStep \/ CallFails
  BY <1>1, BootCatchesUp
<1>2. ASSUME NEW p \in Requests, Handler(p) PROVE ReqOK' /\ RowsOK' /\ BootOK' /\ ProxyInv'
  BY <1>2, HandlerCatchesUp
<1>3. ASSUME NEW p \in Requests \cup {Boot}, Sync(p)
      PROVE  ReqOK' /\ RowsOK' /\ BootOK' /\ ProxyInv'
  <2>1. p \in Slots
    BY DEF Slots
  <2>2. RowsOK'
    BY <1>3 DEF Sync, ReadRows, Post, RowsOK
  <2>3. CASE Post(p)
    BY <2>1, <2>2, <2>3, PostCatchesUp
  <2>4. CASE ReadRows(p) /\ ~CannotBuild
    <3>1. boot' = boot
      BY <2>4 DEF ReadRows
    <3>2. QED  BY <2>1, <2>2, <2>4, <3>1, ReadIsLast DEF BootOK
  <2>5. CASE ReadRows(p) /\ CannotBuild
    <3>1. /\ Gone(p) /\ owed' = owed \cup {"failed"} /\ overtaken' = overtaken
          /\ boot' = IF p = Boot THEN [boot EXCEPT !.pc = "up", !.ok = FALSE] ELSE boot
      BY <2>5 DEF ReadRows, SyncEnds
    <3>2. p \notin Posting /\ ~At(p, "idle")
      BY <2>5 DEF ReadRows, Posting, At
    <3>3. overtaken' = overtaken \ {p}
      BY <3>1, <3>2 DEF OrderOK, ProxyInv
    <3>4. OrderOK' /\ ReqOK'
      BY <2>1, <3>1, <3>3, GoneOrder, Vanish DEF ProxyInv
    <3>5. Live
      BY <2>1, <3>2, LiveIfBusy
    <3>6. Live' /\ BootOK'
      BY <3>1, <3>5 DEF Live, BootOK
    <3>7. QED  BY <2>2, <3>1, <3>4, <3>6, Excused
  <2>6. QED  BY <1>3, <2>3, <2>4, <2>5 DEF Sync
<1>4. CASE Die
  <2>1. /\ req' = [q \in Slots |-> NoReq] /\ boot' = NoBoot /\ overtaken' = {}
        /\ UNCHANGED rows
    BY <1>4 DEF Die, Slots
  <2>2. \A q \in Slots : req'[q] = NoReq
    BY <2>1
  <2>3. ReqOK'
    BY <2>1, <2>2, NoReqIs DEF ReqOK, Shape
  <2>4. \A q \in Slots : At(q, "idle")' /\ req'[q].older = {}
    BY <2>2, NoReqIs DEF At
  <2>5. Posting' = {}
    BY <2>4 DEF Posting, At, Slots
  <2>6. OrderOK'
    BY <2>1, <2>4, <2>5 DEF OrderOK
  <2>7. ~Live' /\ BootOK' /\ RowsOK'
    BY <2>1 DEF Live, NoBoot, BootOK, RowsOK
  <2>8. QED  BY <2>3, <2>4, <2>6, <2>7 DEF ProxyInv
<1>5. CASE Reconfigure
  <2>1. UNCHANGED <<req, boot, overtaken, rows>> /\ ~Live
    BY <1>5 DEF Reconfigure, Live, AtBoot
  <2>2. QED  BY <2>1 DEF ProxyInv, OrderOK, Posting, At, Live, ReqOK, RowsOK, BootOK, Shape
<1>6. CASE Disturb \/ Recover \/ UNCHANGED vars
  <2>1. /\ UNCHANGED <<req, overtaken, rows, named, table, owed>>
        /\ BootOK' /\ boot'.pc = boot.pc
    BY <1>6 DEF Disturb, Recover, BootOK, vars
  <2>2. Routes' = Routes
    BY <2>1, RoutesStay
  <2>3. ReqOK' /\ RowsOK'
    BY <2>1 DEF ReqOK, RowsOK, Shape
  <2>4. OrderOK' /\ Live' = Live /\ Posting' = Posting /\ \A q, s : At(q, s)' = At(q, s)
    BY <2>1 DEF ProxyInv, OrderOK, Posting, At, Live
  <2>5. RoutesInv' = RoutesInv
    BY <2>1, <2>2, <2>4 DEF RoutesInv, Last, Stale, Posting, At
  <2>6. QED  BY <2>1, <2>3, <2>4, <2>5 DEF ProxyInv
<1>7. QED  BY <1>1, <1>2, <1>3, <1>4, <1>5, <1>6 DEF Next

LEMMA InitCatchesUp == ASSUME Init PROVE ReqOK /\ RowsOK /\ BootOK /\ CaddyOK /\ ProxyInv
<1>1. \A q \in Slots : req[q] = NoReq
  BY DEF Init, Slots
<1>2. ReqOK
  BY <1>1, NoReqIs DEF ReqOK, Init, Slots
<1>3. \A q \in Slots : At(q, "idle") /\ req[q].older = {}
  BY <1>1, NoReqIs DEF At
<1>4. Posting = {}
  BY <1>3 DEF Posting, At, Slots
<1>5. OrderOK
  BY <1>3, <1>4 DEF OrderOK, Init
<1>6. ~Live /\ BootOK /\ RowsOK
  BY DEF Init, NoBoot, Live, BootOK, RowsOK
<1>7. CaddyOK
  BY DEF Init, CaddyOK, States
<1>8. QED  BY <1>2, <1>3, <1>5, <1>6, <1>7 DEF ProxyInv

\* While the server is up, the routes in Caddy are those of the app table,
\* unless a sync is still to come or to post, one failed, one posted rows read
\* before another's post, or a save that never syncs undid a change: whatever
\* the number of handlers at work and the order of their syncs.
THEOREM RoutesFollowRows == Spec => []RoutesCatchUp
<1>1. ASSUME ProxyInv PROVE RoutesCatchUp
  <2>1. SUFFICES ASSUME Up, table # Routes, Pending = {}, owed = {} PROVE FALSE
    BY DEF RoutesCatchUp
  <2>2. Live
    BY <2>1 DEF Up, Live
  <2>3. Posting = {} /\ ~ \E q \in Slots : At(q, "sync")
    BY <2>1 DEF Pending, Posting, At, Slots
  <2>4. QED  BY <1>1, <2>1, <2>2, <2>3 DEF ProxyInv, RoutesInv
<1> DEFINE I == ReqOK /\ RowsOK /\ BootOK /\ CaddyOK /\ ProxyInv
<1>2. Init => I
  BY InitCatchesUp
<1>3. I /\ [Next]_vars => I'
  BY CaddyStays, NextCatchesUp
<1>4. I => RoutesCatchUp
  BY <1>1
<1>5. QED  BY <1>2, <1>3, <1>4, PTL DEF Spec

-----------------------------------------------------------------------------
(* The admin host *)

LEMMA RoutesAdminFirst == AdminFirst(Routes)
<1>1. \A i \in Places : i # 0 => ByName[i] \in Apps
  <2>1. \A i \in Places : i # 0 => i \in 1..Len(ByName)
    BY CaddyOrder DEF Places
  <2>2. QED  BY <2>1 DEF Apps
<1>2. \A i \in Places : i # 0 => Routes[i].to # Server
  BY <1>1, CaddyNames DEF Routes, AppRoute, NoRoute
<1>3. 0 \in Places
  BY CaddyOrder DEF Places
<1>4. Routes[0] = AdminRoute
  BY <1>3 DEF Routes
<1>5. AdminRoute.to = Server => AdminHost \in AdminRoute.hosts
  BY CaddyNames DEF AdminRoute, NoRoute
<1>6. QED  BY <1>2, <1>4, <1>5 DEF AdminFirst

\* What a sync carries is what it read; what Caddy is given is what one carried.
LEMMA Carried ==
    ASSUME ReqOK, [Next]_vars
    PROVE  /\ \A q \in Posting' : \/ q \in Posting /\ req'[q].built = req[q].built
                                  \/ req'[q].built = Routes
           /\ table' = table \/ \E p \in Posting : table' = req[p].built
<1> DEFINE Kept == \A q \in Posting' : q \in Posting /\ req'[q].built = req[q].built
<1>0. \A p \in Slots : \A r :
          Shape(r) /\ r.pc # "post" /\ req' = [req EXCEPT ![p] = r] => Kept
  <2>1. SUFFICES ASSUME NEW p \in Slots, NEW r, Shape(r), r.pc # "post",
                        req' = [req EXCEPT ![p] = r]
                 PROVE  Kept
    OBVIOUS
  <2>2. Others(p) /\ req'[p] = r
    BY <2>1, Put
  <2>3. QED  BY <2>1, <2>2 DEF Posting, At, Others, Slots
<1>1. \A p \in Slots : Gone(p) => Kept
  <2>1. SUFFICES ASSUME NEW p \in Slots, Gone(p) PROVE Kept
    OBVIOUS
  <2>2. /\ req'[p] = NoReq
        /\ \A q \in Slots \ {p} : req'[q].pc = req[q].pc /\ req'[q].built = req[q].built
    BY <2>1, Vanish
  <2>3. QED  BY <2>2, NoReqIs DEF Posting, At, Slots
<1>2. UNCHANGED req => Kept
  BY DEF Posting, At, Slots
<1>3. Shape(NoReq) /\ NoReq.pc = "idle"
  BY NoReqIs
<1>4. CASE UNCHANGED vars \/ PowerOn \/ CallFails \/ Reconfigure \/ Disturb \/ Recover
  <2>1. UNCHANGED <<req, table>>
    BY <1>4 DEF vars, PowerOn, CallFails, Reconfigure, Disturb, Recover, rest
  <2>2. QED  BY <1>2, <2>1
<1>5. CASE Die
  <2>1. req' = [q \in Slots |-> NoReq] /\ table' = table
    BY <1>5 DEF Die, Slots
  <2>2. \A q \in Slots : req'[q].pc = "idle"
    BY <1>3, <2>1
  <2>3. QED  BY <2>1, <2>2 DEF Posting, At, Slots
<1>6. CASE BootStep
  <2>1. table' = table /\ (req' = req \/ Started)
    BY <1>6 DEF BootStep, Ensure, Look, CheckHealth, CheckPorts, StopOld, RemoveOld,
       Create, Start, Verify, Restart, Unpause, Poll, Goto, StartFails, Started, rest
  <2>2. CASE Started
    <3> DEFINE r == [NoReq EXCEPT !.pc = "sync"]
    <3>1. Shape(r) /\ r.pc = "sync" /\ Boot \in Slots
      BY <1>3, SetPc DEF Slots
    <3>2. req' = [req EXCEPT ![Boot] = r]
      BY <2>2 DEF Started
    <3> HIDE DEF r
    <3>3. Kept
      BY <1>0, <3>1, <3>2
    <3>4. QED  BY <2>1, <3>3
  <2>3. QED  BY <1>2, <2>1, <2>2
<1>7. ASSUME NEW p \in Requests, Handler(p) PROVE Kept /\ table' = table
  <2>0. p \in Slots
    BY DEF Slots
  <2>1. table' = table
    BY <1>7 DEF Handler, Begin, Insert, EditRow, ResaveRow, ResaveQuietly, UpdateRow, SaveRefused,
       Drop
  <2>2. CASE \E a \in Apps, kind \in Kinds : Begin(p, kind, a)
    <3>1. PICK k, a, w :
              req' = [req EXCEPT ![p] = [NoReq EXCEPT !.pc = "change", !.kind = k,
                                                      !.app = a, !.row = w]]
      BY <2>2 DEF Begin
    <3> DEFINE r == [NoReq EXCEPT !.pc = "change", !.kind = k, !.app = a, !.row = w]
    <3>2. Shape(r) /\ r.pc = "change" /\ r.older = {}
      BY ChangeIs
    <3> HIDE DEF r
    <3>3. req' = [req EXCEPT ![p] = r]
      BY <3>1 DEF r
    <3>4. QED  BY <1>0, <2>0, <2>1, <3>2, <3>3
  <2>3. CASE \/ EditRow(p) \/ ResaveRow(p) \/ UpdateRow(p)
             \/ \E a \in Apps, kind \in Kinds : Insert(p, kind, a) /\ req' # req
    <3>1. PICK k : req' = [req EXCEPT ![p] = [NoReq EXCEPT !.pc = "sync", !.kind = k]]
      BY <2>3 DEF EditRow, ResaveRow, UpdateRow, Insert, SyncNext
    <3> DEFINE r == [NoReq EXCEPT !.pc = "sync", !.kind = k]
    <3>2. Shape(r) /\ r.pc = "sync"
      BY SyncIs
    <3> HIDE DEF r
    <3>3. req' = [req EXCEPT ![p] = r]
      BY <3>1 DEF r
    <3>4. QED  BY <1>0, <2>0, <2>1, <3>2, <3>3
  <2>4. CASE ResaveQuietly(p) \/ SaveRefused(p)
    BY <1>0, <1>3, <2>0, <2>1, <2>4 DEF ResaveQuietly, SaveRefused
  <2>5. CASE Drop(p)
    BY <1>1, <2>0, <2>1, <2>5 DEF Drop
  <2>6. QED  BY <1>2, <1>7, <2>1, <2>2, <2>3, <2>4, <2>5 DEF Handler
<1>8. ASSUME NEW p \in Requests \cup {Boot}, Post(p)
      PROVE  Kept /\ (table' = table \/ \E q \in Posting : table' = req[q].built)
  <2>1. p \in Slots /\ p \in Posting /\ Gone(p)
    BY <1>8 DEF Slots, Posting, Post, SyncEnds
  <2>2. QED  BY <1>1, <1>8, <2>1 DEF Post
<1>9. ASSUME NEW p \in Requests \cup {Boot}, ReadRows(p)
      PROVE  /\ table' = table
             /\ \A q \in Posting' : \/ q \in Posting /\ req'[q].built = req[q].built
                                    \/ req'[q].built = Routes
  <2>0. p \in Slots /\ table' = table
    BY <1>9 DEF Slots, ReadRows
  <2>1. CASE CannotBuild
    BY <1>1, <1>9, <2>0, <2>1 DEF ReadRows, SyncEnds
  <2>2. CASE ~CannotBuild
    <3> DEFINE r == [req[p] EXCEPT !.pc = "post", !.built = Routes, !.older = Posting]
    <3>1. req' = [req EXCEPT ![p] = r]
      BY <1>9, <2>2 DEF ReadRows
    <3>2. Shape(r) /\ r.built = Routes
      BY <2>0, PostIs DEF ReqOK
    <3> HIDE DEF r
    <3>3. Others(p) /\ req'[p] = r
      BY <2>0, <3>1, <3>2, Put
    <3>4. QED  BY <2>0, <3>2, <3>3 DEF Posting, At, Others, Slots
  <2>3. QED  BY <2>1, <2>2
<1>10. QED
  BY <1>4, <1>5, <1>6, <1>7, <1>8, <1>9 DEF Next, Sync

\* No custom domain ever takes the admin host away from the server.
THEOREM AdminHostIsTheServers == Spec => []AdminReachable
<1>1. ASSUME AdminInv PROVE AdminReachable
  <2>1. SUFFICES ASSUME NEW i \in Places, table[i].to = Server
                 PROVE  Serves(table, AdminHost) = Server
    BY DEF AdminReachable
  <2> DEFINE matching == {j \in Places : AdminHost \in table[j].hosts}
  <2>2. table[0].to = Server /\ 0 \in matching
    BY <1>1, <2>1, CaddyOrder DEF AdminInv, AdminFirst, Places
  <2>3. matching \subseteq Nat
    BY CaddyOrder DEF Places
  <2> HIDE DEF matching
  <2>4. \A j \in matching : (\A k \in matching : j <= k) <=> j = 0
    BY <2>2, <2>3
  <2>5. (CHOOSE j \in matching : \A k \in matching : j <= k) = 0
    BY <2>2, <2>4
  <2>6. QED  BY <2>2, <2>5 DEF Serves, matching
<1> DEFINE I == ReqOK /\ RowsOK /\ BootOK /\ CaddyOK /\ ProxyInv
<1>2. Init => I /\ AdminInv
  <2>1. ASSUME Init PROVE AdminInv
    <3>1. \A i \in Places : NoRoutes[i].to # Server
      BY CaddyNames DEF NoRoutes, NoRoute
    <3>2. table = NoRoutes /\ Posting = {}
      BY <2>1, NoReqIs DEF Init, Posting, At
    <3>3. QED  BY <3>1, <3>2 DEF AdminInv, AdminFirst
  <2>2. QED  BY <2>1, InitCatchesUp
<1>3. I /\ AdminInv /\ [Next]_vars => (I /\ AdminInv)'
  <2>1. I /\ AdminInv /\ [Next]_vars => AdminInv'
    BY Carried, RoutesAdminFirst DEF AdminInv, AdminFirst
  <2>2. QED  BY <2>1, CaddyStays, NextCatchesUp
<1>4. QED  BY <1>1, <1>2, <1>3, PTL DEF Spec

-----------------------------------------------------------------------------
(* The boot *)

LEMMA SeenDefs ==
    ASSUME BootOK, NEW pc, Goto(pc)
    PROVE  /\ boot'.pc = pc /\ boot'.seen = boot.seen /\ boot'.ok = boot.ok
           /\ want' = want /\ named' = named
BY DEF BootOK, Goto, rest

\* A call that ends the boot, or sends it on to the sync.
LEMMA BootEndsDefs ==
    ASSUME BootOK
    PROVE  /\ Started => /\ boot'.pc = "sync" /\ boot'.seen = boot.seen
                         /\ want' = want /\ named' = named
           /\ StartFails => /\ boot'.pc = "up" /\ boot'.seen = boot.seen /\ ~boot'.ok
                            /\ want' = want /\ named' = named
BY DEF BootOK, Started, StartFails, rest

\* Setting the state of the container leaves its ports.
LEMMA InDefs == ASSUME CaddyOK, NEW s, In(s) PROVE caddy'.state = s /\ caddy'.ports = caddy.ports
BY DEF CaddyOK, In

LEMMA QuietBootStep ==
    ASSUME BootOK, BootOK', CaddyOK, BootInv, BootStep
    PROVE  BootInv'
<1>0. SUFFICES ASSUME Quiet' PROVE QuietOK'
  BY DEF BootInv
<1>1. boot'.seen = boot.seen \/ (Quiet /\ Look)
  <2>1. CASE Look
    BY <2>1 DEF Look, BootOK
  <2>2. CASE Poll
    BY <2>2, BootEndsDefs DEF Poll, BootOK
  <2>3. CASE ~Look /\ ~Poll
    BY <2>3, BootEndsDefs, SeenDefs DEF BootStep, Ensure, CheckHealth, CheckPorts, StopOld,
       RemoveOld, Create, Start, Verify, Restart, Unpause
  <2>4. QED  BY <2>1, <2>2, <2>3
<1>2. Quiet /\ QuietOK
  BY <1>0, <1>1 DEF BootInv, Quiet
<1>3. CASE Ensure
  <2>1. caddy' = caddy /\ boot'.pc \in {"ensure", "look"} /\ boot'.seen = boot.seen
    BY <1>3, SeenDefs DEF Ensure
  <2>2. QED  BY <1>2, <1>3, <2>1 DEF QuietOK, Ensure, AtBoot
<1>4. CASE Look
  <2>1. /\ caddy' = caddy /\ boot'.seen = caddy.state
        /\ boot'.pc = CASE caddy.state = "none" -> "create"
                        [] caddy.state = "running" -> "health"
                        [] caddy.state = "created" -> "start"
                        [] caddy.state = "paused" -> "unpause"
                        [] caddy.state = "restarting" -> "poll"
                        [] caddy.state \in {"exited", "dead"} -> "stop"
    BY <1>2, <1>4 DEF Look, BootOK, proxy
  <2>2. caddy.state \in States
    BY DEF CaddyOK
  <2>3. CASE caddy.state = "none"
    BY <2>1, <2>3 DEF QuietOK
  <2>4. CASE caddy.state = "running"
    BY <2>1, <2>4 DEF QuietOK
  <2>5. CASE caddy.state = "created"
    BY <2>1, <2>5 DEF QuietOK
  <2>6. CASE caddy.state = "paused"
    BY <2>1, <2>6 DEF QuietOK
  <2>7. CASE caddy.state = "restarting"
    BY <2>1, <2>7 DEF QuietOK
  <2>8. CASE caddy.state \in {"exited", "dead"}
    <3>1. boot'.pc = "stop"
      BY <2>1, <2>8
    <3>2. QED  BY <2>1, <2>8, <3>1 DEF QuietOK
  <2>9. QED  BY <2>2, <2>3, <2>4, <2>5, <2>6, <2>7, <2>8 DEF States
<1>5. CASE CheckHealth
  <2>1. caddy.state = "running" /\ boot.seen = "running" /\ caddy' = caddy
    BY <1>2, <1>5 DEF CheckHealth, AtBoot, QuietOK, proxy
  <2>2. boot'.pc = "ports" /\ boot'.seen = boot.seen
    BY <1>5, <2>1, SeenDefs DEF CheckHealth, MayBeUnhealthy
  <2>3. QED  BY <2>1, <2>2 DEF QuietOK
<1>6. CASE CheckPorts
  <2>1. caddy.state = "running" /\ boot.seen = "running" /\ caddy' = caddy
    BY <1>2, <1>6 DEF CheckPorts, AtBoot, QuietOK, proxy
  <2>2. CASE OnPorts
    <3>1. boot'.pc = "sync" /\ boot'.seen = boot.seen /\ want' = want
      BY <1>6, <2>1, <2>2, BootEndsDefs DEF CheckPorts, OnPorts
    <3>2. QED  BY <2>1, <2>2, <3>1 DEF QuietOK, Serving, OnPorts
  <2>3. CASE ~OnPorts
    <3>1. boot'.pc = "stop" /\ boot'.seen = boot.seen /\ want' = want
      BY <1>6, <2>1, <2>3, SeenDefs DEF CheckPorts, OnPorts
    <3>2. QED  BY <2>1, <2>3, <3>1 DEF QuietOK, OnPorts
  <2>4. QED  BY <2>2, <2>3
<1>7. CASE StopOld
  <2>1. \/ caddy.state \in {"exited", "dead"} /\ boot.seen = caddy.state
        \/ caddy.state = "running" /\ boot.seen = "running"
    BY <1>2, <1>7 DEF StopOld, AtBoot, QuietOK
  <2>2. boot'.pc = "rm" /\ boot'.seen = boot.seen
    BY <1>7, SeenDefs DEF StopOld
  <2>3. caddy'.state \in {"exited", "dead"}
    BY <1>7, <2>1, InDefs DEF StopOld
  <2>4. QED  BY <2>1, <2>2, <2>3 DEF QuietOK
<1>8. CASE RemoveOld
  <2>1. caddy.state \in {"exited", "dead"} /\ boot.seen \in {"running", "exited", "dead"}
    BY <1>2, <1>8 DEF RemoveOld, AtBoot, QuietOK
  <2>2. boot'.pc = "create" /\ boot'.seen = boot.seen /\ caddy'.state = "none"
    BY <1>8, <2>1, SeenDefs, InDefs DEF RemoveOld
  <2>3. QED  BY <2>1, <2>2 DEF QuietOK
<1>9. CASE Create
  <2>1. caddy.state = "none" /\ boot.seen \in {"none", "running", "exited", "dead"}
    BY <1>2, <1>9 DEF Create, AtBoot, QuietOK
  <2>2. /\ boot'.pc = "start" /\ boot'.seen = boot.seen /\ want' = want
        /\ caddy'.state = "created" /\ caddy'.ports = want
    BY <1>9, <2>1, SeenDefs DEF Create
  <2>3. QED  BY <2>1, <2>2 DEF QuietOK, OnPorts
<1>10. CASE Start
  <2>1. \/ caddy.state = "created" /\ boot.seen = "created"
        \/ /\ caddy.state = "created" /\ boot.seen \in {"none", "running", "exited", "dead"}
           /\ OnPorts
        \/ caddy.state = "running" /\ boot.seen = "paused"
    BY <1>2, <1>10 DEF Start, AtBoot, QuietOK
  <2>2. /\ boot'.pc = "verify" /\ boot'.seen = boot.seen /\ want' = want
        /\ caddy'.state = "running" /\ caddy'.ports = caddy.ports
    BY <1>10, <2>1, SeenDefs, InDefs DEF Start
  <2>3. QED  BY <2>1, <2>2 DEF QuietOK, OnPorts, Serving
<1>11. CASE Verify
  <2>1. Serving /\ boot.seen # "restarting" /\ caddy' = caddy
    BY <1>2, <1>11 DEF Verify, AtBoot, QuietOK, proxy
  <2>2. boot'.pc = "sync" /\ boot'.seen = boot.seen /\ want' = want
    BY <1>11, <2>1, BootEndsDefs DEF Verify, MayBeUnhealthy, Serving
  <2>3. QED  BY <2>1, <2>2 DEF QuietOK, OnPorts, Serving
<1>12. CASE Restart
  BY <1>2, <1>12 DEF Restart, AtBoot, QuietOK
<1>13. CASE Unpause
  <2>1. caddy.state = "paused" /\ boot.seen = "paused"
    BY <1>2, <1>13 DEF Unpause, AtBoot, QuietOK
  <2>2. boot'.pc = "start" /\ boot'.seen = boot.seen /\ caddy'.state = "running"
    BY <1>13, <2>1, SeenDefs, InDefs DEF Unpause
  <2>3. QED  BY <2>1, <2>2 DEF QuietOK
<1>14. CASE Poll
  <2>1. boot.seen = "restarting" /\ boot'.seen = boot.seen
    BY <1>2, <1>14, BootEndsDefs DEF Poll, AtBoot, QuietOK, BootOK
  <2>2. boot'.pc \in {"sync", "up", "poll"}
    BY <1>14, BootEndsDefs DEF Poll, AtBoot, BootOK
  <2>3. QED  BY <2>1, <2>2 DEF QuietOK
<1>15. QED
  BY <1>3, <1>4, <1>5, <1>6, <1>7, <1>8, <1>9, <1>10, <1>11, <1>12, <1>13, <1>14 DEF BootStep

LEMMA QuietNext ==
    ASSUME BootOK, BootOK', ProxyInv, CaddyOK, BootInv, [Next]_vars
    PROVE  BootInv'
<1>1. CASE PowerOn \/ Die
  BY <1>1 DEF PowerOn, Die, NoBoot, BootInv, QuietOK
<1>2. CASE Disturb \/ CallFails
  <2>1. boot'.seen = "disturbed"
    BY <1>2 DEF Disturb, CallFails, BootOK
  <2>2. QED  BY <2>1 DEF BootInv, Quiet
<1>3. CASE Reconfigure
  <2>1. boot' = boot /\ boot.pc = "down" /\ caddy' = caddy
    BY <1>3 DEF Reconfigure, AtBoot, proxy
  <2>2. QED  BY <2>1 DEF BootInv, Quiet, QuietOK
<1>4. CASE UNCHANGED vars \/ \E p \in Requests : Handler(p)
  <2>1. UNCHANGED <<boot, caddy, want, named>>
    BY <1>4 DEF vars, proxy, Handler, Begin, Insert, EditRow, ResaveRow, ResaveQuietly, UpdateRow,
       SaveRefused, Drop
  <2>2. QED  BY <2>1 DEF BootInv, Quiet, QuietOK, Serving, OnPorts
<1>5. CASE Recover
  <2>1. /\ UNCHANGED <<boot, want, named>> /\ caddy.state = "restarting"
        /\ caddy'.state = "running" /\ caddy'.ports = caddy.ports
    BY <1>5, InDefs DEF Recover
  <2>2. QED  BY <2>1 DEF BootInv, Quiet, QuietOK, Serving, OnPorts
<1>6. CASE BootStep
  BY <1>6, QuietBootStep
<1>7. ASSUME NEW p \in Requests \cup {Boot}, Sync(p) PROVE BootInv'
  <2>1. UNCHANGED <<caddy, want, named>>
    BY <1>7 DEF Sync, ReadRows, Post, proxy
  <2>2. CASE boot' = boot
    BY <2>1, <2>2 DEF BootInv, Quiet, QuietOK, Serving, OnPorts
  <2>3. CASE boot' # boot
    <3>1. p = Boot /\ boot.pc \in {"sync", "up"}
      <4>1. p = Boot
        BY <1>7, <2>3 DEF Sync, ReadRows, Post, SyncEnds
      <4>2. ~At(Boot, "idle") /\ Boot \in Slots
        BY <1>7, <4>1 DEF Sync, ReadRows, Post, At, Slots
      <4>3. QED  BY <4>1, <4>2, LiveIfBusy DEF Live
    <3>2. /\ boot'.pc = "up" /\ boot'.seen = boot.seen
          /\ boot'.ok \/ ~named \/ caddy.state # "running"
      <4>1. PICK ok : /\ boot' = [boot EXCEPT !.pc = "up", !.ok = ok]
                      /\ ok \/ ~named \/ caddy.state # "running"
        BY <1>7, <2>3, <3>1 DEF Sync, ReadRows, Post, SyncEnds, CannotBuild
      <4>2. QED  BY <4>1 DEF BootOK
    <3>3. QED  BY <2>1, <3>1, <3>2 DEF BootInv, Quiet, QuietOK, Serving, OnPorts
  <2>4. QED  BY <2>2, <2>3
<1>8. QED  BY <1>1, <1>2, <1>3, <1>4, <1>5, <1>6, <1>7 DEF Next

\* A boot that nothing disturbs leaves Caddy running on the configured ports,
\* whatever state it found the container in, with the exceptions the code has.
THEOREM QuietBootsServe == Spec => []QuietBootServes
<1> DEFINE I == ReqOK /\ RowsOK /\ BootOK /\ CaddyOK /\ ProxyInv
<1>1. Init => I /\ BootInv
  BY InitCatchesUp DEF Init, NoBoot, BootInv, QuietOK
<1>2. I /\ BootInv /\ [Next]_vars => (I /\ BootInv)'
  BY CaddyStays, NextCatchesUp, QuietNext
<1>3. BootInv => QuietBootServes
  BY DEF BootInv, QuietBootServes, Quiet, QuietOK, Serving, OnPorts, Up
<1>4. QED  BY <1>1, <1>2, <1>3, PTL DEF Spec

\* Nor does such a boot ever stop or restart a Caddy that runs on those ports.
THEOREM QuietBootsKeepCaddy == Spec => QuietBootKeepsCaddy
<1> DEFINE I == ReqOK /\ RowsOK /\ BootOK /\ CaddyOK /\ ProxyInv
<1>1. Init => I /\ BootInv
  BY InitCatchesUp DEF Init, NoBoot, BootInv, QuietOK
<1>2. I /\ BootInv /\ [Next]_vars => (I /\ BootInv)'
  BY CaddyStays, NextCatchesUp, QuietNext
<1>3. ASSUME BootOK, CaddyOK, BootInv, [Next]_vars, boot.pc \notin {"down", "up"}, Quiet',
             caddy = [state |-> "running", ports |-> want]
      PROVE  caddy' = caddy /\ boot'.pc # "restart"
  <2>0. caddy.state = "running" /\ OnPorts
    BY <1>3 DEF OnPorts
  <2>1. CASE PowerOn
    BY <1>3, <2>1 DEF PowerOn, AtBoot
  <2>2. CASE Disturb \/ CallFails
    <3>1. boot'.seen = "disturbed"
      BY <1>3, <2>2 DEF Disturb, CallFails, BootOK
    <3>2. QED  BY <1>3, <3>1 DEF Quiet
  <2>3. CASE Die
    BY <2>3 DEF Die, NoBoot, proxy
  <2>4. CASE Recover
    BY <2>0, <2>4 DEF Recover
  <2>5. CASE Reconfigure
    BY <1>3, <2>5 DEF Reconfigure, AtBoot
  <2>6. CASE UNCHANGED vars \/ \E p \in Requests : Handler(p)
    <3>1. UNCHANGED <<boot, caddy>>
      BY <2>6 DEF vars, proxy, Handler, Begin, Insert, EditRow, ResaveRow, ResaveQuietly, UpdateRow,
         SaveRefused, Drop
    <3>2. QED  BY <1>3, <3>1 DEF BootInv, Quiet, QuietOK
  <2>7. CASE \E p \in Requests \cup {Boot} : Sync(p)
    <3>1. caddy' = caddy /\ (boot' = boot \/ \E ok : boot' = [boot EXCEPT !.pc = "up", !.ok = ok])
      BY <2>7 DEF Sync, ReadRows, Post, SyncEnds, proxy
    <3>2. CASE boot' = boot
      BY <1>3, <3>1, <3>2 DEF BootInv, Quiet, QuietOK
    <3>3. CASE \E ok : boot' = [boot EXCEPT !.pc = "up", !.ok = ok]
      BY <1>3, <3>1, <3>3 DEF BootOK
    <3>4. QED  BY <3>1, <3>2, <3>3
  <2>8. CASE BootStep
    <3>1. Quiet /\ QuietOK
      <4>1. CASE Look
        BY <1>3, <2>0, <4>1 DEF Look, BootOK, BootInv, Quiet
      <4>2. CASE ~Look
        <5>1. boot'.seen = boot.seen
          <6>1. CASE Poll
            BY <1>3, <6>1, BootEndsDefs DEF Poll, BootOK
          <6>2. CASE ~Poll
            BY <1>3, <2>8, <4>2, <6>2, BootEndsDefs, SeenDefs DEF BootStep, Ensure, CheckHealth,
               CheckPorts, StopOld, RemoveOld, Create, Start, Verify, Restart, Unpause
          <6>3. QED  BY <6>1, <6>2
        <5>2. QED  BY <1>3, <5>1 DEF BootInv, Quiet
      <4>3. QED  BY <4>1, <4>2
    <3>2. CASE Ensure \/ Look \/ CheckHealth \/ CheckPorts \/ Verify \/ Poll
      <4>1. caddy' = caddy
        BY <3>2 DEF Ensure, Look, CheckHealth, CheckPorts, Verify, Poll, proxy
      <4>2. CASE Ensure
        <5>1. boot'.pc \in {"ensure", "look"}
          BY <1>3, <4>2, SeenDefs DEF Ensure
        <5>2. QED  BY <4>1, <5>1
      <4>3. CASE Look
        BY <1>3, <2>0, <4>1, <4>3 DEF Look, BootOK
      <4>4. CASE CheckHealth
        BY <1>3, <2>0, <4>1, <4>4, SeenDefs DEF CheckHealth, MayBeUnhealthy
      <4>5. CASE CheckPorts
        BY <1>3, <4>1, <4>5, SeenDefs, BootEndsDefs DEF CheckPorts
      <4>6. CASE Verify
        BY <1>3, <4>1, <4>6, BootEndsDefs DEF Verify
      <4>7. CASE Poll
        BY <1>3, <4>1, <4>7, BootEndsDefs DEF Poll, BootOK, AtBoot
      <4>8. QED  BY <3>2, <4>2, <4>3, <4>4, <4>5, <4>6, <4>7
    <3>3. CASE Start
      <4>1. In("running") /\ boot'.pc = "verify"
        BY <1>3, <2>0, <3>3, SeenDefs DEF Start
      <4>2. QED  BY <1>3, <4>1 DEF In
    <3>4. CASE StopOld \/ RemoveOld \/ Create \/ Restart \/ Unpause
      BY <2>0, <3>1, <3>4 DEF StopOld, RemoveOld, Create, Restart, Unpause, AtBoot, QuietOK
    <3>5. QED  BY <2>8, <3>2, <3>3, <3>4 DEF BootStep
  <2>9. QED
    BY <1>3, <2>1, <2>2, <2>3, <2>4, <2>5, <2>6, <2>7, <2>8 DEF Next
<1>4. I /\ BootInv /\ [Next]_vars =>
          [boot.pc \notin {"down", "up"} /\ Quiet' /\ caddy = [state |-> "running", ports |-> want]
           => caddy' = caddy /\ boot'.pc # "restart"]_vars
  BY <1>3
<1>5. QED  BY <1>1, <1>2, <1>4, PTL DEF Spec, QuietBootKeepsCaddy

===============================================================================
