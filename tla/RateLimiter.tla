---------------------------- MODULE RateLimiter ----------------------------
(***************************************************************************)
(* The rate limits of an edge: the control plane's store, set in parts     *)
(* (edgecp/ratelimitstore.go), the payloads that the edge fetches and      *)
(* applies in steps while requests are counted (edge/ratelimit.go), the    *)
(* global Limiter and one Limiter per zone (ratelimitrule/), and a wall    *)
(* clock that may step back.  The controller runs the same Limiter.        *)
(*                                                                         *)
(* A request loads each set once and walks it limit by limit; each Take is *)
(* atomic (the strategy's mutex), the walk is not.  Strategies are objects *)
(* on a heap: a set refers to them, and a reload carries them over or not. *)
(* A limit is keyed by host, whose buckets a reload itself affects, or by  *)
(* something of the client (ip, country); there is one client.             *)
(***************************************************************************)
EXTENDS Integers, Sequences, FiniteSets, SequencesExt, FiniteSetsExt

CONSTANTS Reqs,        \* requests, each used again when it has ended
          Hosts,       \* the hosts that clients ask for
          ZoneKeys,    \* the zones a payload may define
          Contents,    \* what the cluster may hold: records with hosts, global
                       \* and zones[key] (sequences of documents, each a sequence
                       \* of limits), and route: the zone of the edge's route
          Loaded,      \* what it may hold when the control plane starts
          Allowed,     \* the hosts of the edge's token
          Resolvers,   \* the keys whose GeoIP database is loaded
          Start,       \* the first instant, in ticks
          MaxTime,     \* bound: the last instant
          MaxBack,     \* bound: ticks of one backward step of the clock
          MaxUpdates,  \* bound: payloads applied
          MaxWrites,   \* bound: changes of the cluster
          Second,      \* minWindow, and the unit of Retry-After, in ticks
          Hour         \* maxWindow, in ticks

Other == "other"       \* collapsedHost
Client == "client"     \* the bucket of the client's address, country, ...
Unbound == "unbound"
ASSUME NamesAssumption ==
    /\ Hosts \cap {Other, Client} = {} /\ Unbound \notin ZoneKeys /\ "global" \notin ZoneKeys
    /\ Start \in Nat /\ MaxTime \in Nat /\ Start <= MaxTime
    /\ MaxBack \in Nat /\ MaxUpdates \in Nat /\ MaxWrites \in Nat
    /\ Allowed \subseteq Hosts /\ Loaded \subseteq Contents /\ Second \in Nat \ {0} /\ Hour \in Nat

Limiters == {"global"} \cup ZoneKeys
Buckets == Hosts \cup {Other, Client}
Zero == [b \in Buckets |-> 0]

VARIABLES cluster,  \* the ConfigMaps and Ingresses
          listed,   \* the content listed and not wholly set (at most one)
          store,    \* RateLimitStore
          writes,
          now,      \* the wall clock
          back,     \* the clock has stepped back
          heap,     \* the strategies: window, cur and prev of each
          sets,     \* the live set of each Limiter, a sequence of limits
          live,     \* the zones of the published map
          route,    \* the zone the matcher binds the route to
          known,    \* the published known-host set
          etag,     \* the payload last applied cleanly (a set of at most one)
          upd,      \* the Update under way
          updates,
          req,
          hist,     \* history: per Limiter and id, what one tenure admitted
          held      \* history: requests whose route has been bound since they came

cp == <<cluster, listed, store, writes>>
clock == <<now, back>>
config == <<cp, sets, live, route, known, etag, upd, updates>>
vars == <<cluster, listed, store, writes, now, back, heap, sets, live, route, known, etag, upd, updates, req,
          hist, held>>

(***************************************************************************)
(* The strategies.  Counts are compared in units of 1/size, so that the    *)
(* weights of the code are exact.                                          *)
(***************************************************************************)
newStrategy == [window |-> 0, cur |-> Zero, prev |-> Zero]

rollBack(s, w) ==
    CASE w = s.window -> s
      [] w - s.window = 1 -> [window |-> w, cur |-> Zero, prev |-> s.cur]
      [] w - s.window < 0 -> [s EXCEPT !.window = w]
      [] OTHER -> [window |-> w, cur |-> Zero, prev |-> Zero]

\* A clock that has stepped back leaves the generations where they are.
roll(s, w) ==
    CASE w <= s.window -> s
      [] w = s.window + 1 -> [window |-> w, cur |-> Zero, prev |-> s.cur]
      [] OTHER -> [window |-> w, cur |-> Zero, prev |-> Zero]

weightedCount(prev, cur, t, size) == (prev * (size - (t % size))) + (cur * size)

CanTake(max, prev, cur, t, size) ==
    weightedCount(prev, cur, t, size) + size <= max * size

\* The strategy after a Take, and whether it admitted.
SlidingTake(s, b, shape) ==
    LET n == roll(s, now \div shape.size)
        ok == CanTake(shape.rate, n.prev[b], n.cur[b], now, shape.size)
    IN [ok |-> ok, s |-> IF ok THEN [n EXCEPT !.cur[b] = @ + 1] ELSE n]

\* parapet's FixedWindowStrategy: a counter per key of the epoch-aligned window.
FixedTake(s, b, shape) ==
    LET w == now \div shape.size
        n == IF w = s.window THEN s ELSE [newStrategy EXCEPT !.window = w]
        ok == n.cur[b] < shape.rate
    IN [ok |-> ok, s |-> IF ok THEN [n EXCEPT !.cur[b] = @ + 1] ELSE n]

Take(s, b, shape) ==
    IF shape.alg = "sliding" THEN SlidingTake(s, b, shape)
                             ELSE FixedTake(s, b, shape)

ToBoundary(size, t) == size - (t % size)

afterAtShort(max, prev, cur, size, t) ==
    IF CanTake(max, prev, cur, t, size) THEN 0 ELSE ToBoundary(size, t)

\* The wait until the next admission: none, the decay of prev in this window,
\* the boundary, or the decay of cur in the next one.  The +1 is the code's
\* nanosecond, and a tick is one.
afterAt(max, prev, cur, size, t) ==
    LET free == max - cur - 1
        decays == /\ prev > 0 /\ free > 0
                  /\ prev * (t % size) < size * (prev - free)
    IN IF CanTake(max, prev, cur, t, size) THEN 0
       ELSE IF decays THEN ((size * (prev - free)) \div prev) - (t % size) + 1
       ELSE IF free >= 0 \/ max <= 0 THEN ToBoundary(size, t)
       ELSE ToBoundary(size, t) + ((size * (cur - (max - 1))) \div cur) + 1

\* Retry-After: whole seconds, never less than the wait.
RetryAfter(after) == ((after + Second - 1) \div Second) * Second

hostKey(h) == IF h \in known THEN h ELSE Other
partValue(key, h) == IF key = "host" THEN hostKey(h) ELSE Client

(***************************************************************************)
(* Types, and the state of NewEdgeRateLimit.                               *)
(***************************************************************************)
Batches(p) == {p.global} \cup {p.zones[z] : z \in DOMAIN p.zones}
Ids == {l.id : l \in UNION {ToSet(FlattenSeq(d)) :
                              d \in UNION {Batches(c) : c \in Contents}}}

Idle == [pc |-> "idle", host |-> Other, of |-> "global", todo |-> << >>]
NoTenure == [n |-> 0, w |-> 0, count |-> Zero]

TypeOK ==
    /\ cluster \in Contents /\ listed \subseteq Contents /\ writes \in 0..MaxWrites
    /\ DOMAIN store.zones \subseteq ZoneKeys
    /\ now \in 0..MaxTime /\ back \in BOOLEAN
    /\ \A i \in DOMAIN heap :
         /\ heap[i].window \in 0..MaxTime
         /\ heap[i].cur \in [Buckets -> Nat] /\ heap[i].prev \in [Buckets -> Nat]
    /\ DOMAIN sets = Limiters /\ live \subseteq ZoneKeys
    /\ \A L \in Limiters : \A i \in DOMAIN sets[L] :
         sets[L][i].id \in Ids /\ sets[L][i].obj \in DOMAIN heap
    /\ route \in ZoneKeys \cup {Unbound} /\ known \subseteq Hosts
    /\ updates \in 0..MaxUpdates
    /\ \A r \in Reqs :
         /\ req[r].pc \in {"idle", "walk", "lookup"}
         /\ \A i \in DOMAIN req[r].todo : req[r].todo[i].obj \in DOMAIN heap
    /\ held \subseteq Reqs

Init ==
    /\ cluster \in Loaded /\ store = cluster /\ listed = {} /\ writes = 0
    /\ now = Start /\ back = FALSE /\ heap = << >>
    /\ sets = [L \in Limiters |-> << >>] /\ live = {} /\ route = Unbound
    /\ known = {} /\ etag = {} /\ upd = [pc |-> "idle"] /\ updates = 0
    /\ req = [r \in Reqs |-> Idle] /\ hist = [x \in Limiters \X Ids |-> NoTenure]
    /\ held = {}

(***************************************************************************)
(* SetLimits.  A batch with a document that holds no limits, with a limit  *)
(* that is invalid or with an id twice changes nothing; otherwise a limit  *)
(* whose id and shape (cfgKey) are those of a live one takes over its      *)
(* strategy, and any other starts a new one.                               *)
(***************************************************************************)
Parses(docs) == \A i \in DOMAIN docs : docs[i] # << >>
Parse(docs) == FlattenSeq(docs)

compileKeys(key) == key \in {"ip", "host"} \cup Resolvers

\* wellFormed: the id, status, exclude list and filter are.
compileLimit(l) ==
    /\ l.wellFormed /\ compileKeys(l.shape.key)
    /\ l.shape.rate > 0 /\ l.shape.size \in Second..Hour
    /\ l.shape.alg \in {"fixed", "sliding"} /\ l.mode \in {"enforce", "shadow"}

Accepts(docs) ==
    /\ Parses(docs)
    /\ \A i \in DOMAIN Parse(docs) : compileLimit(Parse(docs)[i])
    /\ IsInjective([i \in DOMAIN Parse(docs) |-> Parse(docs)[i].id])

\* The limits of a batch as they are decoded (Limit, before compileLimit).
Decoded == [id : Ids, shape : [key : STRING, alg : STRING, rate : Int, size : Int],
            mode : STRING, gated : BOOLEAN, wellFormed : BOOLEAN]

\* What the cluster holds is well typed, whether or not it is valid.
IsPayload(p) ==
    /\ p = [hosts |-> p.hosts, global |-> p.global, zones |-> p.zones, route |-> p.route]
    /\ DOMAIN p.zones \subseteq ZoneKeys /\ p.route \in ZoneKeys \cup {Unbound}
    /\ \A d \in Batches(p) : Parse(d) \in Seq(Decoded)

ASSUME ContentsAssumption == \A c \in Contents : IsPayload(c)

\* The live limit whose counters a new one continues.
Carry(old, l) == {o \in ToSet(old) : o.id = l.id /\ o.shape = l.shape}

\* Every id of L that is not kept starts a new tenure.
EndTenures(L, kept) ==
    hist' = [x \in DOMAIN hist |->
               IF x[1] = L /\ x[2] \notin kept
               THEN [NoTenure EXCEPT !.n = hist[x].n + 1] ELSE hist[x]]

\* Installs the limits ls in Limiter L, whose set is old.
Install(L, old, ls) ==
    LET fresh(i) == Cardinality({j \in 1..i : Carry(old, ls[j]) = {}})
        obj(i) == IF Carry(old, ls[i]) = {} THEN Len(heap) + fresh(i)
                  ELSE (CHOOSE o \in Carry(old, ls[i]) : TRUE).obj
        kept == {l.id : l \in {k \in ToSet(ls) : Carry(old, k) # {}}}
        n(l) == hist[<<L, l.id>>].n + (IF l.id \in kept THEN 0 ELSE 1)
    IN /\ sets' = [sets EXCEPT ![L] = [i \in DOMAIN ls |->
            [id |-> ls[i].id, shape |-> ls[i].shape, mode |-> ls[i].mode,
             gated |-> ls[i].gated, obj |-> obj(i), n |-> n(ls[i]), of |-> L]]]
       /\ heap' = heap \o [k \in 1..fresh(Len(ls)) |-> newStrategy]
       /\ EndTenures(L, kept)

SetLimits(L, old, docs) ==
    \/ Accepts(docs) /\ Install(L, old, Parse(docs))
    \/ /\ ~ Accepts(docs)
       /\ sets' = [sets EXCEPT ![L] = old] /\ UNCHANGED heap
       /\ EndTenures(L, {l.id : l \in ToSet(old)})

(***************************************************************************)
(* The control plane: a reload of the ConfigMaps lists them and sets the   *)
(* global documents, then the zones; the bindings and hosts come from the  *)
(* reload of the Ingresses.  A snapshot may fall between.                  *)
(***************************************************************************)
\* The store changes only as long as a poll can still see it.
Watched == updates < MaxUpdates

Write ==
    /\ Watched /\ writes < MaxWrites /\ writes' = writes + 1
    /\ \E c \in Contents \ {cluster} : cluster' = c
    /\ UNCHANGED <<clock, listed, store, heap, sets, live, route, known, etag, upd,
                   updates, req, hist, held>>

\* RateLimitReloader.reload, to SetGlobal ...
SetGlobal ==
    /\ Watched /\ listed = {}
    /\ <<store.global, store.zones>> # <<cluster.global, cluster.zones>>
    /\ listed' = {cluster} /\ store' = [store EXCEPT !.global = cluster.global]
    /\ UNCHANGED <<clock, cluster, writes, heap, sets, live, route, known, etag, upd,
                   updates, req, hist, held>>

\* ... and from there.
SetZones ==
    /\ Watched
    /\ \E c \in listed : store' = [store EXCEPT !.zones = c.zones]
    /\ listed' = {}
    /\ UNCHANGED <<clock, cluster, writes, heap, sets, live, route, known, etag, upd,
                   updates, req, hist, held>>

SetIngressDerived ==
    /\ Watched /\ <<store.hosts, store.route>> # <<cluster.hosts, cluster.route>>
    /\ store' = [store EXCEPT !.hosts = cluster.hosts, !.route = cluster.route]
    /\ UNCHANGED <<clock, cluster, listed, writes, heap, sets, live, route, known,
                   etag, upd, updates, req, hist, held>>

\* The payload of the edge: its hosts, and the zone that its route is bound to.
scoped == [store EXCEPT !.hosts = @ \cap Allowed,
                        !.zones = [z \in DOMAIN @ \cap {store.route} |-> @[z]]]

(***************************************************************************)
(* EdgeRateLimit.Update, step by step: the known hosts, the global set,    *)
(* one zone after another (an instance that exists is changed in place),   *)
(* the map of zones, the matcher, and the etag if nothing failed.          *)
(***************************************************************************)
\* handleRateLimit: the payload has the ETag that the edge sends.
NotModified == scoped \in etag

\* RefreshRateLimitOnce: a failed fetch and a 304 change nothing.
Poll == upd.pc = "idle" /\ ~ NotModified

Binds(p) ==
    p.route # Unbound /\ p.route \in DOMAIN p.zones /\ Parse(p.zones[p.route]) # << >>

UpdateStarts ==
    /\ Poll /\ updates < MaxUpdates /\ updates' = updates + 1
    /\ known' = scoped.hosts
    /\ upd' = [pc |-> "global", p |-> scoped, ok |-> TRUE, todo |-> DOMAIN scoped.zones]
    /\ held' = IF Binds(scoped) /\ scoped.route = route THEN held ELSE {}
    /\ UNCHANGED <<cp, clock, heap, sets, live, route, etag, req, hist>>

UpdateGlobal ==
    /\ upd.pc = "global"
    /\ SetLimits("global", sets["global"], upd.p.global)
    /\ upd' = [upd EXCEPT !.pc = "zones", !.ok = Accepts(upd.p.global)]
    /\ UNCHANGED <<cp, clock, live, route, known, etag, updates, req, held>>

InstanceNew(z) == << >>

\* (*cur)[key], or a new empty Limiter.
Instance(z) == IF z \in live THEN sets[z] ELSE << >>

UpdateZone(z) ==
    /\ upd.pc = "zones" /\ z \in upd.todo
    /\ SetLimits(z, Instance(z), upd.p.zones[z])
    /\ upd' = [upd EXCEPT !.todo = @ \ {z}, !.ok = @ /\ Accepts(upd.p.zones[z])]
    /\ UNCHANGED <<cp, clock, live, route, known, etag, updates, req, held>>

StoreZones ==
    /\ upd.pc = "zones" /\ upd.todo = {}
    /\ live' = DOMAIN upd.p.zones
    /\ upd' = [upd EXCEPT !.pc = "matcher"]
    /\ UNCHANGED <<cp, clock, heap, sets, route, known, etag, updates, req, hist, held>>

UpdateEnds ==
    /\ upd.pc = "matcher"
    /\ route' = upd.p.route
    /\ etag' = IF upd.ok THEN {upd.p} ELSE etag
    /\ upd' = [pc |-> "idle"]
    /\ UNCHANGED <<cp, clock, heap, sets, live, known, updates, req, hist, held>>

(***************************************************************************)
(* A request: the global set, then the zone its route is bound to.         *)
(***************************************************************************)
Advance(r, q) == req' = [req EXCEPT ![r] = q]
Leave(r) == Advance(r, Idle) /\ held' = held \ {r}

\* (An ACME challenge passes every set and counts in none.)
Arrive(r) ==
    /\ req[r].pc = "idle"
    /\ \E h \in Hosts :
         Advance(r, [pc |-> "walk", host |-> h, of |-> "global", todo |-> sets["global"]])
    /\ held' = IF upd.pc = "idle" /\ route # Unbound /\ route \in live
                  /\ sets[route] # << >>
               THEN held \cup {r} ELSE held
    /\ UNCHANGED <<clock, config, heap, hist>>

Lim(r) == Head(req[r].todo)
Walking(r) == req[r].pc = "walk" /\ req[r].todo # << >>
Bucket(r) == partValue(Lim(r).shape.key, req[r].host)

\* On to the next limit; past the last one of the zone the request has passed.
NextLimit(r) ==
    IF req[r].of # "global" /\ Len(req[r].todo) = 1
    THEN Leave(r)
    ELSE Advance(r, [req[r] EXCEPT !.todo = Tail(@)]) /\ UNCHANGED held

\* An excluded address, or a filter that does not match or fails.
Skip(r) ==
    /\ Walking(r) /\ Lim(r).gated
    /\ NextLimit(r)
    /\ UNCHANGED <<clock, config, heap, hist>>

\* History: the window is the latest that any Take of the tenure has seen.
Counted(r, ok) ==
    LET x == <<Lim(r).of, Lim(r).id>>
        w == Max({hist[x].w, now \div Lim(r).shape.size})
        c == IF w > hist[x].w THEN Zero ELSE hist[x].count
    IN hist' = IF Lim(r).n # hist[x].n THEN hist
               ELSE [hist EXCEPT ![x].w = w,
                       ![x].count = IF ok THEN [c EXCEPT ![Bucket(r)] = @ + 1] ELSE c]

\* A limit that is enforced rejects; one in shadow mode only counts.
TakeStep(r) ==
    /\ Walking(r)
    /\ LET t == Take(heap[Lim(r).obj], Bucket(r), Lim(r).shape)
       IN /\ heap' = [heap EXCEPT ![Lim(r).obj] = t.s]
          /\ Counted(r, t.ok)
          /\ IF t.ok \/ Lim(r).mode = "shadow"
             THEN NextLimit(r) ELSE Leave(r)
    /\ UNCHANGED <<clock, config>>

\* Past the global set, the matcher names the zone of the route.
Resolve(r) ==
    /\ req[r].pc = "walk" /\ req[r].todo = << >>
    /\ IF route = Unbound
       THEN Leave(r)
       ELSE Advance(r, [req[r] EXCEPT !.pc = "lookup", !.of = route])
            /\ UNCHANGED held
    /\ UNCHANGED <<clock, config, heap, hist>>

LookupZone(r) ==
    /\ req[r].pc = "lookup"
    /\ IF req[r].of \in live /\ sets[req[r].of] # << >>
       THEN Advance(r, [req[r] EXCEPT !.pc = "walk", !.todo = sets[req[r].of]])
            /\ held' = held \ {r}
       ELSE Leave(r)
    /\ UNCHANGED <<clock, config, heap, hist>>

(***************************************************************************)
(* The clock: it runs, and once it is set back.                            *)
(***************************************************************************)
Tick ==
    /\ now < MaxTime /\ now' = now + 1
    /\ UNCHANGED <<back, config, heap, req, hist, held>>

ClockBack ==
    /\ ~ back /\ back' = TRUE
    /\ \E k \in 1..MaxBack : now - k >= Start /\ now' = now - k
    /\ UNCHANGED <<config, heap, req, hist, held>>

\* An event of the watches leads to a reload.
Reloads == SetGlobal \/ SetZones \/ SetIngressDerived

Update ==
    \/ UpdateStarts \/ UpdateGlobal \/ StoreZones \/ UpdateEnds
    \/ \E z \in ZoneKeys : UpdateZone(z)

Serve(r) ==
    Arrive(r) \/ Skip(r) \/ TakeStep(r) \/ Resolve(r) \/ LookupZone(r)

Next == Write \/ Reloads \/ Update \/ (\E r \in Reqs : Serve(r)) \/ Tick \/ ClockBack

Spec == Init /\ [][Next]_vars

-----------------------------------------------------------------------------
(***************************************************************************)
(* Properties.                                                             *)
(***************************************************************************)

\* A limit holds across reloads: as long as its id and its shape stay in the
\* live set, it admits at most Rate requests per key and window, whatever
\* sibling limits change, however many batches are rejected, and whether the
\* request walks an old set or the new one.  A sliding limit does so even when
\* the clock steps back (the comments of SetLimits and of roll).
RateHeld ==
    \A L \in Limiters : \A i \in DOMAIN sets[L] :
      LET l == sets[L][i]
          h == hist[<<L, l.id>>]
      IN (l.shape.alg = "sliding" \/ ~ back)
           => \A b \in Buckets : h.count[b] <= l.shape.rate

\* Retry-After is honest: unless the clock is behind the counters, a client
\* that waits as long as it was told is admitted if nobody else was in the
\* meantime ("a client honoring Retry-After does not retry into another
\* denial").
AfterHonest ==
    \A L \in Limiters : \A i \in DOMAIN sets[L] : \A b \in Buckets :
      LET l == sets[L][i]
          size == l.shape.size
          s == roll(heap[l.obj], now \div size)
          t == now + RetryAfter(afterAt(l.shape.rate, s.prev[b], s.cur[b], size, now))
          s2 == roll(s, t \div size)
      IN l.shape.alg = "sliding" /\ s.window = now \div size
           => CanTake(l.shape.rate, s2.prev[b], s2.cur[b], t, size)

\* A route that is bound to a zone with limits when the request arrives, and
\* that every payload since then binds to the same zone, is never passed
\* without the zone's limits: not while the sets, the map and the matcher are
\* swapped one after another, and not by a payload whose zone is rejected.
BoundRouteLimited ==
    [][\A r \in held : req[r].todo = << >> => req'[r].pc # "idle"]_vars
=============================================================================
