------------------------- MODULE RateLimiterProofs -------------------------
(***************************************************************************)
(* Proofs about the rate limits of an edge, for any number of requests,    *)
(* hosts, zones, contents, updates and instants, any rate and any window.  *)
(*                                                                         *)
(* A limit keeps its rate across reloads because a strategy belongs to one *)
(* tenure of one limit of one Limiter (OneTenure): a request that walks an *)
(* old set and one that walks the new set count in the same strategy       *)
(* exactly when the limit has continued, and what a live limit's strategy  *)
(* holds is what its tenure has admitted (Counts).  A request may also     *)
(* hold limits that no set has any more; they refer to strategies of ended *)
(* tenures, and a strategy is never used again.                            *)
(*                                                                         *)
(* Retry-After is arithmetic: the quotients of afterAt are rounded down    *)
(* and one is added, which is past the point where the decay of the        *)
(* previous or of the current generation makes room.                       *)
(*                                                                         *)
(* A bound route meets its zone because every payload since the request    *)
(* came names the zone with limits: whether such a batch is accepted or    *)
(* rejected, a set that held limits holds some afterwards (HeldInv).       *)
(***************************************************************************)
EXTENDS RateLimiter, TLAPS, SequenceTheorems, FiniteSetTheorems

-----------------------------------------------------------------------------
(* Arithmetic of windows and waits.                                        *)

\* Quotient and remainder of a natural number.
LEMMA DivMod ==
    ASSUME NEW a \in Nat, NEW b \in Nat \ {0}
    PROVE  /\ a \div b \in Nat /\ a % b \in Nat
           /\ a = b * (a \div b) + (a % b) /\ a % b < b
  OBVIOUS

\* The quotient is the last multiple.
LEMMA DivAbove ==
    ASSUME NEW a \in Nat, NEW b \in Nat \ {0}
    PROVE  a \div b \in Nat /\ a < b * ((a \div b) + 1)
<1> DEFINE q == a \div b
           r == a % b
<1>1. q \in Nat /\ r \in Nat /\ a = b * q + r /\ r < b
  BY DivMod
<1> HIDE DEF q, r
<1>2. b * (q + 1) = b * q + b /\ b * q \in Nat
  BY <1>1
<1>3. QED
  BY <1>1, <1>2 DEF q

\* A later instant is in the same window or in a later one.
LEMMA DivMonotone ==
    ASSUME NEW a \in Nat, NEW b \in Nat, a <= b, NEW size \in Nat \ {0}
    PROVE  a \div size <= b \div size
  OBVIOUS

\* Products grow with their factors.
LEMMA TimesMonotone ==
    ASSUME NEW n \in Nat, NEW a \in Int, NEW b \in Int, a <= b
    PROVE  n * a <= n * b
  OBVIOUS

\* A whole number of seconds that is no less than the wait.
LEMMA RetryAfterCovers ==
    ASSUME NEW a \in Nat PROVE RetryAfter(a) \in Nat /\ RetryAfter(a) >= a
<1> DEFINE n == a + Second - 1
           k == n \div Second
<1>1. n \in Nat /\ Second \in Nat \ {0}
  BY NamesAssumption
<1>2. k \in Nat /\ n = Second * k + (n % Second) /\ n % Second < Second /\ n % Second \in Nat
  BY <1>1, DivMod
<1>3. RetryAfter(a) = k * Second
  BY DEF RetryAfter
<1>4. k * Second \in Nat /\ k * Second = Second * k
  BY <1>1, <1>2
<1> HIDE DEF k
<1>5. QED
  BY <1>1, <1>2, <1>3, <1>4

\* A bucket with room is one with fewer than max in it.
LEMMA RoomLeft ==
    ASSUME NEW max \in Nat, NEW prev \in Nat, NEW cur \in Nat, NEW t \in Nat,
           NEW size \in Nat \ {0}, CanTake(max, prev, cur, t, size)
    PROVE  cur + 1 <= max
<1>1. t % size \in Nat /\ t % size < size
  BY DivMod
<1> DEFINE w == prev * (size - (t % size))
<1>2. w \in Nat
  BY <1>1
<1>3. w + cur * size + size <= max * size
  BY DEF CanTake, weightedCount
<1> HIDE DEF w
<1>4. (cur + 1) * size <= max * size
  BY <1>2, <1>3
<1>5. QED
  BY <1>4

\* Whoever waits as long as afterAt says is admitted, unless others were.
LEMMA AfterCovers ==
    ASSUME NEW max \in Nat \ {0}, NEW prev \in Nat, NEW cur \in Nat,
           NEW size \in Nat \ {0}, NEW t \in Nat, NEW u \in Nat,
           u >= t + afterAt(max, prev, cur, size, t)
    PROVE  /\ u \div size = t \div size => CanTake(max, prev, cur, u, size)
           /\ u \div size = (t \div size) + 1 => CanTake(max, cur, 0, u, size)
           /\ CanTake(max, 0, 0, u, size)
<1> DEFINE q == t \div size
           e == t % size
           r == u \div size
           f == u % size
           free == max - cur - 1
<1>1. /\ q \in Nat /\ e \in Nat /\ t = size * q + e /\ e < size
      /\ r \in Nat /\ f \in Nat /\ u = size * r + f /\ f < size
  BY DivMod
<1>2. /\ CanTake(max, prev, cur, t, size)
            <=> prev * (size - e) + cur * size + size <= max * size
      /\ CanTake(max, prev, cur, u, size)
            <=> prev * (size - f) + cur * size + size <= max * size
      /\ CanTake(max, cur, 0, u, size) <=> cur * (size - f) + size <= max * size
      /\ CanTake(max, 0, 0, u, size) <=> size <= max * size
  BY <1>1 DEF CanTake, weightedCount
<1> HIDE DEF q, e, r, f
<1>3. CanTake(max, 0, 0, u, size)
  BY <1>2
\* What admits in the next window.
<1>4. cur + 1 <= max => CanTake(max, cur, 0, u, size)
  <2> SUFFICES ASSUME cur + 1 <= max PROVE cur * (size - f) + size <= max * size
    BY <1>2
  <2>1. cur * (size - f) <= cur * size
    BY <1>1, TimesMonotone
  <2>2. size * (cur + 1) <= size * max
    BY TimesMonotone
  <2>3. QED
    BY <1>1, <2>1, <2>2
<1>5. r = q => f = e + (u - t)
  BY <1>1
<1>6. r = q + 1 => f = u - (t + (size - e))
  BY <1>1
<1>7. CASE CanTake(max, prev, cur, t, size)
  <2>1. u >= t
    BY <1>7 DEF afterAt
  <2>2. cur + 1 <= max
    BY <1>7, RoomLeft
  <2>3. ASSUME r = q PROVE CanTake(max, prev, cur, u, size)
    <3>1. prev * (size - f) <= prev * (size - e)
      BY <1>1, <1>5, <2>1, <2>3, TimesMonotone
    <3>2. QED
      BY <1>1, <1>2, <1>7, <3>1
  <2>4. QED
    BY <1>3, <1>4, <2>2, <2>3 DEF q, r
<1>8. CASE /\ ~CanTake(max, prev, cur, t, size)
           /\ prev > 0 /\ free > 0 /\ prev * e < size * (prev - free)
  <2> DEFINE x == size * (prev - free)
             k == x \div prev
  <2>1. x \in Nat
    <3>1. prev * e \in Nat /\ x \in Int
      BY <1>1
    <3>2. prev * e < x
      BY <1>8
    <3> HIDE DEF x
    <3>3. QED
      BY <3>1, <3>2
  <2>2. k \in Nat /\ x < prev * (k + 1)
    BY <1>8, <2>1, DivAbove
  <2>3. afterAt(max, prev, cur, size, t) = k - e + 1
    BY <1>8 DEF afterAt, e
  <2> HIDE DEF k
  <2>5. ASSUME r = q PROVE CanTake(max, prev, cur, u, size)
    <3>1. f >= k + 1
      BY <1>1, <1>5, <2>2, <2>3, <2>5
    <3>2. prev * (k + 1) <= prev * f
      BY <1>1, <2>2, <3>1, TimesMonotone
    <3>3. prev * (size - f) = size * prev - prev * f /\ x = size * prev - size * free
      BY <1>1
    <3>4. size * free + cur * size + size = max * size
      BY <1>1
    <3>5. prev * f \in Int /\ size * prev \in Int /\ size * free \in Int /\ prev * (k + 1) \in Int
      BY <1>1, <2>2
    <3>6. prev * (size - f) <= size * free
      BY <2>1, <2>2, <3>2, <3>3, <3>5
    <3>7. QED
      BY <1>1, <1>2, <3>4, <3>6
  <2>6. QED
    BY <1>3, <1>4, <1>8, <2>5 DEF q, r
<1>9. CASE /\ ~CanTake(max, prev, cur, t, size) /\ free >= 0
           /\ ~(prev > 0 /\ free > 0 /\ prev * e < size * (prev - free))
  <2>1. afterAt(max, prev, cur, size, t) = size - e
    BY <1>9 DEF afterAt, ToBoundary, e
  <2>2. r # q
    BY <1>1, <1>5, <2>1
  <2>3. QED
    BY <1>3, <1>4, <1>9, <2>2 DEF q, r
<1>10. CASE ~CanTake(max, prev, cur, t, size) /\ free < 0
  <2> DEFINE x == size * (cur - (max - 1))
             k == x \div cur
  <2>1. x \in Nat /\ cur \in Nat \ {0}
    BY <1>10
  <2>2. k \in Nat /\ x < cur * (k + 1)
    BY <2>1, DivAbove
  <2>3. afterAt(max, prev, cur, size, t) = size - e + k + 1
    BY <1>10 DEF afterAt, ToBoundary, e
  <2> HIDE DEF k
  <2>5. r # q
    BY <1>1, <1>5, <2>2, <2>3
  <2>6. ASSUME r = q + 1 PROVE CanTake(max, cur, 0, u, size)
    <3>1. f >= k + 1
      BY <1>1, <1>6, <2>2, <2>3, <2>6
    <3>2. cur * (k + 1) <= cur * f
      BY <1>1, <2>2, <3>1, TimesMonotone
    <3>3. cur * (size - f) = size * cur - cur * f /\ x = size * cur - size * (max - 1)
      BY <1>1
    <3>4. size * (max - 1) + size = max * size
      BY <1>1
    <3>5. cur * f \in Int /\ size * cur \in Int /\ size * (max - 1) \in Int /\ cur * (k + 1) \in Int
      BY <1>1, <2>2
    <3>6. QED
      BY <1>2, <2>1, <2>2, <3>2, <3>3, <3>4, <3>5
  <2>7. QED
    BY <1>3, <2>5, <2>6 DEF q, r
<1>11. QED
  BY <1>7, <1>8, <1>9, <1>10
-----------------------------------------------------------------------------
(* The invariant.                                                          *)

Shape == [key : STRING, alg : {"fixed", "sliding"}, rate : Nat \ {0}, size : Nat \ {0}]

\* A limit as a set and a request hold it.
Compiled == [id : Ids, shape : Shape, mode : STRING, gated : BOOLEAN, obj : Nat,
          n : Nat, of : Limiters]

Strategy == [window : 0..MaxTime, cur : [Buckets -> Nat], prev : [Buckets -> Nat]]
Request == [pc : {"idle", "walk", "lookup"}, host : Hosts \cup {Other},
            of : Limiters, todo : Seq(Compiled)]
Tenure == [n : Nat, w : 0..MaxTime, count : [Buckets -> Nat]]

\* The payload that is being applied.
UpdateOK ==
    \/ upd = [pc |-> "idle"]
    \/ /\ upd = [pc |-> upd.pc, p |-> upd.p, ok |-> upd.ok, todo |-> upd.todo]
       /\ upd.pc \in {"global", "zones", "matcher"} /\ upd.ok \in BOOLEAN
       /\ IsPayload(upd.p) /\ upd.todo \subseteq DOMAIN upd.p.zones

Typed ==
    /\ now \in 0..MaxTime /\ back \in BOOLEAN
    /\ heap \in Seq(Strategy)
    /\ sets \in [Limiters -> Seq(Compiled)] /\ live \subseteq ZoneKeys
    /\ route \in ZoneKeys \cup {Unbound} /\ known \subseteq Hosts
    /\ req \in [Reqs -> Request]
    /\ hist \in [Limiters \X Ids -> Tenure]
    /\ held \subseteq Reqs

ControlPlane ==
    /\ cluster \in Contents /\ listed \subseteq Contents
    /\ IsPayload(store) /\ UpdateOK
    /\ writes \in 0..MaxWrites /\ updates \in 0..MaxUpdates

\* The limits that the sets and the requests refer to.
Live(L) == ToSet(sets[L])
Pending(r) == ToSet(req[r].todo)
Refs == (UNION {Live(L) : L \in Limiters}) \cup (UNION {Pending(r) : r \in Reqs})

TenureOf(e) == hist[<<e.of, e.id>>]

\* A strategy belongs to one tenure of one limit of one Limiter.
OneTenure ==
    \A e, f \in Refs :
        /\ e.obj = f.obj <=> (e.of = f.of /\ e.id = f.id /\ e.n = f.n)
        /\ e.obj = f.obj => e.shape = f.shape

Placed ==
    /\ \A e \in Refs : e.obj \in 1..Len(heap) /\ e.n <= TenureOf(e).n
    /\ \A L \in Limiters : \A e \in Live(L) : e.of = L /\ e.n = TenureOf(e).n

\* A live limit's strategy counts what its tenure has admitted.
Counts(e) ==
    LET s == heap[e.obj]
        h == TenureOf(e)
    IN /\ ~back => s.window <= now \div e.shape.size
       /\ e.shape.alg = "sliding" \/ ~back =>
            /\ s.window = h.w /\ s.cur = h.count
            /\ \A b \in Buckets : s.cur[b] <= e.shape.rate

CountsHold == \A L \in Limiters : \A e \in Live(L) : Counts(e)

LimiterInv == ControlPlane /\ Typed /\ Placed /\ OneTenure /\ CountsHold

\* A request that is to be limited finds its zone.
HeldInv ==
    /\ held # {} => /\ route # Unbound /\ route \in live /\ sets[route] # << >>
                    /\ upd.pc # "idle" => upd.p.route = route /\ Binds(upd.p)
    /\ \A r \in held : /\ req[r].pc = "walk" => req[r].of = "global"
                       /\ req[r].pc = "lookup" => req[r].of = route
                       /\ req[r].pc # "idle"

-----------------------------------------------------------------------------
(* The control plane and the payload under way.                            *)

\* Two fields of a payload replaced.
LEMMA TwoFields ==
    ASSUME NEW p, NEW x, NEW y,
           p = [hosts |-> p.hosts, global |-> p.global, zones |-> p.zones, route |-> p.route]
    PROVE  /\ [p EXCEPT !.hosts = x, !.route = y]
                = [hosts |-> x, global |-> p.global, zones |-> p.zones, route |-> y]
           /\ [p EXCEPT !.hosts = x, !.zones = y]
                = [hosts |-> x, global |-> p.global, zones |-> y, route |-> p.route]
<1> DEFINE q == [p EXCEPT !.hosts = x]
<1>1. q = [hosts |-> x, global |-> p.global, zones |-> p.zones, route |-> p.route]
  OBVIOUS
<1>2. /\ [p EXCEPT !.hosts = x, !.route = y] = [q EXCEPT !.route = y]
      /\ [p EXCEPT !.hosts = x, !.zones = y] = [q EXCEPT !.zones = y]
  BY Zenon
<1> HIDE DEF q
<1>3. /\ [q EXCEPT !.route = y]
           = [hosts |-> x, global |-> p.global, zones |-> p.zones, route |-> y]
      /\ [q EXCEPT !.zones = y]
           = [hosts |-> x, global |-> p.global, zones |-> y, route |-> p.route]
  BY <1>1
<1>4. QED
  BY <1>2, <1>3

\* A payload put together from parts of payloads is one.
LEMMA PayloadParts ==
    ASSUME NEW p, NEW c, IsPayload(p), IsPayload(c)
    PROVE  /\ IsPayload([p EXCEPT !.global = c.global])
           /\ IsPayload([p EXCEPT !.zones = c.zones])
           /\ IsPayload([p EXCEPT !.hosts = c.hosts, !.route = c.route])
<1>1. p = [hosts |-> p.hosts, global |-> p.global, zones |-> p.zones, route |-> p.route]
  BY DEF IsPayload
<1>2. [p EXCEPT !.global = c.global]
        = [hosts |-> p.hosts, global |-> c.global, zones |-> p.zones, route |-> p.route]
  BY <1>1
<1>3. [p EXCEPT !.zones = c.zones]
        = [hosts |-> p.hosts, global |-> p.global, zones |-> c.zones, route |-> p.route]
  BY <1>1
<1>4. [p EXCEPT !.hosts = c.hosts, !.route = c.route]
        = [hosts |-> c.hosts, global |-> p.global, zones |-> p.zones, route |-> c.route]
  BY <1>1, TwoFields
<1>5. QED
  BY <1>2, <1>3, <1>4 DEF IsPayload, Batches

\* What the edge gets is a payload, with the hosts it serves.
LEMMA ScopedPayload ==
    ASSUME IsPayload(store)
    PROVE  IsPayload(scoped) /\ scoped.hosts \subseteq Hosts /\ scoped.route = store.route
<1> DEFINE zs == [z \in DOMAIN store.zones \cap {store.route} |-> store.zones[z]]
           hs == store.hosts \cap Allowed
<1>1. scoped = [store EXCEPT !.hosts = hs, !.zones = zs]
  BY DEF scoped
<1>2. hs \subseteq Hosts /\ \A z \in DOMAIN zs : z \in DOMAIN store.zones /\ zs[z] = store.zones[z]
  BY NamesAssumption
<1> HIDE DEF zs, hs
<1>3. store = [hosts |-> store.hosts, global |-> store.global,
               zones |-> store.zones, route |-> store.route]
  BY DEF IsPayload
<1>4. scoped = [hosts |-> hs, global |-> store.global, zones |-> zs, route |-> store.route]
  BY <1>1, <1>3, TwoFields, Zenon
<1>5. QED
  BY <1>2, <1>4 DEF IsPayload, Batches

\* The controller starts with what the cluster holds.
LEMMA ControlInit == Init => ControlPlane
  BY NamesAssumption, ContentsAssumption DEF Init, ControlPlane, UpdateOK

\* Every part that is set, snapshot or applied is one of a payload.
LEMMA ControlStep == ASSUME ControlPlane, [Next]_vars PROVE ControlPlane'
<1> USE NamesAssumption, ContentsAssumption DEF ControlPlane
<1>0. IsPayload(cluster) /\ \A c \in listed : IsPayload(c)
  OBVIOUS
<1>1. CASE Write
  BY <1>1 DEF Write, UpdateOK
<1>2. CASE SetGlobal
  BY <1>0, <1>2, PayloadParts DEF SetGlobal, UpdateOK
<1>3. CASE SetZones
  <2>1. PICK c \in listed : store' = [store EXCEPT !.zones = c.zones]
    BY <1>3 DEF SetZones
  <2>2. IsPayload(store)'
    BY <1>0, <2>1, PayloadParts
  <2>3. QED
    BY <1>3, <2>2 DEF SetZones, UpdateOK
<1>4. CASE SetIngressDerived
  BY <1>0, <1>4, PayloadParts DEF SetIngressDerived, UpdateOK
<1>5. CASE UpdateStarts
  BY <1>5, ScopedPayload DEF UpdateStarts, UpdateOK, cp
<1>6. CASE UpdateGlobal
  <2>1. Accepts(upd.p.global) \in BOOLEAN
    BY DEF Accepts
  <2>2. /\ upd = [pc |-> upd.pc, p |-> upd.p, ok |-> upd.ok, todo |-> upd.todo]
        /\ upd' = [upd EXCEPT !.pc = "zones", !.ok = Accepts(upd.p.global)]
    BY <1>6 DEF UpdateGlobal, UpdateOK
  <2>3. upd' = [pc |-> "zones", p |-> upd.p, ok |-> Accepts(upd.p.global), todo |-> upd.todo]
    BY <2>2
  <2>4. UpdateOK'
    BY <1>6, <2>1, <2>3 DEF UpdateGlobal, UpdateOK
  <2>5. QED
    BY <1>6, <2>4 DEF UpdateGlobal, cp
<1>7. ASSUME NEW z \in ZoneKeys, UpdateZone(z) PROVE ControlPlane'
  BY <1>7 DEF UpdateZone, UpdateOK, cp, Accepts
<1>8. CASE StoreZones
  BY <1>8 DEF StoreZones, UpdateOK, cp
<1>9. CASE UpdateEnds
  BY <1>9 DEF UpdateEnds, UpdateOK, cp
<1>10. ASSUME NEW r \in Reqs, Serve(r) PROVE ControlPlane'
  BY <1>10 DEF Serve, Arrive, Skip, TakeStep, Resolve, LookupZone, config, cp, UpdateOK
<1>11. CASE Tick \/ ClockBack
  BY <1>11 DEF Tick, ClockBack, config, cp, UpdateOK
<1>12. CASE UNCHANGED vars
  BY <1>12 DEF vars, UpdateOK
<1>13. QED
  BY <1>1, <1>2, <1>3, <1>4, <1>5, <1>6, <1>7, <1>8, <1>9, <1>10, <1>11, <1>12
  DEF Next, Reloads, Update

\* The references, one by one.
LEMMA RefsDef ==
    \A e : e \in Refs <=> \/ \E L \in Limiters : e \in Live(L)
                          \/ \E r \in Reqs : e \in Pending(r)
<1> DEFINE A == UNION {Live(L) : L \in Limiters}
           B == UNION {Pending(r) : r \in Reqs}
<1>1. \A e : e \in A <=> \E L \in Limiters : e \in Live(L)
  OBVIOUS
<1>2. \A e : e \in B <=> \E r \in Reqs : e \in Pending(r)
  OBVIOUS
<1>3. Refs = A \cup B
  BY DEF Refs
<1> HIDE DEF A, B
<1>4. QED
  BY <1>1, <1>2, <1>3

\* ... and after a step.
LEMMA RefsNext ==
    \A e : e \in Refs' <=> \/ \E L \in Limiters : e \in Live(L)'
                           \/ \E r \in Reqs : e \in Pending(r)'
<1> DEFINE A == UNION {Live(L)' : L \in Limiters}
           B == UNION {Pending(r)' : r \in Reqs}
<1>1. \A e : e \in A <=> \E L \in Limiters : e \in Live(L)'
  OBVIOUS
<1>2. \A e : e \in B <=> \E r \in Reqs : e \in Pending(r)'
  OBVIOUS
<1>3. Refs' = A \cup B
  BY DEF Refs
<1> HIDE DEF A, B
<1>4. QED
  BY <1>1, <1>2, <1>3

-----------------------------------------------------------------------------
(* The requests: a step of one takes over references that are there.       *)

\* The windows of a limit are within the bound of the clock.
LEMMA WindowBound ==
    ASSUME NEW t \in 0..MaxTime, NEW size \in Nat \ {0} PROVE t \div size \in 0..MaxTime
<1>1. t \div size \in Nat /\ t % size \in Nat /\ t = size * (t \div size) + (t % size)
  BY NamesAssumption, DivMod
<1>2. t \div size <= size * (t \div size)
  BY <1>1
<1>3. QED
  BY <1>1, <1>2, NamesAssumption

\* The step of a request: it goes on with limits that are referred to.
Moves(r) ==
    \E q \in Request : req' = [req EXCEPT ![r] = q] /\ ToSet(q.todo) \subseteq Refs

\* The limit at which a request is, its bucket, and the limits behind it.
LEMMA Walks ==
    ASSUME Typed, NEW r \in Reqs, Walking(r)
    PROVE  /\ Lim(r) \in Compiled /\ Lim(r) \in Refs /\ Bucket(r) \in Buckets
           /\ Tail(req[r].todo) \in Seq(Compiled) /\ ToSet(Tail(req[r].todo)) \subseteq Refs
<1> DEFINE q == req[r].todo
<1>1. req[r] \in Request /\ q \in Seq(Compiled) /\ q # << >> /\ req[r].host \in Hosts \cup {Other}
  BY DEF Typed, Walking, Request
<1>2. Len(q) \in Nat /\ Len(q) > 0 /\ DOMAIN q = 1..Len(q) /\ q[1] \in Compiled
  BY <1>1
<1>3. Lim(r) = q[1]
  BY <1>1 DEF Lim
<1>4. /\ Tail(q) \in Seq(Compiled) /\ DOMAIN Tail(q) = 1..(Len(q) - 1)
      /\ \A i \in 1..(Len(q) - 1) : Tail(q)[i] = q[i + 1]
  BY <1>1, <1>2
<1>5. ToSet(Tail(q)) \subseteq Pending(r) /\ q[1] \in Pending(r)
  BY <1>2, <1>4 DEF ToSet, Pending
<1>6. Pending(r) \subseteq Refs
  BY RefsDef
<1>7. Bucket(r) \in Buckets
  BY <1>1 DEF Typed, Bucket, partValue, hostKey, Buckets
<1>8. QED
  BY <1>2, <1>3, <1>4, <1>5, <1>6, <1>7

\* Past a limit, or out.
LEMMA NextLimitMoves ==
    ASSUME Typed, NEW r \in Reqs
    PROVE  /\ Leave(r) => Moves(r) /\ held' \subseteq held
           /\ Walking(r) /\ NextLimit(r) => Moves(r) /\ held' \subseteq held
<1>1. ASSUME Leave(r) PROVE Moves(r) /\ held' \subseteq held
  <2>1. Idle \in Request /\ ToSet(Idle.todo) = {}
    BY DEF Idle, Request, ToSet, Limiters
  <2>2. QED
    BY <1>1, <2>1 DEF Leave, Advance, Moves
<1>2. ASSUME Walking(r), NextLimit(r), ~Leave(r) PROVE Moves(r) /\ held' \subseteq held
  <2> DEFINE q == [req[r] EXCEPT !.todo = Tail(@)]
  <2>1. q \in Request /\ q.todo = Tail(req[r].todo)
    BY <1>2, Walks DEF Typed, Request
  <2>2. req' = [req EXCEPT ![r] = q] /\ held' = held
    BY <1>2 DEF NextLimit, Advance
  <2> HIDE DEF q
  <2>3. QED
    BY <1>2, <2>1, <2>2, Walks DEF Moves
<1>3. QED
  BY <1>1, <1>2

\* A request changes nothing of the limits but the counters.
LEMMA ServeMoves ==
    ASSUME Typed, NEW r \in Reqs, Serve(r)
    PROVE  /\ Moves(r) /\ held' \subseteq Reqs
           /\ UNCHANGED <<now, back, sets, live, route, known>>
           /\ TakeStep(r) \/ UNCHANGED <<heap, hist>>
<1>1. CASE Arrive(r)
  <2>1. PICK h \in Hosts : req' = [req EXCEPT ![r] =
             [pc |-> "walk", host |-> h, of |-> "global", todo |-> sets["global"]]]
    BY <1>1 DEF Arrive, Advance
  <2>2. sets["global"] \in Seq(Compiled) /\ ToSet(sets["global"]) \subseteq Refs
    BY RefsDef DEF Typed, Limiters, Live
  <2>3. [pc |-> "walk", host |-> h, of |-> "global", todo |-> sets["global"]] \in Request
    BY <2>2 DEF Request, Limiters
  <2>4. Moves(r)
    BY <2>1, <2>2, <2>3 DEF Moves
  <2>5. QED
    BY <1>1, <2>4 DEF Arrive, clock, config, Typed
<1>2. CASE Skip(r)
  BY <1>2, NextLimitMoves DEF Skip, clock, config, Typed
<1>3. CASE TakeStep(r)
  BY <1>3, NextLimitMoves DEF TakeStep, clock, config, Typed
<1>4. CASE Resolve(r)
  <2>1. ASSUME ~Leave(r) PROVE Moves(r) /\ held' = held
    <3> DEFINE q == [req[r] EXCEPT !.pc = "lookup", !.of = route]
    <3>1. req' = [req EXCEPT ![r] = q] /\ held' = held /\ route # Unbound /\ req[r].todo = << >>
      BY <1>4, <2>1 DEF Resolve, Advance
    <3>2. q \in Request /\ q.todo = req[r].todo
      BY <3>1 DEF Typed, Request, Limiters
    <3> HIDE DEF q
    <3>3. ToSet(q.todo) = {}
      BY <3>1, <3>2 DEF ToSet
    <3>4. QED
      BY <3>1, <3>2, <3>3 DEF Moves
  <2>2. QED
    BY <1>4, <2>1, NextLimitMoves DEF Resolve, clock, config, Typed
<1>5. CASE LookupZone(r)
  <2>1. ASSUME ~Leave(r) PROVE Moves(r) /\ held' \subseteq held
    <3> DEFINE of == req[r].of
               q == [req[r] EXCEPT !.pc = "walk", !.todo = sets[of]]
    <3>1. req' = [req EXCEPT ![r] = q] /\ held' \subseteq held
      BY <1>5, <2>1 DEF LookupZone, Advance
    <3>2. req[r] \in Request /\ of \in Limiters /\ sets[of] \in Seq(Compiled)
      BY DEF Typed, Request
    <3>3. q \in Request /\ q.todo = sets[of] /\ ToSet(sets[of]) \subseteq Refs
      BY <3>2, RefsDef DEF Request, Live
    <3> HIDE DEF q
    <3>4. QED
      BY <3>1, <3>3 DEF Moves
  <2>2. QED
    BY <1>5, <2>1, NextLimitMoves DEF LookupZone, clock, config, Typed
<1>6. QED
  BY <1>1, <1>2, <1>3, <1>4, <1>5 DEF Serve

\* A step of a request brings no new reference.
LEMMA MovesKeep ==
    ASSUME Typed, NEW r \in Reqs, Moves(r), UNCHANGED sets
    PROVE  req' \in [Reqs -> Request] /\ Refs' \subseteq Refs
<1>1. PICK q \in Request : req' = [req EXCEPT ![r] = q] /\ ToSet(q.todo) \subseteq Refs
  BY DEF Moves
<1>2. req' \in [Reqs -> Request] /\ req'[r] = q /\ \A s \in Reqs \ {r} : req'[s] = req[s]
  BY <1>1 DEF Typed
<1>3. \A s \in Reqs : Pending(s)' \subseteq Refs
  <2> SUFFICES ASSUME NEW s \in Reqs, s # r PROVE Pending(s)' \subseteq Refs
    BY <1>1, <1>2 DEF Pending
  <2>1. Pending(s)' = Pending(s)
    BY <1>2 DEF Pending
  <2>2. QED
    BY <2>1, RefsDef
<1>4. \A L \in Limiters : Live(L)' \subseteq Refs
  BY RefsDef DEF Live
<1>5. QED
  BY <1>2, <1>3, <1>4, RefsNext

\* References are compiled limits.
LEMMA RefTyped == ASSUME Typed, NEW e \in Refs PROVE e \in Compiled
<1>1. CASE \E L \in Limiters : e \in Live(L)
  BY <1>1 DEF Typed, Live, ToSet
<1>2. CASE \E r \in Reqs : e \in Pending(r)
  BY <1>2 DEF Typed, Pending, ToSet, Request
<1>3. QED
  BY <1>1, <1>2, RefsDef

\* References that are kept, with their strategies and tenures, keep what is
\* said of them.
LEMMA RefsKept ==
    ASSUME Typed, Placed, OneTenure, Refs' \subseteq Refs, UNCHANGED sets,
           heap' \in Seq(Strategy), Len(heap') = Len(heap),
           \A x \in Limiters \X Ids : hist'[x].n = hist[x].n
    PROVE  Placed' /\ OneTenure'
<1>1. \A e \in Refs : e \in Compiled /\ <<e.of, e.id>> \in Limiters \X Ids
  BY RefTyped DEF Compiled
<1>2. \A L \in Limiters : Live(L)' = Live(L) /\ Live(L) \subseteq Refs
  BY RefsDef DEF Live
<1>3. \A e \in Refs : TenureOf(e)'.n = TenureOf(e).n
  BY <1>1 DEF TenureOf
<1>4. Placed'
  BY <1>2, <1>3 DEF Placed
<1>5. OneTenure'
  BY DEF OneTenure
<1>6. QED
  BY <1>4, <1>5

\* A step that leaves the strategies and the tenures alone.
LEMMA CountersKept ==
    ASSUME Typed, Placed, OneTenure, CountsHold, Refs' \subseteq Refs,
           UNCHANGED <<heap, sets, hist>>, now' \in 0..MaxTime,
           (back' = back /\ now' >= now) \/ back'
    PROVE  Placed' /\ OneTenure' /\ CountsHold'
<1>1. Placed' /\ OneTenure'
  BY RefsKept DEF Typed
<1>2. ASSUME NEW L \in Limiters, NEW e \in Live(L) PROVE Counts(e)'
  <2> DEFINE size == e.shape.size
  <2>1. e \in Refs /\ e \in Compiled /\ Counts(e)
    BY RefsDef, RefTyped DEF CountsHold
  <2>2. size \in Nat \ {0} /\ e.obj \in 1..Len(heap) /\ heap[e.obj] \in Strategy
    BY <2>1 DEF Compiled, Shape, Placed, Typed
  <2>3. heap[e.obj].window \in Nat /\ now \in 0..MaxTime /\ now \in Nat /\ now' \in Nat
    BY <2>2, NamesAssumption DEF Strategy, Typed
  <2> HIDE DEF size
  <2>4. now \div size \in Nat /\ now' \div size \in Nat
    BY <2>2, <2>3, DivMod
  <2>5. now' >= now => now \div size <= now' \div size
    BY <2>2, <2>3, DivMonotone
  <2>6. QED
    BY <2>1, <2>3, <2>4, <2>5 DEF Counts, TenureOf, Typed, size
<1>3. QED
  BY <1>1, <1>2 DEF CountsHold, Live

\* The latest of two windows.
LEMMA MaxOfTwo ==
    ASSUME NEW a \in Nat, NEW b \in Nat PROVE Max({a, b}) = IF a >= b THEN a ELSE b
<1>1. \E x \in {a, b} : \A y \in {a, b} : x >= y
  OBVIOUS
<1>2. Max({a, b}) \in {a, b} /\ \A y \in {a, b} : Max({a, b}) >= y
  BY <1>1 DEF Max
<1>3. QED
  BY <1>2

\* What Counted records of a tenure h when ok is the answer for bucket b in
\* window w.
Window(h, w) == Max({h.w, w})
Admitted(h, b, w, ok) ==
    LET c == IF Window(h, w) > h.w THEN Zero ELSE h.count
    IN IF ok THEN [c EXCEPT ![b] = @ + 1] ELSE c

\* The answer t of strategy s for bucket b in window w keeps the strategy and
\* the tenure h together, and within the rate.
TakeKeeps(s, b, shape, h, t, w) ==
    /\ t.s \in Strategy /\ t.ok \in BOOLEAN
    /\ s.window <= w => t.s.window <= w
    /\ Window(h, w) \in 0..MaxTime /\ Admitted(h, b, w, t.ok) \in [Buckets -> Nat]
    /\ /\ shape.alg = "sliding" \/ s.window <= w
       /\ s.window = h.w /\ s.cur = h.count
       /\ \A x \in Buckets : s.cur[x] <= shape.rate
       => /\ t.s.window = Window(h, w) /\ t.s.cur = Admitted(h, b, w, t.ok)
          /\ \A x \in Buckets : t.s.cur[x] <= shape.rate

\* Take does, whichever strategy it is.
LEMMA TakeCounts ==
    ASSUME NEW s \in Strategy, NEW b \in Buckets, NEW shape \in Shape, NEW h \in Tenure,
           now \in 0..MaxTime
    PROVE  TakeKeeps(s, b, shape, h, Take(s, b, shape), now \div shape.size)
<1> DEFINE w == now \div shape.size
           t == Take(s, b, shape)
<1>1. w \in 0..MaxTime /\ shape.size \in Nat \ {0} /\ shape.rate \in Nat \ {0} /\ w \in Nat
  BY WindowBound, NamesAssumption DEF Shape
<1>2. h.w \in Nat /\ h.w \in 0..MaxTime /\ h.count \in [Buckets -> Nat] /\ Zero \in [Buckets -> Nat]
      /\ \A x \in Buckets : Zero[x] = 0
  BY NamesAssumption DEF Tenure, Zero
<1>3. Window(h, w) = IF h.w >= w THEN h.w ELSE w
  BY <1>1, <1>2, MaxOfTwo DEF Window
<1>4. s.window \in 0..MaxTime /\ s.cur \in [Buckets -> Nat] /\ s.prev \in [Buckets -> Nat]
  BY DEF Strategy
<1>5. now \in Nat
  BY NamesAssumption
<1> HIDE DEF w
<1>6. ASSUME shape.alg = "sliding" PROVE TakeKeeps(s, b, shape, h, t, w)
  <2> DEFINE n == roll(s, w)
             ok == CanTake(shape.rate, n.prev[b], n.cur[b], now, shape.size)
  <2>1. n \in Strategy
    BY <1>1, <1>2, <1>4, NamesAssumption DEF roll, Strategy
  <2>2. /\ w <= s.window => n = s
        /\ w > s.window => n.window = w /\ n.cur = Zero
    BY <1>1, <1>4 DEF roll
  <2>3. t = [ok |-> ok, s |-> IF ok THEN [n EXCEPT !.cur[b] = @ + 1] ELSE n]
    BY <1>6 DEF Take, SlidingTake, w
  <2>4. ok \in BOOLEAN
    BY DEF CanTake
  <2>5. ok => n.cur[b] + 1 <= shape.rate
    BY <1>1, <1>5, <2>1, RoomLeft DEF Strategy
  <2> HIDE DEF n, ok
  <2>6. /\ t.ok = ok /\ t.s \in Strategy /\ t.s.window = n.window
        /\ t.s.cur = IF ok THEN [n.cur EXCEPT ![b] = @ + 1] ELSE n.cur
    BY <2>1, <2>3 DEF Strategy
  <2>7. t.s.window <= w \/ s.window > w
    BY <1>1, <1>4, <2>2, <2>6
  <2>8. Window(h, w) \in 0..MaxTime /\ Admitted(h, b, w, t.ok) \in [Buckets -> Nat]
    BY <1>1, <1>2, <1>3 DEF Admitted
  <2>9. ASSUME s.window = h.w, s.cur = h.count, \A x \in Buckets : s.cur[x] <= shape.rate
        PROVE  /\ t.s.window = Window(h, w) /\ t.s.cur = Admitted(h, b, w, t.ok)
               /\ \A x \in Buckets : t.s.cur[x] <= shape.rate
    <3>1. t.s.window = Window(h, w) /\ n.cur = IF Window(h, w) > h.w THEN Zero ELSE h.count
      BY <1>1, <1>2, <1>3, <1>4, <2>2, <2>6, <2>9
    <3>2. t.s.cur = Admitted(h, b, w, t.ok)
      BY <3>1, <2>6 DEF Admitted
    <3>3. n.cur \in [Buckets -> Nat] /\ \A x \in Buckets : n.cur[x] <= shape.rate
      BY <1>1, <1>2, <2>9, <3>1
    <3>4. QED
      BY <1>1, <3>1, <3>2, <3>3, <2>5, <2>6
  <2>10. QED
    <3> HIDE DEF t
    <3> QED
      BY <1>1, <1>4, <2>4, <2>6, <2>7, <2>8, <2>9 DEF TakeKeeps
<1>7. ASSUME shape.alg = "fixed" PROVE TakeKeeps(s, b, shape, h, t, w)
  <2> DEFINE n == IF w = s.window THEN s ELSE [newStrategy EXCEPT !.window = w]
             ok == n.cur[b] < shape.rate
  <2>1. n \in Strategy /\ n.window = w /\ n.cur = IF w = s.window THEN s.cur ELSE Zero
    BY <1>1, <1>2, <1>4 DEF newStrategy, Strategy
  <2>2. t = [ok |-> ok, s |-> IF ok THEN [n EXCEPT !.cur[b] = @ + 1] ELSE n]
    BY <1>7 DEF Take, FixedTake, w
  <2>3. ok \in BOOLEAN
    OBVIOUS
  <2>4. ok => n.cur[b] + 1 <= shape.rate
    BY <1>1, <2>1 DEF Strategy
  <2> HIDE DEF n, ok
  <2>5. /\ t.ok = ok /\ t.s \in Strategy /\ t.s.window = n.window
        /\ t.s.cur = IF ok THEN [n.cur EXCEPT ![b] = @ + 1] ELSE n.cur
    BY <2>1, <2>2 DEF Strategy
  <2>6. t.s.window <= w \/ s.window > w
    BY <1>1, <1>4, <2>1, <2>5
  <2>7. Window(h, w) \in 0..MaxTime /\ Admitted(h, b, w, t.ok) \in [Buckets -> Nat]
    BY <1>1, <1>2, <1>3 DEF Admitted
  <2>8. ASSUME s.window = h.w, s.cur = h.count, \A x \in Buckets : s.cur[x] <= shape.rate,
               s.window <= w
        PROVE  /\ t.s.window = Window(h, w) /\ t.s.cur = Admitted(h, b, w, t.ok)
               /\ \A x \in Buckets : t.s.cur[x] <= shape.rate
    <3>1. t.s.window = Window(h, w) /\ n.cur = IF Window(h, w) > h.w THEN Zero ELSE h.count
      BY <1>1, <1>2, <1>3, <1>4, <2>1, <2>5, <2>8
    <3>2. t.s.cur = Admitted(h, b, w, t.ok)
      BY <3>1, <2>5 DEF Admitted
    <3>3. n.cur \in [Buckets -> Nat] /\ \A x \in Buckets : n.cur[x] <= shape.rate
      BY <1>1, <1>2, <2>8, <3>1
    <3>4. QED
      BY <1>1, <3>1, <3>2, <3>3, <2>4, <2>5
  <2>9. QED
    <3> HIDE DEF t
    <3> QED
      BY <1>1, <1>4, <1>7, <2>3, <2>5, <2>6, <2>7, <2>8 DEF TakeKeeps
<1>8. TakeKeeps(s, b, shape, h, t, w)
  BY <1>6, <1>7 DEF Shape
<1>9. QED
  BY <1>8 DEF w

\* What a Take leaves in the history.
LEMMA CountedTenure ==
    ASSUME Typed, NEW r \in Reqs, Walking(r), NEW ok, Counted(r, ok)
    PROVE  LET x == <<Lim(r).of, Lim(r).id>>
               w == now \div Lim(r).shape.size
           IN hist' = IF Lim(r).n # hist[x].n THEN hist
                      ELSE [hist EXCEPT ![x] =
                             [n |-> hist[x].n, w |-> Window(hist[x], w),
                              count |-> Admitted(hist[x], Bucket(r), w, ok)]]
<1> DEFINE x == <<Lim(r).of, Lim(r).id>>
           w == now \div Lim(r).shape.size
           W == Window(hist[x], w)
           C == Admitted(hist[x], Bucket(r), w, ok)
           g == [hist EXCEPT ![x].w = W]
<1>1. x \in Limiters \X Ids /\ hist[x] \in Tenure /\ hist \in [Limiters \X Ids -> Tenure]
  BY Walks DEF Typed, Compiled
<1>2. hist' = IF Lim(r).n # hist[x].n THEN hist
              ELSE [hist EXCEPT ![x].w = W, ![x].count = C]
  BY Zenon DEF Counted, Window, Admitted
<1> HIDE DEF x, W, C
<1> DEFINE mid == [n |-> hist[x].n, w |-> W, count |-> hist[x].count]
           end == [n |-> hist[x].n, w |-> W, count |-> C]
<1>3. [hist EXCEPT ![x].w = W, ![x].count = C] = [g EXCEPT ![x].count = C]
  BY Zenon
<1>4. g = [hist EXCEPT ![x] = mid]
  <2>1. [hist[x] EXCEPT !.w = W] = mid
    BY <1>1 DEF Tenure
  <2>2. [hist EXCEPT ![x].w = W] = [hist EXCEPT ![x] = [hist[x] EXCEPT !.w = W]]
    OBVIOUS
  <2>3. QED
    BY <2>1, <2>2
<1> HIDE DEF g, mid
<1>5. [g EXCEPT ![x].count = C] = [hist EXCEPT ![x] = end]
  <2>1. g \in [Limiters \X Ids -> {g[y] : y \in Limiters \X Ids}] /\ g[x] = mid
    BY <1>1, <1>4
  <2>2. [mid EXCEPT !.count = C] = end
    BY DEF mid
  <2>3. [g EXCEPT ![x].count = C] = [g EXCEPT ![x] = [mid EXCEPT !.count = C]]
    BY <2>1
  <2>4. [g EXCEPT ![x] = end] = [hist EXCEPT ![x] = end]
    BY <1>1, <1>4
  <2>5. QED
    BY <2>2, <2>3, <2>4
<1>6. QED
  BY <1>2, <1>3, <1>5 DEF x, W, C

\* A Take counts for every set that refers to the strategy, and for no other
\* limit.
LEMMA TakeStepKeeps ==
    ASSUME Typed, Placed, OneTenure, CountsHold, NEW r \in Reqs, TakeStep(r)
    PROVE  /\ heap' \in Seq(Strategy) /\ hist' \in [Limiters \X Ids -> Tenure]
           /\ Placed' /\ OneTenure' /\ CountsHold'
<1> DEFINE e == Lim(r)
           x == <<e.of, e.id>>
           b == Bucket(r)
           w == now \div e.shape.size
           s == heap[e.obj]
           t == Take(s, b, e.shape)
           h == hist[x]
           h1 == [n |-> h.n, w |-> Window(h, w), count |-> Admitted(h, b, w, t.ok)]
<1>1. e \in Refs /\ e \in Compiled /\ b \in Buckets /\ e.shape \in Shape
  BY Walks DEF TakeStep, Compiled
<1>2. e.obj \in 1..Len(heap) /\ s \in Strategy /\ now \in 0..MaxTime /\ x \in Limiters \X Ids
      /\ h \in Tenure
  BY <1>1 DEF Placed, Typed, Compiled
<1>3. TakeKeeps(s, b, e.shape, h, t, w)
  BY <1>1, <1>2, TakeCounts
<1>4. heap' = [heap EXCEPT ![e.obj] = t.s] /\ hist' = IF e.n # h.n THEN hist ELSE [hist EXCEPT ![x] = h1]
  BY CountedTenure DEF TakeStep
<1>5. Refs' \subseteq Refs /\ UNCHANGED <<sets, now, back>>
  BY ServeMoves, MovesKeep DEF Serve
<1> HIDE DEF e, x, b, w, s, t, h
<1>6. t.s \in Strategy /\ h1 \in Tenure
  BY <1>2, <1>3 DEF TakeKeeps, Tenure
<1>7. /\ heap' \in Seq(Strategy) /\ Len(heap') = Len(heap)
      /\ heap'[e.obj] = t.s /\ \A i \in 1..Len(heap) : i # e.obj => heap'[i] = heap[i]
  BY <1>2, <1>4, <1>6 DEF Typed
<1>8. hist' \in [Limiters \X Ids -> Tenure] /\ \A y \in Limiters \X Ids : hist'[y].n = hist[y].n
  BY <1>2, <1>4, <1>6 DEF Typed, h
<1>9. Placed' /\ OneTenure'
  BY <1>5, <1>7, <1>8, RefsKept
<1>10. ASSUME NEW L \in Limiters, NEW f \in Live(L) PROVE Counts(f)'
  <2>1. f \in Refs /\ f \in Compiled /\ f.of = L /\ f.n = TenureOf(f).n /\ f.obj \in 1..Len(heap)
        /\ Counts(f)
    BY RefsDef, RefTyped DEF Placed, CountsHold
  <2>2. CASE f.obj = e.obj
    <3>1. f.of = e.of /\ f.id = e.id /\ f.n = e.n /\ f.shape = e.shape
      BY <1>1, <2>1, <2>2 DEF OneTenure
    <3>2. TenureOf(f) = h /\ TenureOf(f)' = h1 /\ heap[f.obj] = s /\ heap'[f.obj] = t.s
      BY <1>2, <1>4, <1>7, <2>1, <2>2, <3>1 DEF TenureOf, Typed, x, h, s
    <3>3. now' = now /\ back' = back /\ now \div f.shape.size = w
      BY <1>5, <3>1 DEF w
    <3> HIDE DEF h1
    <3>4. h1.w = Window(h, w) /\ h1.count = Admitted(h, b, w, t.ok)
      BY DEF h1
    <3>5. QED
      BY <1>3, <2>1, <3>1, <3>2, <3>3, <3>4 DEF Counts, TakeKeeps
  <2>3. CASE f.obj # e.obj
    <3>1. heap'[f.obj] = heap[f.obj]
      BY <1>7, <2>1, <2>3
    <3>2. TenureOf(f)' = TenureOf(f)
      <4>1. <<f.of, f.id>> \in Limiters \X Ids /\ ~(f.of = e.of /\ f.id = e.id /\ f.n = e.n)
        BY <1>1, <2>1, <2>3 DEF OneTenure, Compiled
      <4>2. CASE <<f.of, f.id>> = x
        BY <1>4, <2>1, <4>1, <4>2 DEF TenureOf, x, h
      <4>3. CASE <<f.of, f.id>> # x
        BY <1>4, <4>1, <4>3 DEF TenureOf, Typed
      <4>4. QED
        BY <4>2, <4>3
    <3>3. QED
      BY <1>5, <2>1, <3>1, <3>2 DEF Counts
  <2>4. QED
    BY <2>2, <2>3
<1>11. QED
  BY <1>5, <1>7, <1>8, <1>9, <1>10 DEF CountsHold, Live

-----------------------------------------------------------------------------
(* SetLimits: the limits of a new set carry on or start.                   *)

\* Limit e of Limiter L continues one that was live ...
Carried(L, e) ==
    /\ \E o \in Live(L) : e.id = o.id /\ e.n = o.n /\ e.shape = o.shape /\ e.obj = o.obj
    /\ hist'[<<L, e.id>>] = hist[<<L, e.id>>]

\* ... or has a strategy and a tenure of its own.
Started(L, e) ==
    /\ e.obj \in (Len(heap) + 1)..Len(heap') /\ heap'[e.obj] = newStrategy
    /\ e.n = hist[<<L, e.id>>].n + 1
    /\ hist'[<<L, e.id>>] = [n |-> e.n, w |-> 0, count |-> Zero]

\* The step of a SetLimits of L, by what it does to the references.
Replaces(L) ==
    /\ UNCHANGED <<req, now, back>>
    /\ \A M \in Limiters \ {L} : sets'[M] = sets[M]
    /\ heap' \in Seq(Strategy) /\ Len(heap') >= Len(heap)
    /\ \A i \in 1..Len(heap) : heap'[i] = heap[i]
    /\ \A M \in Limiters \ {L}, id \in Ids : hist'[<<M, id>>] = hist[<<M, id>>]
    /\ \A id \in Ids : hist'[<<L, id>>].n >= hist[<<L, id>>].n
    /\ \A e \in Live(L)' : e \in Compiled /\ e.of = L /\ (Carried(L, e) \/ Started(L, e))
    /\ \A e, f \in Live(L)' :
         Started(L, e) /\ Started(L, f) => (e.obj = f.obj <=> e = f) /\ (e.id = f.id <=> e = f)

\* Such a step keeps every strategy with its tenure.
LEMMA ReplacesKeeps ==
    ASSUME Typed, hist' \in [Limiters \X Ids -> Tenure], Placed, OneTenure, CountsHold,
           NEW L \in Limiters, Replaces(L)
    PROVE  Placed' /\ OneTenure' /\ CountsHold'
<1> DEFINE Old(e) == \E o \in Refs : /\ e.of = o.of /\ e.id = o.id /\ e.n = o.n
                                     /\ e.shape = o.shape /\ e.obj = o.obj
           New(e) == e \in Live(L)' /\ Started(L, e)
<1>1. \A M \in Limiters : Live(M) \subseteq Refs
  BY RefsDef
<1>2. \A M \in Limiters \ {L} : Live(M)' = Live(M)
  BY DEF Replaces, Live
<1>3. \A e \in Live(L)' : e.of = L /\ e \in Compiled /\ (Carried(L, e) \/ Started(L, e))
  BY DEF Replaces
<1>4. \A e \in Live(L)' : Carried(L, e) => Old(e)
  BY <1>1, <1>3 DEF Carried, Placed
<1>5. \A e \in Refs' : (Old(e) /\ e \in Compiled) \/ New(e)
  <2> SUFFICES ASSUME NEW e \in Refs', ~New(e) PROVE Old(e) /\ e \in Compiled
    OBVIOUS
  <2>1. CASE e \in Refs
    BY <2>1, RefTyped
  <2>2. CASE e \in Live(L)'
    BY <1>3, <1>4, <2>2
  <2>3. e \in Refs \/ e \in Live(L)'
    <3>1. \A r \in Reqs : Pending(r)' = Pending(r)
      BY DEF Replaces, Pending
    <3>2. QED
      BY <1>2, <3>1, RefsNext, RefsDef
  <2>4. QED
    BY <2>1, <2>2, <2>3
<1>6. \A e \in Refs' : Old(e) => /\ e.obj \in Nat /\ e.obj > 0 /\ e.obj <= Len(heap) /\ e.n <= hist[<<e.of, e.id>>].n
                                 /\ e.n \in Nat /\ <<e.of, e.id>> \in Limiters \X Ids
  BY RefTyped DEF Placed, TenureOf, Compiled
<1>7. \A e \in Refs' : New(e) => /\ e.obj \in Nat /\ e.obj > Len(heap) /\ e.obj <= Len(heap') /\ e.of = L
                                 /\ e.n = hist[<<e.of, e.id>>].n + 1
                                 /\ <<e.of, e.id>> \in Limiters \X Ids
  <2> SUFFICES ASSUME NEW e \in Live(L)', Started(L, e)
               PROVE  /\ e.obj \in Nat /\ e.obj > Len(heap) /\ e.obj <= Len(heap') /\ e.of = L
                      /\ e.n = hist[<<e.of, e.id>>].n + 1 /\ <<e.of, e.id>> \in Limiters \X Ids
    OBVIOUS
  <2>1. e.of = L /\ <<e.of, e.id>> \in Limiters \X Ids
    BY <1>3 DEF Compiled
  <2>2. Len(heap) \in Nat /\ Len(heap') \in Nat
    BY DEF Typed, Replaces
  <2>3. QED
    BY <2>1, <2>2 DEF Started
<1>8. \A y \in Limiters \X Ids : hist[y].n \in Nat /\ hist'[y].n \in Nat /\ hist[y].n <= hist'[y].n
  <2> SUFFICES ASSUME NEW M \in Limiters, NEW id \in Ids PROVE
        /\ hist[<<M, id>>].n \in Nat /\ hist'[<<M, id>>].n \in Nat
        /\ hist[<<M, id>>].n <= hist'[<<M, id>>].n
    OBVIOUS
  <2>1. hist[<<M, id>>] \in Tenure /\ hist'[<<M, id>>] \in Tenure
    BY DEF Typed
  <2>2. QED
    BY <2>1 DEF Replaces, Tenure
<1>9. Len(heap) \in Nat /\ Len(heap') \in Nat /\ Len(heap') >= Len(heap)
  BY DEF Typed, Replaces
<1>10. OneTenure'
  <2> SUFFICES ASSUME NEW e \in Refs', NEW f \in Refs'
               PROVE  /\ e.obj = f.obj <=> (e.of = f.of /\ e.id = f.id /\ e.n = f.n)
                      /\ e.obj = f.obj => e.shape = f.shape
    BY DEF OneTenure
  <2>1. CASE Old(e) /\ Old(f)
    BY <2>1 DEF OneTenure
  <2>2. CASE New(e) /\ New(f)
    BY <1>7, <2>2 DEF Replaces
  <2> HIDE DEF Old, New
  <2>3. CASE Old(e) /\ New(f)
    <3>1. e.obj < f.obj /\ e.obj \in Nat /\ f.obj \in Nat
      <4>1. e.obj \in Nat /\ e.obj <= Len(heap)
        BY <1>6, <2>3
      <4>2. f.obj \in Nat /\ f.obj > Len(heap)
        BY <1>7, <2>3
      <4>3. QED
        BY <4>1, <4>2, <1>9
    <3>2. e.of = f.of /\ e.id = f.id => e.n # f.n
      <4>1. e.n <= hist[<<e.of, e.id>>].n /\ e.n \in Nat /\ hist[<<e.of, e.id>>].n \in Nat
        BY <1>6, <1>8, <2>3
      <4>2. f.n = hist[<<f.of, f.id>>].n + 1
        BY <1>7, <2>3
      <4>3. QED
        BY <4>1, <4>2
    <3>3. QED
      BY <3>1, <3>2
  <2>4. CASE New(e) /\ Old(f)
    <3>1. f.obj < e.obj /\ f.obj \in Nat /\ e.obj \in Nat
      <4>1. f.obj \in Nat /\ f.obj <= Len(heap)
        BY <1>6, <2>4
      <4>2. e.obj \in Nat /\ e.obj > Len(heap)
        BY <1>7, <2>4
      <4>3. QED
        BY <4>1, <4>2, <1>9
    <3>2. f.of = e.of /\ f.id = e.id => f.n # e.n
      <4>1. f.n <= hist[<<f.of, f.id>>].n /\ f.n \in Nat /\ hist[<<f.of, f.id>>].n \in Nat
        BY <1>6, <1>8, <2>4
      <4>2. e.n = hist[<<e.of, e.id>>].n + 1
        BY <1>7, <2>4
      <4>3. QED
        BY <4>1, <4>2
    <3>3. QED
      BY <3>1, <3>2
  <2>5. QED
    BY <1>5, <2>1, <2>2, <2>3, <2>4
<1>11. \A M \in Limiters : Live(M)' \subseteq Refs'
  BY RefsNext
<1>12. Placed'
  <2>1. ASSUME NEW e \in Refs' PROVE e.obj \in 1..Len(heap') /\ e.n <= TenureOf(e)'.n
    <3>1. CASE Old(e)
      BY <1>6, <1>8, <1>9, <3>1 DEF TenureOf
    <3>2. CASE New(e)
      <4>1. e.obj \in 1..Len(heap') /\ e.of = L /\ hist'[<<L, e.id>>].n = e.n
        <5>1. hist'[<<L, e.id>>].n = e.n
          BY <3>2 DEF Started
        <5> HIDE DEF Old, New
        <5>2. e.obj \in Nat /\ e.obj > Len(heap) /\ e.obj <= Len(heap') /\ e.of = L
          BY <1>7, <3>2
        <5>3. QED
          BY <1>9, <5>1, <5>2
      <4>2. e.n \in Nat
        BY <1>3, <3>2 DEF Compiled
      <4>3. QED
        BY <4>1, <4>2 DEF TenureOf
    <3>3. QED
      BY <1>5, <3>1, <3>2
  <2>2. ASSUME NEW M \in Limiters, NEW e \in Live(M)' PROVE e.of = M /\ e.n = TenureOf(e)'.n
    <3>1. CASE M # L
      <4>1. e \in Live(M) /\ e \in Compiled /\ e.of = M /\ e.n = hist[<<M, e.id>>].n
        <5>1. e \in Live(M) /\ e \in Refs
          BY <1>1, <1>2, <3>1
        <5>2. QED
          BY <5>1, RefTyped DEF Placed, TenureOf
      <4>2. QED
        BY <3>1, <4>1 DEF TenureOf, Replaces, Compiled
    <3>2. CASE M = L
      <4>1. CASE Carried(L, e)
        <5>1. PICK o \in Live(L) : e.id = o.id /\ e.n = o.n
          BY <4>1 DEF Carried
        <5>2. o.of = L /\ o.n = hist[<<L, o.id>>].n
          BY DEF Placed, TenureOf
        <5>3. QED
          BY <1>3, <3>2, <4>1, <5>1, <5>2 DEF TenureOf, Carried
      <4>2. CASE Started(L, e)
        BY <1>3, <3>2, <4>2 DEF TenureOf, Started
      <4>3. QED
        BY <1>3, <3>2, <4>1, <4>2
    <3>3. QED
      BY <3>1, <3>2
  <2>3. QED
    BY <2>1, <2>2 DEF Placed
<1>13. ASSUME NEW M \in Limiters, NEW e \in Live(M)' PROVE Counts(e)'
  <2>1. CASE \E o \in Live(M) : /\ e.id = o.id /\ e.of = o.of /\ e.shape = o.shape /\ e.obj = o.obj
                                /\ hist'[<<M, e.id>>] = hist[<<M, e.id>>]
    <3>1. PICK o \in Live(M) : /\ e.id = o.id /\ e.of = o.of /\ e.shape = o.shape /\ e.obj = o.obj
                               /\ hist'[<<M, e.id>>] = hist[<<M, e.id>>]
      BY <2>1
    <3>2. Counts(o) /\ o.of = M /\ o.obj \in 1..Len(heap)
      BY <1>1 DEF CountsHold, Placed
    <3>3. heap'[e.obj] = heap[o.obj] /\ TenureOf(e)' = TenureOf(o) /\ now' = now /\ back' = back
      BY <3>1, <3>2 DEF TenureOf, Replaces
    <3>4. QED
      BY <3>1, <3>2, <3>3 DEF Counts
  <2>2. CASE M # L
    <3>1. e \in Live(M) /\ e \in Compiled
      BY <1>1, <1>2, <2>2, RefTyped
    <3>2. hist'[<<M, e.id>>] = hist[<<M, e.id>>]
      BY <2>2, <3>1 DEF Replaces, Compiled
    <3>3. QED
      BY <2>1, <3>1, <3>2
  <2>3. CASE M = L /\ Carried(L, e)
    BY <1>3, <2>1, <2>3 DEF Carried, Placed
  <2>4. CASE M = L /\ Started(L, e)
    <3>1. heap'[e.obj] = newStrategy /\ e \in Compiled /\ e.of = L
          /\ TenureOf(e)' = [n |-> e.n, w |-> 0, count |-> Zero]
      BY <1>3, <2>4 DEF Started, TenureOf
    <3>2. now' \in 0..MaxTime /\ e.shape.size \in Nat \ {0} /\ e.shape.rate \in Nat
      BY <3>1 DEF Replaces, Typed, Compiled, Shape
    <3>3. now' \div e.shape.size >= 0
      <4>1. \A t \in 0..MaxTime : t \div e.shape.size \in 0..MaxTime
        BY <3>2, WindowBound
      <4>2. QED
        BY <3>2, <4>1
    <3>4. QED
      BY <3>1, <3>2, <3>3 DEF Counts, newStrategy, Zero
  <2>5. QED
    BY <1>3, <2>2, <2>3, <2>4
<1>14. QED
  BY <1>10, <1>12, <1>13 DEF CountsHold

\* The members of F count up.
LEMMA CountUpTo ==
    ASSUME NEW m \in Nat, NEW F \in SUBSET (1..m), NEW i \in F
    PROVE  /\ Cardinality(F \cap 1..i) \in 1..Cardinality(F \cap 1..m)
           /\ \A j \in F : i < j => Cardinality(F \cap 1..i) < Cardinality(F \cap 1..j)
<1>1. \A k \in Nat : IsFiniteSet(F \cap 1..k) /\ Cardinality(F \cap 1..k) \in Nat
  <2> SUFFICES ASSUME NEW k \in Nat
               PROVE  IsFiniteSet(F \cap 1..k) /\ Cardinality(F \cap 1..k) \in Nat
    OBVIOUS
  <2>1. IsFiniteSet(1..k)
    BY FS_Interval
  <2>2. QED
    BY <2>1, FS_Subset, FS_CardinalityType
<1>2. i \in Nat /\ i <= m
  OBVIOUS
<1>3. Cardinality(F \cap 1..i) <= Cardinality(F \cap 1..m)
  <2>1. F \cap 1..i \subseteq F \cap 1..m
    BY <1>2
  <2>2. QED
    BY <1>1, <2>1, FS_Subset
<1>4. Cardinality(F \cap 1..i) # 0
  <2>1. i \in F \cap 1..i
    BY <1>2
  <2>2. QED
    BY <1>1, <1>2, <2>1, FS_EmptySet
<1>5. ASSUME NEW j \in F, i < j PROVE Cardinality(F \cap 1..i) < Cardinality(F \cap 1..j)
  <2> DEFINE S == F \cap 1..j
  <2>1. j \in Nat /\ j \in S /\ IsFiniteSet(S) /\ Cardinality(S) \in Nat
    BY <1>1
  <2>2. Cardinality(S \ {j}) = Cardinality(S) - 1 /\ IsFiniteSet(S \ {j})
    BY <2>1, FS_RemoveElement
  <2>3. F \cap 1..i \subseteq S \ {j}
    BY <1>2, <1>5, <2>1
  <2>4. Cardinality(F \cap 1..i) <= Cardinality(S \ {j})
    BY <2>2, <2>3, FS_Subset
  <2> HIDE DEF S
  <2>5. Cardinality(F \cap 1..i) \in Nat
    BY <1>1, <1>2
  <2>6. QED
    BY <2>1, <2>2, <2>4, <2>5 DEF S
<1>6. QED
  BY <1>1, <1>2, <1>3, <1>4, <1>5

\* The tenures of L that end and those that go on.
LEMMA TenuresEnd ==
    ASSUME Typed, NEW L \in Limiters, NEW kept, EndTenures(L, kept)
    PROVE  /\ hist' \in [Limiters \X Ids -> Tenure]
           /\ \A M \in Limiters \ {L}, id \in Ids : hist'[<<M, id>>] = hist[<<M, id>>]
           /\ \A id \in Ids : hist'[<<L, id>>] =
                IF id \in kept THEN hist[<<L, id>>]
                ELSE [n |-> hist[<<L, id>>].n + 1, w |-> 0, count |-> Zero]
           /\ \A id \in Ids : hist'[<<L, id>>].n >= hist[<<L, id>>].n
<1>1. hist \in [Limiters \X Ids -> Tenure] /\ Zero \in [Buckets -> Nat] /\ 0 \in 0..MaxTime
  BY NamesAssumption DEF Typed, Zero
<1>2. \A x \in Limiters \X Ids : [NoTenure EXCEPT !.n = hist[x].n + 1]
                                   = [n |-> hist[x].n + 1, w |-> 0, count |-> Zero]
  BY DEF NoTenure
<1>3. hist' = [x \in Limiters \X Ids |->
                 IF x[1] = L /\ x[2] \notin kept
                 THEN [n |-> hist[x].n + 1, w |-> 0, count |-> Zero] ELSE hist[x]]
  BY <1>1, <1>2 DEF EndTenures
<1>4. \A x \in Limiters \X Ids :
        hist[x].n \in Nat /\ [n |-> hist[x].n + 1, w |-> 0, count |-> Zero] \in Tenure
  BY <1>1 DEF Tenure
<1>5. hist' \in [Limiters \X Ids -> Tenure]
  BY <1>1, <1>3, <1>4
<1>6. \A M \in Limiters, id \in Ids : hist'[<<M, id>>] =
        IF M = L /\ id \notin kept
        THEN [n |-> hist[<<M, id>>].n + 1, w |-> 0, count |-> Zero] ELSE hist[<<M, id>>]
  BY <1>3
<1>7. \A id \in Ids : hist'[<<L, id>>].n >= hist[<<L, id>>].n
  <2> SUFFICES ASSUME NEW id \in Ids PROVE hist'[<<L, id>>].n >= hist[<<L, id>>].n
    OBVIOUS
  <2>1. hist[<<L, id>>].n \in Nat
    BY <1>4
  <2>2. CASE id \in kept
    <3>1. hist'[<<L, id>>] = hist[<<L, id>>]
      BY <1>6, <2>2
    <3>2. QED
      BY <2>1, <3>1
  <2>3. CASE id \notin kept
    <3>1. hist'[<<L, id>>] = [n |-> hist[<<L, id>>].n + 1, w |-> 0, count |-> Zero]
      BY <1>6, <2>3
    <3>2. QED
      BY <2>1, <3>1
  <2>4. QED
    BY <2>2, <2>3
<1>8. QED
  BY <1>5, <1>6, <1>7

\* An accepted limit is well typed, and its id is its own.
LEMMA AcceptedLimits ==
    ASSUME NEW docs, Parse(docs) \in Seq(Decoded), Accepts(docs)
    PROVE  /\ \A i \in 1..Len(Parse(docs)) :
                /\ Parse(docs)[i].id \in Ids /\ Parse(docs)[i].shape \in Shape
                /\ Parse(docs)[i].mode \in STRING /\ Parse(docs)[i].gated \in BOOLEAN
           /\ \A i, j \in 1..Len(Parse(docs)) :
                Parse(docs)[i].id = Parse(docs)[j].id => i = j
<1> DEFINE ls == Parse(docs)
<1>1. DOMAIN ls = 1..Len(ls) /\ \A i \in 1..Len(ls) : ls[i] \in Decoded /\ compileLimit(ls[i])
  BY DEF Accepts
<1>2. ASSUME NEW l \in Decoded, compileLimit(l) PROVE l.shape \in Shape
  <2>1. l.shape \in [key : STRING, alg : STRING, rate : Int, size : Int] /\ Second \in Nat \ {0}
        /\ Hour \in Nat
    BY NamesAssumption DEF Decoded
  <2>2. l.shape.alg \in {"fixed", "sliding"} /\ l.shape.rate \in Nat \ {0} /\ l.shape.size \in Nat \ {0}
    BY <1>2, <2>1 DEF compileLimit
  <2>3. QED
    BY <2>1, <2>2 DEF Shape
<1>3. \A i, j \in 1..Len(ls) : ls[i].id = ls[j].id => i = j
  BY <1>1 DEF Accepts, IsInjective
<1>4. QED
  BY <1>1, <1>2, <1>3 DEF Decoded

\* An accepted batch: limits with a live limit's id and shape carry it on, and
\* the others start, each with a strategy of its own.
LEMMA InstallReplaces ==
    ASSUME Typed, Placed, NEW L \in Limiters, NEW old, ToSet(old) \subseteq Live(L),
           NEW docs, Parse(docs) \in Seq(Decoded), Accepts(docs),
           Install(L, old, Parse(docs)), UNCHANGED <<req, now, back>>
    PROVE  Replaces(L) /\ sets' \in [Limiters -> Seq(Compiled)]
           /\ hist' \in [Limiters \X Ids -> Tenure] /\ Len(sets'[L]) = Len(Parse(docs))
<1> DEFINE ls == Parse(docs)
           m == Len(ls)
           F == {j \in 1..m : Carry(old, ls[j]) = {}}
           fresh(i) == Cardinality({j \in 1..i : Carry(old, ls[j]) = {}})
           obj(i) == IF Carry(old, ls[i]) = {} THEN Len(heap) + fresh(i)
                     ELSE (CHOOSE o \in Carry(old, ls[i]) : TRUE).obj
           kept == {l.id : l \in {k \in ToSet(ls) : Carry(old, k) # {}}}
           n(l) == hist[<<L, l.id>>].n + (IF l.id \in kept THEN 0 ELSE 1)
           ent(i) == [id |-> ls[i].id, shape |-> ls[i].shape, mode |-> ls[i].mode,
                      gated |-> ls[i].gated, obj |-> obj(i), n |-> n(ls[i]), of |-> L]
<1>1. m \in Nat /\ DOMAIN ls = 1..m
  OBVIOUS
<1>2. /\ sets' = [sets EXCEPT ![L] = [i \in 1..m |-> ent(i)]]
      /\ heap' = heap \o [k \in 1..fresh(m) |-> newStrategy]
      /\ EndTenures(L, kept)
  BY <1>1 DEF Install
<1>3. \A i \in 1..m : fresh(i) = Cardinality(F \cap 1..i)
  <2> SUFFICES ASSUME NEW i \in 1..m PROVE {j \in 1..i : Carry(old, ls[j]) = {}} = F \cap 1..i
    OBVIOUS
  <2>1. QED
    BY <1>1
<1>4. fresh(m) = Cardinality(F \cap 1..m) /\ fresh(m) \in Nat
  <2>1. {j \in 1..m : Carry(old, ls[j]) = {}} = F \cap 1..m /\ F \cap 1..m \subseteq 1..m
    OBVIOUS
  <2>2. IsFiniteSet(1..m)
    BY <1>1, FS_Interval
  <2>3. QED
    BY <2>1, <2>2, FS_Subset, FS_CardinalityType
<1>5. /\ \A i \in 1..m : ls[i].id \in Ids /\ ls[i].shape \in Shape /\ ls[i].mode \in STRING
                         /\ ls[i].gated \in BOOLEAN
      /\ \A i, j \in 1..m : ls[i].id = ls[j].id => i = j
  BY AcceptedLimits
<1>6. \A i \in 1..m : ls[i].id \in kept <=> i \notin F
  BY <1>1, <1>5 DEF ToSet
<1>7. ASSUME NEW i \in 1..m, i \notin F
      PROVE  \E o \in Live(L) : /\ o.id = ls[i].id /\ o.shape = ls[i].shape /\ obj(i) = o.obj
                                /\ n(ls[i]) = o.n /\ o.obj \in 1..Len(heap) /\ o.n \in Nat
  <2>1. PICK o : o \in Carry(old, ls[i]) /\ obj(i) = o.obj
    <3>1. Carry(old, ls[i]) # {}
      BY <1>7
    <3>2. (CHOOSE o \in Carry(old, ls[i]) : TRUE) \in Carry(old, ls[i])
      BY <3>1
    <3>3. QED
      BY <3>1, <3>2
  <2>2. o \in Live(L) /\ o.id = ls[i].id /\ o.shape = ls[i].shape
    BY <2>1 DEF Carry
  <2>3. o \in Refs
    BY <2>2, RefsDef
  <2>4. o.n = hist[<<L, ls[i].id>>].n /\ o.obj \in 1..Len(heap) /\ o.n \in Nat
    BY <2>2, <2>3, RefTyped DEF Placed, TenureOf, Compiled
  <2>5. n(ls[i]) = o.n
    <3>1. ls[i].id \in kept
      BY <1>6, <1>7
    <3>2. n(ls[i]) = hist[<<L, ls[i].id>>].n + 0
      BY <3>1
    <3>3. QED
      BY <2>4, <3>2
  <2>6. QED
    BY <2>1, <2>2, <2>4, <2>5
<1>8. ASSUME NEW i \in 1..m, i \in F
      PROVE  /\ obj(i) = Len(heap) + fresh(i) /\ fresh(i) \in 1..fresh(m)
             /\ n(ls[i]) = hist[<<L, ls[i].id>>].n + 1
  BY <1>1, <1>3, <1>4, <1>6, <1>8, CountUpTo
<1>9. \A i, j \in F : i # j => fresh(i) # fresh(j)
  <2>1. F \subseteq 1..m /\ \A i \in F : fresh(i) \in 1..fresh(m)
    BY <1>8
  <2>2. \A i, j \in F : i < j => Cardinality(F \cap 1..i) < Cardinality(F \cap 1..j)
    BY <1>1, <2>1, CountUpTo
  <2> HIDE DEF F, fresh, m
  <2>3. \A i, j \in F : i < j => fresh(i) < fresh(j)
    BY <1>3, <2>1, <2>2
  <2>4. \A i \in F : i \in Nat /\ fresh(i) \in Nat
    BY <1>1, <1>4, <2>1
  <2>5. QED
    BY <2>3, <2>4
<1> HIDE DEF ls, F, fresh, obj, kept, n
<1>10. Len(heap) \in Nat /\ heap \in Seq(Strategy) /\ newStrategy \in Strategy
  BY NamesAssumption DEF Typed, newStrategy, Strategy, Zero
<1>11. /\ heap' \in Seq(Strategy) /\ Len(heap') = Len(heap) + fresh(m)
       /\ \A i \in 1..Len(heap) : heap'[i] = heap[i]
       /\ \A k \in 1..fresh(m) : heap'[Len(heap) + k] = newStrategy
  <2> DEFINE add == [k \in 1..fresh(m) |-> newStrategy]
  <2> DEFINE k0 == fresh(m)
  <2> HIDE DEF k0
  <2>0. k0 \in Nat
    BY <1>4 DEF k0
  <2>1. add \in Seq(Strategy) /\ Len(add) = k0 /\ \A k \in 1..k0 : add[k] = newStrategy
    BY <1>10, <2>0 DEF k0
  <2>2. heap' = heap \o add
    BY <1>2
  <2> HIDE DEF add
  <2>3. /\ heap \o add \in Seq(Strategy) /\ Len(heap \o add) = Len(heap) + Len(add)
        /\ \A i \in 1..Len(heap) : (heap \o add)[i] = heap[i]
        /\ \A k \in 1..Len(add) : (heap \o add)[Len(heap) + k] = add[k]
    BY <1>10, <2>0, <2>1
  <2>4. QED
    BY <2>1, <2>2, <2>3 DEF k0
<1>12. /\ hist' \in [Limiters \X Ids -> Tenure]
       /\ \A M \in Limiters \ {L}, id \in Ids : hist'[<<M, id>>] = hist[<<M, id>>]
       /\ \A id \in Ids : hist'[<<L, id>>] =
            IF id \in kept THEN hist[<<L, id>>]
            ELSE [n |-> hist[<<L, id>>].n + 1, w |-> 0, count |-> Zero]
       /\ \A id \in Ids : hist'[<<L, id>>].n >= hist[<<L, id>>].n
  BY <1>2, TenuresEnd
<1>13. \A i \in 1..m : obj(i) \in Nat /\ n(ls[i]) \in Nat
  <2> SUFFICES ASSUME NEW i \in 1..m PROVE obj(i) \in Nat /\ n(ls[i]) \in Nat
    OBVIOUS
  <2>1. hist[<<L, ls[i].id>>].n \in Nat
    BY <1>5 DEF Typed, Tenure
  <2>2. QED
    BY <1>4, <1>7, <1>8, <1>10, <2>1
<1>14. \A i \in 1..m : ent(i) \in Compiled
  BY <1>5, <1>13 DEF Compiled
<1>15. /\ sets' \in [Limiters -> Seq(Compiled)] /\ Len(sets'[L]) = m
       /\ \A M \in Limiters \ {L} : sets'[M] = sets[M]
       /\ \A e : e \in Live(L)' <=> \E i \in 1..m : e = ent(i)
  <2>1. [i \in 1..m |-> ent(i)] \in Seq(Compiled) /\ Len([i \in 1..m |-> ent(i)]) = m
    BY <1>1, <1>14
  <2>2. sets'[L] = [i \in 1..m |-> ent(i)] /\ sets' \in [Limiters -> Seq(Compiled)]
        /\ \A M \in Limiters \ {L} : sets'[M] = sets[M]
    BY <1>2, <2>1 DEF Typed
  <2>3. QED
    BY <2>1, <2>2 DEF Live, ToSet
<1>16. ASSUME NEW i \in 1..m, i \notin F PROVE Carried(L, ent(i)) /\ ~Started(L, ent(i))
  <2>1. hist'[<<L, ls[i].id>>] = hist[<<L, ls[i].id>>]
    BY <1>5, <1>6, <1>12, <1>16
  <2>2. obj(i) \in Nat /\ obj(i) <= Len(heap)
    BY <1>7, <1>10, <1>16
  <2>3. QED
    BY <1>7, <1>10, <1>16, <2>1, <2>2 DEF Carried, Started
<1>17. ASSUME NEW i \in 1..m, i \in F PROVE Started(L, ent(i))
  <2>1. hist'[<<L, ls[i].id>>] = [n |-> n(ls[i]), w |-> 0, count |-> Zero]
    BY <1>5, <1>6, <1>8, <1>12, <1>17
  <2>2. obj(i) = Len(heap) + fresh(i) /\ fresh(i) \in 1..fresh(m)
    BY <1>8, <1>17
  <2>3. obj(i) \in (Len(heap) + 1)..Len(heap') /\ heap'[obj(i)] = newStrategy
    <3>1. heap'[obj(i)] = newStrategy
      BY <1>11, <2>2
    <3>2. fresh(i) \in Nat /\ fresh(i) >= 1 /\ fresh(i) <= fresh(m) /\ Len(heap') = Len(heap) + fresh(m)
      BY <1>4, <1>11, <2>2
    <3>3. QED
      BY <1>4, <1>10, <2>2, <3>1, <3>2
  <2>4. QED
    BY <1>8, <1>17, <2>1, <2>3 DEF Started
<1>18. ASSUME NEW i \in 1..m, NEW j \in 1..m, i \in F, j \in F
       PROVE (obj(i) = obj(j) <=> i = j) /\ (ls[i].id = ls[j].id <=> i = j)
  <2>1. obj(i) = Len(heap) + fresh(i) /\ obj(j) = Len(heap) + fresh(j)
    BY <1>8, <1>18
  <2>2. fresh(i) \in Nat /\ fresh(j) \in Nat
    <3>1. fresh(i) \in 1..fresh(m) /\ fresh(j) \in 1..fresh(m)
      BY <1>8, <1>18
    <3>2. QED
      BY <1>4, <3>1
  <2>3. fresh(i) = fresh(j) => i = j
    BY <1>9, <1>18
  <2>4. obj(i) = obj(j) => fresh(i) = fresh(j)
    BY <1>10, <2>1, <2>2
  <2>5. QED
    BY <1>5, <2>3, <2>4
<1>19. Replaces(L)
  <2>1. \A e \in Live(L)' : e \in Compiled /\ e.of = L /\ (Carried(L, e) \/ Started(L, e))
    BY <1>14, <1>15, <1>16, <1>17
  <2>2. ASSUME NEW e \in Live(L)', NEW f \in Live(L)', Started(L, e), Started(L, f)
        PROVE  (e.obj = f.obj <=> e = f) /\ (e.id = f.id <=> e = f)
    <3>1. PICK i \in 1..m : e = ent(i)
      BY <1>15
    <3>2. PICK j \in 1..m : f = ent(j)
      BY <1>15
    <3>3. i \in F /\ j \in F
      BY <1>16, <2>2, <3>1, <3>2
    <3>4. QED
      BY <1>18, <3>1, <3>2, <3>3
  <2>3. Len(heap') >= Len(heap)
    BY <1>4, <1>10, <1>11
  <2>4. QED
    BY <1>11, <1>12, <1>15, <2>1, <2>2, <2>3 DEF Replaces
<1>20. QED
  BY <1>12, <1>15, <1>19 DEF ls

\* A rejected batch: the live limits carry themselves on.
LEMMA RejectReplaces ==
    ASSUME Typed, Placed, NEW L \in Limiters, NEW old \in Seq(Compiled), ToSet(old) \subseteq Live(L),
           sets' = [sets EXCEPT ![L] = old], UNCHANGED heap,
           EndTenures(L, {l.id : l \in ToSet(old)}), UNCHANGED <<req, now, back>>
    PROVE  Replaces(L) /\ sets' \in [Limiters -> Seq(Compiled)]
           /\ hist' \in [Limiters \X Ids -> Tenure] /\ sets'[L] = old
<1> DEFINE kept == {l.id : l \in ToSet(old)}
<1>1. /\ sets' \in [Limiters -> Seq(Compiled)] /\ sets'[L] = old
      /\ \A M \in Limiters \ {L} : sets'[M] = sets[M]
  BY DEF Typed
<1>2. Live(L)' = ToSet(old)
  BY <1>1 DEF Live
<1>3. \A e \in ToSet(old) : e.id \in kept /\ e \in Live(L) /\ e \in Compiled /\ e.id \in Ids
  <2>1. \A e \in ToSet(old) : e \in Live(L) /\ e \in Refs
    BY RefsDef
  <2>2. QED
    BY <2>1, RefTyped DEF Compiled
<1> HIDE DEF kept
<1>4. /\ hist' \in [Limiters \X Ids -> Tenure]
      /\ \A M \in Limiters \ {L}, id \in Ids : hist'[<<M, id>>] = hist[<<M, id>>]
      /\ \A id \in Ids : hist'[<<L, id>>] =
           IF id \in kept THEN hist[<<L, id>>]
           ELSE [n |-> hist[<<L, id>>].n + 1, w |-> 0, count |-> Zero]
      /\ \A id \in Ids : hist'[<<L, id>>].n >= hist[<<L, id>>].n
  BY TenuresEnd DEF kept
<1>5. heap' = heap /\ heap \in Seq(Strategy) /\ Len(heap) \in Nat
  BY DEF Typed
<1>6. \A e \in Live(L)' : e \in Compiled /\ e.of = L /\ Carried(L, e) /\ ~Started(L, e)
  <2> SUFFICES ASSUME NEW e \in ToSet(old)
               PROVE  e \in Compiled /\ e.of = L /\ Carried(L, e) /\ ~Started(L, e)
    BY <1>2
  <2>1. e \in Live(L) /\ e \in Compiled /\ e.of = L
    BY <1>3 DEF Placed
  <2>2. hist'[<<L, e.id>>] = hist[<<L, e.id>>]
    BY <1>3, <1>4
  <2>3. e.obj \in Nat /\ e.obj <= Len(heap)
    <3>1. e \in Refs
      BY <2>1, RefsDef
    <3>2. e.obj \in 1..Len(heap)
      BY <3>1 DEF Placed
    <3>3. QED
      BY <1>5, <3>2
  <2>4. ~Started(L, e)
    BY <1>5, <2>3 DEF Started
  <2>5. QED
    BY <2>1, <2>2, <2>4 DEF Carried
<1>7. Replaces(L)
  BY <1>1, <1>4, <1>5, <1>6 DEF Replaces
<1>8. QED
  BY <1>1, <1>4, <1>7

\* SetLimits, whether it accepts the batch or not, and when it leaves a set
\* without limits.
LEMMA SetLimitsReplaces ==
    ASSUME Typed, Placed, NEW L \in Limiters, NEW old \in Seq(Compiled), ToSet(old) \subseteq Live(L),
           NEW docs, Parse(docs) \in Seq(Decoded), SetLimits(L, old, docs),
           UNCHANGED <<req, now, back>>
    PROVE  /\ Replaces(L) /\ sets' \in [Limiters -> Seq(Compiled)]
           /\ hist' \in [Limiters \X Ids -> Tenure]
           /\ Parse(docs) # << >> /\ old # << >> => sets'[L] # << >>
<1>1. CASE Accepts(docs) /\ Install(L, old, Parse(docs))
  <2>1. /\ Replaces(L) /\ sets' \in [Limiters -> Seq(Compiled)]
        /\ hist' \in [Limiters \X Ids -> Tenure] /\ Len(sets'[L]) = Len(Parse(docs))
    BY <1>1, InstallReplaces
  <2>2. Parse(docs) # << >> => Len(Parse(docs)) # 0
    OBVIOUS
  <2>3. QED
    BY <2>1, <2>2
<1>2. CASE /\ sets' = [sets EXCEPT ![L] = old] /\ UNCHANGED heap
           /\ EndTenures(L, {l.id : l \in ToSet(old)})
  BY <1>2, RejectReplaces
<1>3. QED
  BY <1>1, <1>2 DEF SetLimits

\* A step of an Update that sets limits.
LEMMA UpdateSets ==
    ASSUME ControlPlane, Typed, Placed
    PROVE  /\ UpdateGlobal =>
                /\ Replaces("global") /\ sets' \in [Limiters -> Seq(Compiled)]
                /\ hist' \in [Limiters \X Ids -> Tenure]
           /\ \A z \in ZoneKeys : UpdateZone(z) =>
                /\ Replaces(z) /\ sets' \in [Limiters -> Seq(Compiled)]
                /\ hist' \in [Limiters \X Ids -> Tenure]
                /\ Parse(upd.p.zones[z]) # << >> /\ z \in live /\ sets[z] # << >> => sets'[z] # << >>
<1>1. "global" \in Limiters /\ ZoneKeys \subseteq Limiters
  BY DEF Limiters
<1>2. upd.pc \in {"global", "zones"} =>
        IsPayload(upd.p) /\ upd.todo \subseteq DOMAIN upd.p.zones
  BY DEF ControlPlane, UpdateOK
<1>3. ASSUME UpdateGlobal
      PROVE  /\ Replaces("global") /\ sets' \in [Limiters -> Seq(Compiled)]
             /\ hist' \in [Limiters \X Ids -> Tenure]
  <2>1. Parse(upd.p.global) \in Seq(Decoded)
    BY <1>2, <1>3 DEF UpdateGlobal, IsPayload, Batches
  <2>2. sets["global"] \in Seq(Compiled) /\ ToSet(sets["global"]) \subseteq Live("global")
    BY <1>1 DEF Typed, Live
  <2>3. SetLimits("global", sets["global"], upd.p.global) /\ UNCHANGED <<req, now, back>>
    BY <1>3 DEF UpdateGlobal, clock
  <2>4. QED
    BY <1>1, <2>1, <2>2, <2>3, SetLimitsReplaces
<1>4. ASSUME NEW z \in ZoneKeys, UpdateZone(z)
      PROVE  /\ Replaces(z) /\ sets' \in [Limiters -> Seq(Compiled)]
             /\ hist' \in [Limiters \X Ids -> Tenure]
             /\ Parse(upd.p.zones[z]) # << >> /\ z \in live /\ sets[z] # << >> => sets'[z] # << >>
  <2>1. Parse(upd.p.zones[z]) \in Seq(Decoded)
    BY <1>2, <1>4 DEF UpdateZone, IsPayload, Batches
  <2>2. Instance(z) \in Seq(Compiled) /\ ToSet(Instance(z)) \subseteq Live(z)
    BY <1>1 DEF Typed, Live, Instance, ToSet
  <2>3. SetLimits(z, Instance(z), upd.p.zones[z]) /\ UNCHANGED <<req, now, back>>
    BY <1>4 DEF UpdateZone, clock
  <2>4. z \in live => Instance(z) = sets[z]
    BY DEF Instance
  <2>5. QED
    BY <1>1, <2>1, <2>2, <2>3, <2>4, SetLimitsReplaces
<1>5. QED
  BY <1>3, <1>4

-----------------------------------------------------------------------------
(* The limits keep their rate.                                             *)

\* An edge with no limits.
LEMMA LimiterInit == Init => LimiterInv
<1> SUFFICES ASSUME Init PROVE LimiterInv
  OBVIOUS
<1>1. ControlPlane
  BY ControlInit
<1>2. Idle \in Request /\ NoTenure \in Tenure
  BY NamesAssumption DEF Idle, NoTenure, Request, Tenure, Limiters, Zero
<1>3. Typed
  <2>1. back \in BOOLEAN /\ live \subseteq ZoneKeys
        /\ route \in ZoneKeys \cup {Unbound} /\ known \subseteq Hosts /\ held \subseteq Reqs
    BY DEF Init
  <2>2. now \in 0..MaxTime
    <3>1. now = Start
      BY DEF Init
    <3>2. QED
      BY <3>1, NamesAssumption
  <2>3. heap \in Seq(Strategy) /\ sets \in [Limiters -> Seq(Compiled)]
    BY DEF Init
  <2>4. req \in [Reqs -> Request] /\ hist \in [Limiters \X Ids -> Tenure]
    BY <1>2 DEF Init
  <2>5. QED
    BY <2>1, <2>2, <2>3, <2>4 DEF Typed
<1>4. (\A L \in Limiters : Live(L) = {}) /\ (\A r \in Reqs : Pending(r) = {})
  BY DEF Init, Live, Pending, ToSet, Idle
<1>5. Refs = {}
  BY <1>4, RefsDef
<1>6. Placed /\ OneTenure /\ CountsHold
  BY <1>4, <1>5 DEF Placed, OneTenure, CountsHold
<1>7. QED
  BY <1>1, <1>3, <1>6 DEF LimiterInv

\* A step that leaves the sets, the strategies and the requests alone.
LEMMA QuietKeeps ==
    ASSUME LimiterInv, UNCHANGED <<heap, sets, hist, req>>, now' \in 0..MaxTime,
           (back' = back /\ now' >= now) \/ back',
           back' \in BOOLEAN, live' \subseteq ZoneKeys, route' \in ZoneKeys \cup {Unbound},
           known' \subseteq Hosts, held' \subseteq Reqs
    PROVE  Typed' /\ Placed' /\ OneTenure' /\ CountsHold'
<1>1. Typed'
  BY DEF LimiterInv, Typed
<1>2. Refs' = Refs
  BY DEF Refs, Live, Pending
<1>3. QED
  BY <1>1, <1>2, CountersKept DEF LimiterInv

\* Every step keeps the strategies together with their tenures.
LEMMA LimiterStep == ASSUME LimiterInv, [Next]_vars PROVE LimiterInv'
<1>0. ControlPlane' /\ ControlPlane /\ Typed /\ Placed /\ OneTenure /\ CountsHold
  BY ControlStep DEF LimiterInv
<1>1. now \in 0..MaxTime /\ now \in Nat /\ back \in BOOLEAN /\ live \subseteq ZoneKeys
      /\ route \in ZoneKeys \cup {Unbound} /\ known \subseteq Hosts /\ held \subseteq Reqs
  BY <1>0, NamesAssumption DEF Typed
<1>2. CASE Write \/ Reloads
  <2>1. UNCHANGED <<heap, sets, hist, req, now, back, live, route, known, held>>
    BY <1>2 DEF Write, Reloads, SetGlobal, SetZones, SetIngressDerived, clock
  <2>2. QED
    BY <1>0, <1>1, <2>1, QuietKeeps DEF LimiterInv
<1>3. CASE UpdateStarts
  <2>1. UNCHANGED <<heap, sets, hist, req, now, back, live, route>> /\ held' \subseteq held
    BY <1>3 DEF UpdateStarts, clock
  <2>2. known' \subseteq Hosts
    BY <1>0, <1>3, ScopedPayload DEF UpdateStarts, ControlPlane
  <2>3. QED
    BY <1>0, <1>1, <2>1, <2>2, QuietKeeps DEF LimiterInv
<1>4. CASE StoreZones
  <2>1. UNCHANGED <<heap, sets, hist, req, now, back, route, known, held>>
    BY <1>4 DEF StoreZones, clock
  <2>2. live' \subseteq ZoneKeys
    BY <1>0, <1>4 DEF StoreZones, ControlPlane, UpdateOK, IsPayload
  <2>3. QED
    BY <1>0, <1>1, <2>1, <2>2, QuietKeeps DEF LimiterInv
<1>5. CASE UpdateEnds
  <2>1. UNCHANGED <<heap, sets, hist, req, now, back, live, known, held>>
    BY <1>5 DEF UpdateEnds, clock
  <2>2. route' \in ZoneKeys \cup {Unbound}
    BY <1>0, <1>5 DEF UpdateEnds, ControlPlane, UpdateOK, IsPayload
  <2>3. QED
    BY <1>0, <1>1, <2>1, <2>2, QuietKeeps DEF LimiterInv
<1>6. ASSUME NEW L \in Limiters, Replaces(L), sets' \in [Limiters -> Seq(Compiled)],
             hist' \in [Limiters \X Ids -> Tenure], UNCHANGED <<live, route, known, held>>
      PROVE  LimiterInv'
  <2>1. Placed' /\ OneTenure' /\ CountsHold'
    BY <1>0, <1>6, ReplacesKeeps
  <2>2. heap' \in Seq(Strategy) /\ UNCHANGED <<req, now, back>>
    BY <1>6 DEF Replaces
  <2>3. Typed'
    BY <1>0, <1>6, <2>2 DEF Typed
  <2>4. QED
    BY <1>0, <2>1, <2>3 DEF LimiterInv
<1>7. CASE UpdateGlobal
  <2>1. UNCHANGED <<live, route, known, held>> /\ "global" \in Limiters
    BY <1>7 DEF UpdateGlobal, Limiters
  <2>2. QED
    BY <1>0, <1>6, <1>7, <2>1, UpdateSets
<1>8. CASE \E z \in ZoneKeys : UpdateZone(z)
  <2>1. PICK z \in ZoneKeys : UpdateZone(z)
    BY <1>8
  <2>2. UNCHANGED <<live, route, known, held>> /\ z \in Limiters
    BY <2>1 DEF UpdateZone, Limiters
  <2>3. QED
    BY <1>0, <1>6, <2>1, <2>2, UpdateSets
<1>9. CASE \E r \in Reqs : Serve(r)
  <2>1. PICK r \in Reqs : Serve(r)
    BY <1>9
  <2>2. /\ Moves(r) /\ held' \subseteq Reqs
        /\ UNCHANGED <<now, back, sets, live, route, known>>
        /\ TakeStep(r) \/ UNCHANGED <<heap, hist>>
    BY <1>0, <2>1, ServeMoves
  <2>3. req' \in [Reqs -> Request] /\ Refs' \subseteq Refs
    BY <1>0, <2>2, MovesKeep
  <2>4. /\ heap' \in Seq(Strategy) /\ hist' \in [Limiters \X Ids -> Tenure]
        /\ Placed' /\ OneTenure' /\ CountsHold'
    <3>1. CASE TakeStep(r)
      BY <1>0, <3>1, TakeStepKeeps
    <3>2. CASE UNCHANGED <<heap, hist>>
      <4>1. Placed' /\ OneTenure' /\ CountsHold'
        BY <1>0, <1>1, <2>2, <2>3, <3>2, CountersKept
      <4>2. QED
        BY <1>0, <3>2, <4>1 DEF Typed
    <3>3. QED
      BY <2>2, <3>1, <3>2
  <2>5. Typed'
    BY <1>0, <2>2, <2>3, <2>4 DEF Typed
  <2>6. QED
    BY <1>0, <2>4, <2>5 DEF LimiterInv
<1>10. CASE Tick
  <2>1. UNCHANGED <<heap, sets, hist, req, back, live, route, known, held>>
        /\ now < MaxTime /\ now' = now + 1
    BY <1>10 DEF Tick, config
  <2>2. now' \in 0..MaxTime /\ now' >= now
    BY <1>1, <2>1, NamesAssumption
  <2>3. QED
    BY <1>0, <1>1, <2>1, <2>2, QuietKeeps DEF LimiterInv
<1>11. CASE ClockBack
  <2>1. UNCHANGED <<heap, sets, hist, req, live, route, known, held>> /\ back' = TRUE
    BY <1>11 DEF ClockBack, config
  <2>2. now' \in 0..MaxTime
    BY <1>1, <1>11, NamesAssumption DEF ClockBack
  <2>3. QED
    BY <1>0, <1>1, <2>1, <2>2, QuietKeeps DEF LimiterInv
<1>12. CASE UNCHANGED vars
  <2>1. UNCHANGED <<heap, sets, hist, req, now, back, live, route, known, held>>
    BY <1>12 DEF vars
  <2>2. QED
    BY <1>0, <1>1, <2>1, QuietKeeps DEF LimiterInv
<1>13. QED
  BY <1>2, <1>3, <1>4, <1>5, <1>7, <1>8, <1>9, <1>10, <1>11, <1>12 DEF Next, Update

\* The invariant holds in every reachable state.
LEMMA LimiterAlways == Spec => []LimiterInv
<1>1. LimiterInv /\ [Next]_vars => LimiterInv'
  BY LimiterStep
<1>2. QED
  BY <1>1, LimiterInit, PTL DEF Spec

\* Spec => []TypeOK: the edge and its Limiters keep their types, and every limit
\* of a set or of a request refers to a strategy that exists.
THEOREM TypeCorrect == Spec => []TypeOK
<1>1. LimiterInv => TypeOK
  <2> SUFFICES ASSUME LimiterInv PROVE TypeOK
    OBVIOUS
  <2>1. /\ cluster \in Contents /\ listed \subseteq Contents /\ writes \in 0..MaxWrites
        /\ DOMAIN store.zones \subseteq ZoneKeys /\ updates \in 0..MaxUpdates
    BY DEF LimiterInv, ControlPlane, IsPayload
  <2>2. /\ now \in 0..MaxTime /\ back \in BOOLEAN /\ DOMAIN sets = Limiters
        /\ live \subseteq ZoneKeys /\ route \in ZoneKeys \cup {Unbound}
        /\ known \subseteq Hosts /\ held \subseteq Reqs
    BY DEF LimiterInv, Typed
  <2>3. heap \in Seq(Strategy) /\ DOMAIN heap = 1..Len(heap)
    BY DEF LimiterInv, Typed
  <2>4. \A i \in DOMAIN heap : heap[i] \in Strategy
    BY <2>3
  <2>5. \A e \in Refs : e.id \in Ids /\ e.obj \in DOMAIN heap
    <3>1. \A e \in Refs : e \in Compiled
      BY RefTyped DEF LimiterInv
    <3>2. QED
      BY <2>3, <3>1 DEF LimiterInv, Placed, Compiled
  <2>6. \A L \in Limiters : \A i \in DOMAIN sets[L] : sets[L][i] \in Refs
    BY RefsDef DEF Live, ToSet
  <2>7. \A r \in Reqs : \A i \in DOMAIN req[r].todo : req[r].todo[i] \in Refs
    BY RefsDef DEF Pending, ToSet
  <2>8. \A r \in Reqs : req[r].pc \in {"idle", "walk", "lookup"}
    BY DEF LimiterInv, Typed, Request
  <2>9. QED
    BY <2>1, <2>2, <2>4, <2>5, <2>6, <2>7, <2>8 DEF TypeOK, Strategy
<1>2. QED
  BY <1>1, LimiterAlways, PTL

\* Spec => []RateHeld: for every set of requests, hosts, zones and contents, a
\* limit whose id and shape stay in the live set admits at most Rate requests
\* per key and window (SetLimits, Take), through any number of reloads.
THEOREM RateHeldHolds == Spec => []RateHeld
<1>1. LimiterInv => RateHeld
  <2> SUFFICES ASSUME LimiterInv, NEW L \in Limiters, NEW i \in DOMAIN sets[L],
                      sets[L][i].shape.alg = "sliding" \/ ~back, NEW b \in Buckets
               PROVE  hist[<<L, sets[L][i].id>>].count[b] <= sets[L][i].shape.rate
    BY DEF RateHeld
  <2>1. sets[L][i] \in Live(L)
    BY DEF Live, ToSet
  <2>2. Counts(sets[L][i]) /\ sets[L][i].of = L
    BY <2>1 DEF LimiterInv, CountsHold, Placed
  <2>3. QED
    BY <2>2 DEF Counts, TenureOf
<1>2. QED
  BY <1>1, LimiterAlways, PTL

-----------------------------------------------------------------------------
(* Retry-After.                                                            *)

\* A strategy rolled to a window w, and from there on to a later one v.
LEMMA RollTwice ==
    ASSUME NEW s \in Strategy, NEW w \in Nat, NEW v \in Nat, w <= v, roll(s, w).window = w
    PROVE  /\ roll(s, w).prev \in [Buckets -> Nat] /\ roll(s, w).cur \in [Buckets -> Nat]
           /\ v = w => roll(roll(s, w), v) = roll(s, w)
           /\ v = w + 1 => /\ roll(roll(s, w), v).prev = roll(s, w).cur
                           /\ roll(roll(s, w), v).cur = Zero
           /\ v > w + 1 => /\ roll(roll(s, w), v).prev = Zero
                           /\ roll(roll(s, w), v).cur = Zero
<1>1. s.window \in Nat /\ s.cur \in [Buckets -> Nat] /\ s.prev \in [Buckets -> Nat]
      /\ Zero \in [Buckets -> Nat]
  BY NamesAssumption DEF Strategy, Zero
<1> DEFINE n == roll(s, w)
<1>2. n.prev \in [Buckets -> Nat] /\ n.cur \in [Buckets -> Nat]
  <2>1. CASE w <= s.window
    BY <1>1, <2>1 DEF roll
  <2>2. CASE w = s.window + 1
    <3>1. n = [window |-> w, cur |-> Zero, prev |-> s.cur]
      BY <1>1, <2>2 DEF roll
    <3>2. QED
      BY <1>1, <3>1
  <2>3. CASE w > s.window + 1
    <3>1. n = [window |-> w, cur |-> Zero, prev |-> Zero]
      BY <1>1, <2>3 DEF roll
    <3>2. QED
      BY <1>1, <3>1
  <2>4. QED
    BY <1>1, <2>1, <2>2, <2>3
<1>3. n.window = w
  OBVIOUS
<1> HIDE DEF n
<1>4. v = w => roll(n, v) = n
  BY <1>3 DEF roll
<1>5. v = w + 1 => roll(n, v) = [window |-> v, cur |-> Zero, prev |-> n.cur]
  BY <1>3 DEF roll
<1>6. v > w + 1 => roll(n, v) = [window |-> v, cur |-> Zero, prev |-> Zero]
  BY <1>3 DEF roll
<1>7. QED
  BY <1>2, <1>4, <1>5, <1>6 DEF n

\* The wait is never negative.
LEMMA AfterNat ==
    ASSUME NEW max \in Nat \ {0}, NEW prev \in Nat, NEW cur \in Nat,
           NEW size \in Nat \ {0}, NEW t \in Nat
    PROVE  afterAt(max, prev, cur, size, t) \in Nat
<1> DEFINE e == t % size
           free == max - cur - 1
<1>1. e \in Nat /\ e < size
  BY DivMod
<1> HIDE DEF e
<1>2. CASE CanTake(max, prev, cur, t, size)
  BY <1>2 DEF afterAt
<1>3. CASE /\ ~CanTake(max, prev, cur, t, size)
           /\ prev > 0 /\ free > 0 /\ prev * e < size * (prev - free)
  <2> DEFINE x == size * (prev - free)
             k == x \div prev
  <2>1. prev * e < x /\ x \in Int /\ prev * e \in Nat
    BY <1>1, <1>3
  <2>2. x \in Nat
    <3> HIDE DEF x
    <3>1. QED
      BY <2>1
  <2>3. k \in Nat /\ x < prev * (k + 1)
    BY <1>3, <2>2, DivAbove
  <2>4. afterAt(max, prev, cur, size, t) = k - e + 1
    BY <1>3 DEF afterAt, e
  <2> HIDE DEF k, x
  <2>5. prev * e < prev * (k + 1)
    BY <1>1, <2>1, <2>2, <2>3
  <2>6. e < k + 1
    <3>1. CASE k + 1 <= e
      <4>1. prev * (k + 1) <= prev * e
        BY <1>1, <2>3, <3>1, TimesMonotone
      <4>2. prev * (k + 1) \in Int /\ prev * e \in Int
        BY <1>1, <2>3
      <4>3. QED
        BY <2>5, <4>1, <4>2
    <3>2. QED
      BY <1>1, <2>3, <3>1
  <2>7. QED
    BY <1>1, <2>3, <2>4, <2>6
<1>4. CASE /\ ~CanTake(max, prev, cur, t, size) /\ free >= 0
           /\ ~(prev > 0 /\ free > 0 /\ prev * e < size * (prev - free))
  <2>1. afterAt(max, prev, cur, size, t) = size - e
    BY <1>4 DEF afterAt, ToBoundary, e
  <2>2. QED
    BY <1>1, <2>1
<1>5. CASE ~CanTake(max, prev, cur, t, size) /\ free < 0
  <2> DEFINE x == size * (cur - (max - 1))
             k == x \div cur
  <2>1. x \in Nat /\ cur \in Nat \ {0}
    BY <1>5
  <2>2. k \in Nat
    BY <2>1, DivMod
  <2>3. afterAt(max, prev, cur, size, t) = size - e + k + 1
    BY <1>5 DEF afterAt, ToBoundary, e
  <2> HIDE DEF k
  <2>4. QED
    BY <1>1, <2>2, <2>3
<1>6. QED
  BY <1>2, <1>3, <1>4, <1>5

\* Spec => []AfterHonest: for every rate, window and count, the Retry-After of a
\* denial (AfterAt, rounded up to seconds) ends where the limit admits again.
THEOREM AfterHonestHolds == Spec => []AfterHonest
<1>1. LimiterInv => AfterHonest
  <2> SUFFICES ASSUME LimiterInv, NEW L \in Limiters, NEW i \in DOMAIN sets[L], NEW b \in Buckets
               PROVE  LET l == sets[L][i]
                          size == l.shape.size
                          s == roll(heap[l.obj], now \div size)
                          t == now + RetryAfter(afterAt(l.shape.rate, s.prev[b], s.cur[b], size, now))
                          s2 == roll(s, t \div size)
                      IN l.shape.alg = "sliding" /\ s.window = now \div size
                           => CanTake(l.shape.rate, s2.prev[b], s2.cur[b], t, size)
    BY Zenon DEF AfterHonest
  <2> DEFINE l == sets[L][i]
             max == l.shape.rate
             size == l.shape.size
             w == now \div size
             s == roll(heap[l.obj], w)
             wait == afterAt(max, s.prev[b], s.cur[b], size, now)
             t == now + RetryAfter(wait)
             v == t \div size
             s2 == roll(s, v)
  <2> SUFFICES ASSUME s.window = w PROVE CanTake(max, s2.prev[b], s2.cur[b], t, size)
    OBVIOUS
  <2>1. l \in Live(L)
    BY DEF Live, ToSet
  <2>2. l \in Refs
    BY <2>1, RefsDef
  <2>3. l \in Compiled /\ heap[l.obj] \in Strategy
    <3>1. l.obj \in 1..Len(heap) /\ heap \in Seq(Strategy)
      BY <2>2 DEF LimiterInv, Placed, Typed
    <3>2. heap[l.obj] \in Strategy
      BY <3>1
    <3>3. QED
      BY <2>2, <3>2, RefTyped DEF LimiterInv
  <2>4. max \in Nat \ {0} /\ size \in Nat \ {0} /\ now \in Nat
    BY <2>3, NamesAssumption DEF Compiled, Shape, LimiterInv, Typed
  <2> HIDE DEF l, max, size
  <2>5. w \in Nat
    BY <2>4, DivMod
  <2>6. s.prev \in [Buckets -> Nat] /\ s.cur \in [Buckets -> Nat]
    BY <2>3, <2>5, RollTwice
  <2>7. s.prev[b] \in Nat /\ s.cur[b] \in Nat
    BY <2>6
  <2> HIDE DEF s
  <2>8. wait \in Nat
    BY <2>4, <2>7, AfterNat
  <2> HIDE DEF wait
  <2>9. RetryAfter(wait) \in Nat /\ RetryAfter(wait) >= wait
    BY <2>8, RetryAfterCovers
  <2>10. t \in Nat /\ t >= now + wait /\ t >= now
    BY <2>4, <2>8, <2>9
  <2> HIDE DEF t
  <2>11. v \in Nat /\ w <= v
    BY <2>4, <2>10, DivMod, DivMonotone
  <2>12. /\ v = w => CanTake(max, s.prev[b], s.cur[b], t, size)
         /\ v = w + 1 => CanTake(max, s.cur[b], 0, t, size)
         /\ CanTake(max, 0, 0, t, size)
    BY <2>4, <2>7, <2>10, AfterCovers DEF wait
  <2> HIDE DEF v, w
  <2>13. /\ v = w => s2 = s
         /\ v = w + 1 => s2.prev = s.cur /\ s2.cur = Zero
         /\ v > w + 1 => s2.prev = Zero /\ s2.cur = Zero
    BY <2>3, <2>5, <2>11, RollTwice DEF s
  <2> HIDE DEF s2
  <2>14. Zero[b] = 0
    BY DEF Zero
  <2>15. QED
    BY <2>5, <2>11, <2>12, <2>13, <2>14
<1>2. QED
  BY <1>1, LimiterAlways, PTL

-----------------------------------------------------------------------------
(* A bound route is limited.                                               *)

\* Where a request is after its step, and whether it is still to be limited.
LEMMA HeldServe ==
    ASSUME Typed, HeldInv, NEW r \in Reqs, Serve(r)
    PROVE  /\ \A s \in held' \ {r} : s \in held /\ req'[s] = req[s]
           /\ r \in held' => /\ req'[r].pc = "walk" => req'[r].of = "global"
                             /\ req'[r].pc = "lookup" => req'[r].of = route
                             /\ req'[r].pc # "idle"
           /\ held' # {} => held # {} \/ (upd.pc = "idle" /\ route # Unbound /\ route \in live
                                          /\ sets[route] # << >>)
           /\ r \in held /\ req[r].todo = << >> => req'[r].pc # "idle"
<1>1. req \in [Reqs -> Request] /\ DOMAIN req = Reqs
  BY DEF Typed
<1>2. \A q : Advance(r, q) => req'[r] = q /\ \A s \in Reqs \ {r} : req'[s] = req[s]
  BY <1>1 DEF Advance
<1>3. held \subseteq Reqs /\ held' \subseteq Reqs
  BY ServeMoves DEF Typed
<1>4. ASSUME Leave(r)
      PROVE  (\A s \in held' \ {r} : s \in held /\ req'[s] = req[s]) /\ r \notin held'
             /\ (held' # {} => held # {})
  BY <1>2, <1>3, <1>4 DEF Leave
<1>5. CASE Arrive(r)
  <2>1. PICK h \in Hosts :
          Advance(r, [pc |-> "walk", host |-> h, of |-> "global", todo |-> sets["global"]])
    BY <1>5 DEF Arrive
  <2>2. req'[r].pc = "walk" /\ req'[r].of = "global" /\ \A s \in Reqs \ {r} : req'[s] = req[s]
    BY <1>2, <2>1
  <2>3. \A s \in held' \ {r} : s \in held
    BY <1>5 DEF Arrive
  <2>4. held' # {} => held # {} \/ (upd.pc = "idle" /\ route # Unbound /\ route \in live
                                    /\ sets[route] # << >>)
    BY <1>5 DEF Arrive
  <2>5. QED
    BY <1>3, <2>2, <2>3, <2>4
<1>6. ASSUME Walking(r), NextLimit(r), ~Leave(r)
      PROVE  (\A s \in held' \ {r} : s \in held /\ req'[s] = req[s]) /\ held' = held
             /\ req'[r].pc = req[r].pc /\ req'[r].of = req[r].of
  <2>1. Advance(r, [req[r] EXCEPT !.todo = Tail(@)]) /\ held' = held
    BY <1>6 DEF NextLimit
  <2>2. req[r] \in Request
    BY <1>1
  <2>3. req'[r].pc = req[r].pc /\ req'[r].of = req[r].of
    BY <1>2, <2>1, <2>2 DEF Request
  <2>4. QED
    BY <1>2, <1>3, <2>1, <2>3
<1>7. ASSUME Walking(r), NextLimit(r) \/ Leave(r)
      PROVE  /\ \A s \in held' \ {r} : s \in held /\ req'[s] = req[s]
             /\ r \in held' => /\ req'[r].pc = "walk" => req'[r].of = "global"
                               /\ req'[r].pc = "lookup" => req'[r].of = route
                               /\ req'[r].pc # "idle"
             /\ held' # {} => held # {}
  BY <1>4, <1>6, <1>7 DEF HeldInv
<1>8. CASE Skip(r) \/ TakeStep(r)
  <2>1. Walking(r) /\ (NextLimit(r) \/ Leave(r))
    BY <1>8 DEF Skip, TakeStep
  <2>2. req[r].todo # << >>
    BY <2>1 DEF Walking
  <2>3. QED
    BY <1>7, <2>1, <2>2
<1>9. CASE Resolve(r)
  <2>1. CASE route = Unbound
    BY <1>4, <1>9, <2>1 DEF Resolve, HeldInv
  <2>2. CASE route # Unbound
    <3>1. Advance(r, [req[r] EXCEPT !.pc = "lookup", !.of = route]) /\ held' = held
      BY <1>9, <2>2 DEF Resolve
    <3>2. req'[r].pc = "lookup" /\ req'[r].of = route /\ \A s \in Reqs \ {r} : req'[s] = req[s]
      <4>1. req[r] \in Request
        BY <1>1
      <4>2. [req[r] EXCEPT !.pc = "lookup", !.of = route].pc = "lookup"
            /\ [req[r] EXCEPT !.pc = "lookup", !.of = route].of = route
        BY <4>1 DEF Request
      <4>3. QED
        BY <1>2, <3>1, <4>2
    <3>3. QED
      BY <1>3, <3>1, <3>2
  <2>3. QED
    BY <2>1, <2>2
<1>10. CASE LookupZone(r)
  <2>1. CASE req[r].of \in live /\ sets[req[r].of] # << >>
    <3>1. Advance(r, [req[r] EXCEPT !.pc = "walk", !.todo = sets[req[r].of]]) /\ held' = held \ {r}
      BY <1>10, <2>1 DEF LookupZone
    <3>2. req'[r].pc = "walk" /\ \A s \in Reqs \ {r} : req'[s] = req[s]
      <4>1. req[r] \in Request
        BY <1>1
      <4>2. [req[r] EXCEPT !.pc = "walk", !.todo = sets[req[r].of]].pc = "walk"
        BY <4>1 DEF Request
      <4>3. QED
        BY <1>2, <3>1, <4>2
    <3>3. QED
      BY <1>3, <3>1, <3>2
  <2>2. CASE ~(req[r].of \in live /\ sets[req[r].of] # << >>)
    <3>1. Leave(r) /\ req[r].pc = "lookup"
      BY <1>10, <2>2 DEF LookupZone
    <3>2. r \notin held
      BY <2>2, <3>1 DEF HeldInv
    <3>3. QED
      BY <1>4, <3>1, <3>2
  <2>3. QED
    BY <2>1, <2>2
<1>11. QED
  BY <1>5, <1>8, <1>9, <1>10 DEF Serve

\* Nobody is to be limited at first.
LEMMA HeldInit == Init => HeldInv
  BY DEF Init, HeldInv

\* A zone that a request is to meet stays published and keeps limits.
LEMMA HeldStep == ASSUME LimiterInv, HeldInv, [Next]_vars PROVE HeldInv'
<1>0. ControlPlane /\ Typed /\ Placed
  BY DEF LimiterInv
<1>1. ASSUME UNCHANGED <<route, live, sets, upd, req, held>> PROVE HeldInv'
  BY <1>1 DEF HeldInv, Binds
<1>2. CASE Write \/ Reloads \/ Tick \/ ClockBack \/ UNCHANGED vars
  <2>1. UNCHANGED <<route, live, sets, upd, req, held>>
    BY <1>2 DEF Write, Reloads, SetGlobal, SetZones, SetIngressDerived, Tick, ClockBack, config, vars
  <2>2. QED
    BY <1>1, <2>1
<1>3. CASE UpdateStarts
  <2>1. UNCHANGED <<route, live, sets, req>> /\ upd'.p = scoped
    BY <1>3 DEF UpdateStarts
  <2>2. held' # {} => held' = held /\ Binds(scoped) /\ scoped.route = route
    BY <1>3 DEF UpdateStarts
  <2>3. QED
    BY <2>1, <2>2 DEF HeldInv, Binds
<1>4. CASE UpdateGlobal
  <2>1. /\ UNCHANGED <<route, live, req, held>> /\ upd'.p = upd.p /\ upd.pc = "global"
        /\ \A z \in ZoneKeys : sets'[z] = sets[z]
    <3>1. Replaces("global")
      BY <1>0, <1>4, UpdateSets
    <3>2. \A z \in ZoneKeys : z \in Limiters \ {"global"}
      BY NamesAssumption DEF Limiters
    <3>3. UNCHANGED <<route, live, req, held>> /\ upd.pc = "global"
          /\ upd' = [upd EXCEPT !.pc = "zones", !.ok = Accepts(upd.p.global)]
      BY <1>4 DEF UpdateGlobal
    <3>4. upd'.p = upd.p
      BY <1>0, <3>3 DEF ControlPlane, UpdateOK
    <3>5. QED
      BY <3>1, <3>2, <3>3, <3>4 DEF Replaces
  <2>2. route # Unbound => route \in ZoneKeys
    BY <1>0 DEF Typed
  <2>3. QED
    BY <2>1, <2>2 DEF HeldInv, Binds
<1>5. CASE \E z \in ZoneKeys : UpdateZone(z)
  <2>1. PICK z \in ZoneKeys : UpdateZone(z)
    BY <1>5
  <2>2. /\ UNCHANGED <<route, live, req, held>> /\ upd.pc = "zones"
        /\ upd' = [upd EXCEPT !.todo = @ \ {z}, !.ok = @ /\ Accepts(upd.p.zones[z])]
    BY <2>1 DEF UpdateZone
  <2>3. upd'.p = upd.p
    BY <1>0, <2>2 DEF ControlPlane, UpdateOK
  <2>4. /\ Replaces(z)
        /\ Parse(upd.p.zones[z]) # << >> /\ z \in live /\ sets[z] # << >> => sets'[z] # << >>
    BY <1>0, <2>1, UpdateSets
  <2>5. route # Unbound => route \in Limiters
    BY <1>0 DEF Typed, Limiters
  <2>6. held # {} => sets'[route] # << >>
    <3>1. CASE route = z
      BY <2>2, <2>4, <3>1 DEF HeldInv, Binds
    <3>2. CASE route # z
      BY <2>4, <2>5, <3>2 DEF HeldInv, Replaces
    <3>3. QED
      BY <3>1, <3>2
  <2>7. QED
    BY <2>2, <2>3, <2>6 DEF HeldInv, Binds
<1>6. CASE StoreZones
  <2>1. UNCHANGED <<route, sets, req, held>> /\ upd.pc = "zones" /\ live' = DOMAIN upd.p.zones
        /\ upd' = [upd EXCEPT !.pc = "matcher"]
    BY <1>6 DEF StoreZones
  <2>2. upd'.p = upd.p
    BY <1>0, <2>1 DEF ControlPlane, UpdateOK
  <2>3. QED
    BY <2>1, <2>2 DEF HeldInv, Binds
<1>7. CASE UpdateEnds
  <2>1. UNCHANGED <<live, sets, req, held>> /\ upd.pc = "matcher" /\ route' = upd.p.route
        /\ upd' = [pc |-> "idle"]
    BY <1>7 DEF UpdateEnds
  <2>2. held # {} => route' = route
    BY <2>1 DEF HeldInv
  <2>3. QED
    BY <2>1, <2>2 DEF HeldInv
<1>8. CASE \E r \in Reqs : Serve(r)
  <2>1. PICK r \in Reqs : Serve(r)
    BY <1>8
  <2>2. UNCHANGED <<route, live, sets, upd>>
    BY <2>1 DEF Serve, Arrive, Skip, TakeStep, Resolve, LookupZone, config
  <2>3. /\ \A s \in held' \ {r} : s \in held /\ req'[s] = req[s]
        /\ r \in held' => /\ req'[r].pc = "walk" => req'[r].of = "global"
                          /\ req'[r].pc = "lookup" => req'[r].of = route
                          /\ req'[r].pc # "idle"
        /\ held' # {} => held # {} \/ (upd.pc = "idle" /\ route # Unbound /\ route \in live
                                       /\ sets[route] # << >>)
    BY <1>0, <2>1, HeldServe
  <2>4. held' # {} => /\ route # Unbound /\ route \in live /\ sets[route] # << >>
                      /\ upd.pc # "idle" => upd.p.route = route /\ Binds(upd.p)
    BY <2>3 DEF HeldInv
  <2>5. \A s \in held' : /\ req'[s].pc = "walk" => req'[s].of = "global"
                         /\ req'[s].pc = "lookup" => req'[s].of = route
                         /\ req'[s].pc # "idle"
    BY <2>3 DEF HeldInv
  <2>6. QED
    BY <2>2, <2>4, <2>5 DEF HeldInv, Binds
<1>9. QED
  BY <1>2, <1>3, <1>4, <1>5, <1>6, <1>7, <1>8 DEF Next, Update

\* Spec => BoundRouteLimited: for every interleaving of requests with the steps
\* of Update, a request whose route stays bound to a zone with limits meets them.
THEOREM BoundRouteHolds == Spec => BoundRouteLimited
<1>1. ASSUME LimiterInv, HeldInv, [Next]_vars
      PROVE  [\A r \in held : req[r].todo = << >> => req'[r].pc # "idle"]_vars
  <2>1. Typed /\ held \subseteq Reqs
    BY <1>1 DEF LimiterInv, Typed
  <2>2. CASE \E r \in Reqs : Serve(r)
    <3>1. PICK r \in Reqs : Serve(r)
      BY <2>2
    <3>2. r \in held /\ req[r].todo = << >> => req'[r].pc # "idle"
      BY <1>1, <2>1, <3>1, HeldServe
    <3>3. \A s \in held \ {r} : req'[s] = req[s]
      <4>1. \E q : req' = [req EXCEPT ![r] = q]
        BY <2>1, <3>1, ServeMoves DEF Moves
      <4>2. QED
        BY <2>1, <4>1 DEF Typed
    <3>4. QED
      BY <1>1, <3>2, <3>3 DEF HeldInv
  <2>3. CASE UNCHANGED req
    BY <1>1, <2>3 DEF HeldInv
  <2>4. QED
    <3>1. (\E r \in Reqs : Serve(r)) \/ UNCHANGED req \/ UNCHANGED vars
      BY <1>1 DEF Next, Update, Write, Reloads, SetGlobal, SetZones, SetIngressDerived,
                  UpdateStarts, UpdateGlobal, StoreZones, UpdateEnds, UpdateZone, Tick, ClockBack
    <3>2. QED
      BY <2>2, <2>3, <3>1
<1>2. LimiterInv /\ HeldInv /\ [Next]_vars => HeldInv'
  BY HeldStep
<1>3. QED
  BY <1>1, <1>2, HeldInit, LimiterAlways, PTL DEF Spec, BoundRouteLimited
=============================================================================
