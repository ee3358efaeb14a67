-------------------------- MODULE RequestPathProofs --------------------------
(***************************************************************************)
(* Proofs about a Service's requests, for any number of concurrent         *)
(* requests, any pods, any address list and any limit of retries that is   *)
(* not below the number of pods.                                           *)
(*                                                                         *)
(* RequestInv says which kinds of request meet which transport, and is     *)
(* enough for OnceOnly.  ProbeInv and GaugeInv tie the shared marker and   *)
(* the gauge to the requests that hold them: every step of a request       *)
(* changes both sides together.  HealthyInv is what ReachesHealthyPod      *)
(* needs: each failed attempt of a request has marked an address of its    *)
(* own, so that after i failures at least i addresses are marked.          *)
(***************************************************************************)
EXTENDS RequestPath, FiniteSetTheorems, WellFoundedInduction, TLAPS

\* Which kinds of request meet which transport: nothing but a WebSocket takes
\* a tunnel, nothing with a body and no upgrade probes, no upgrade goes warm.
KindOK(q) ==
    /\ q.pc \in {"cold", "probe"} => q.kind = "plain"
    /\ q.pc = "warm" => q.kind \in {"plain", "body"}
    /\ q.pc \in {"wsh1", "wsh2", "tunnel"} => q.kind = "ws"
    /\ q.body # "none" => q.kind = "body"

\* What OnceOnly says of one request; only an attempt is sent.
OnceOK(q) ==
    /\ q.got => q.pc = "tunnel"
    /\ q.body = "read" => q.sent # "no"
    /\ q.sent # "no" => q.pc \in Wires

\* The marker is carried from the probe into its fallback and no further.
ProberOK(q) ==
    /\ q.pc = "probe" => q.prober
    /\ q.prober => q.pc \in {"probe", "h1"}

\* The connections the gauge counts.
Counts(q) ==
    \/ q.pc = "wsh1" /\ q.sent # "no"
    \/ q.pc = "tunnel" /\ "conn" \in q.tun

Counted == {r \in Reqs : Counts(req[r])}

Parts == {"up", "main", "stream", "conn", "xc", "eof", "gone",
          "upfull", "downfull"}

ReqType ==
    [pc : {"idle", "serve", "cold", "backoff", "tunnel"} \cup Wires,
     kind : Kinds, i : 0..(MaxRetry - 1), pod : Pods \cup {NoPod},
     sent : {"no", "yes", "dead"}, body : {"none", "unread", "read", "closed"},
     prober : BOOLEAN, got : BOOLEAN, good : SUBSET Pods,
     tun : SUBSET Parts,
     gaveup : BOOLEAN]

SharedType ==
    /\ cfg \in Configs /\ route \in Routes /\ cur \in 0..(Wrap - 1)
    /\ bad \subseteq Pods
    /\ proto \in [Pods -> SUBSET {"h1", "h2", "ws"}]
    /\ verdict \in {"none", "h2c", "h1"} /\ probing \in BOOLEAN
    /\ wsneg \subseteq Pods \cup {"svc"}
    /\ gauge \in Int /\ rolls \in 0..MaxRolls

RequestOK(q) == q \in ReqType /\ KindOK(q) /\ OnceOK(q) /\ ProberOK(q)

RequestInv == SharedType /\ req \in [Reqs -> ReqType] /\ \A r \in Reqs : RequestOK(req[r])

\* The step of one request: it becomes q, and counter and marker follow.
Move(r, q) ==
    /\ RequestOK(q)
    /\ req' = [req EXCEPT ![r] = q]
    /\ \/ (Counts(q) <=> Counts(req[r])) /\ gauge' = gauge
       \/ Counts(q) /\ ~Counts(req[r]) /\ gauge' = gauge + 1
       \/ ~Counts(q) /\ Counts(req[r]) /\ gauge' = gauge - 1
    /\ \/ (q.prober <=> req[r].prober) /\ probing' = probing
       \/ q.prober /\ ~req[r].prober /\ ~probing /\ probing'
       \/ ~q.prober /\ req[r].prober /\ ~probing'

-----------------------------------------------------------------------------
\* A set of naturals that is not empty has a least element.
LEMMA LeastOf ==
    ASSUME NEW S \in SUBSET Nat, S # {}
    PROVE  \E k \in S : \A j \in S : k <= j
<1>1. PICK k \in S : \A j \in S : ~(<<j, k>> \in OpToRel(<, Nat))
  BY NatLessThanWellFounded, WFMin
<1>2. \A j \in S : ~(j < k)
  BY <1>1 DEF OpToRel
<1> QED
  BY <1>2

\* Going round a list of l addresses from p reaches each of them.
LEMMA RoundRobin ==
    ASSUME NEW l \in Nat \ {0}, NEW p \in 0..(l - 1), NEW m \in 0..(l - 1)
    PROVE  \E k \in 0..(l - 1) : (p + k) % l = m
<1>1. m % l = m /\ (m + l) % l = m
  OBVIOUS
<1>2. CASE m >= p
  <2>1. m - p \in 0..(l - 1) /\ p + (m - p) = m
    BY <1>2
  <2> QED
    BY <1>1, <2>1
<1>3. CASE ~(m >= p)
  <2>1. m - p + l \in 0..(l - 1) /\ p + (m - p + l) = m + l
    BY <1>3
  <2> QED
    BY <1>1, <2>1
<1> QED
  BY <1>2, <1>3

\* The choice of the pod: an address of the list, an unmarked one if there are
\* several, and none only when all of them are marked.
LEMMA LookupSound ==
    ASSUME SharedType
    PROVE  /\ Lookup \in ToSet(route) \cup {NoPod} /\ ToSet(route) \subseteq Pods
           /\ Lookup # NoPod /\ Len(route) # 1 => Lookup \notin bad
           /\ Lookup = NoPod => Len(route) # 1 /\ ToSet(route) \subseteq bad
<1>1. route \in Seq(Pods) /\ NoPod \notin Pods /\ cur \in Nat /\ Wrap \in Nat \ {0}
  BY ConfigAssumption DEF SharedType
<1>2. ToSet(route) \subseteq Pods /\ \A j \in 1..Len(route) : route[j] \in ToSet(route)
  BY <1>1 DEF ToSet
<1>3. CASE route = << >>
  BY <1>2, <1>3 DEF Lookup, ToSet
<1>4. CASE route # << >>
  <2> DEFINE l == Len(route)
             p == NextCur % l
             Try(k) == route[((p + k) % l) + 1]
             ok == {k \in 0..(l - 1) : ~IsBad(Try(k))}
  <2>1. l \in Nat \ {0}
    BY <1>1, <1>4
  <2>2. p \in 0..(l - 1)
    BY <1>1, <2>1 DEF NextCur
  <2>3. Lookup = CASE l = 1 -> route[1]
                   [] l > 1 /\ ok = {} -> NoPod
                   [] OTHER -> Try(CHOOSE k \in ok : \A j \in ok : k <= j)
    BY <1>4 DEF Lookup, Get
  <2>4. \A k \in 0..(l - 1) : ((p + k) % l) + 1 \in 1..l
    <3> HIDE DEF p, l
    <3> QED
      BY <2>1, <2>2
  <2>5. \A k \in 0..(l - 1) : Try(k) \in ToSet(route)
    BY <1>2, <2>4
  <2> HIDE DEF p
  <2>6. CASE l = 1
    <3>1. Lookup = route[1]
      BY <2>3, <2>6
    <3> QED
      BY <1>1, <1>2, <2>6, <3>1
  <2>7. CASE l > 1 /\ ok = {}
    <3>1. Lookup = NoPod
      BY <2>3, <2>7
    <3>2. ASSUME NEW m \in 0..(l - 1) PROVE route[m + 1] \in bad
      <4> HIDE DEF l
      <4>1. PICK k \in 0..(l - 1) : (p + k) % l = m
        BY <2>1, <2>2, RoundRobin
      <4> QED
        BY <2>7, <4>1 DEF IsBad
    <3>3. ASSUME NEW a \in ToSet(route) PROVE a \in bad
      <4>1. PICK j \in 1..l : a = route[j]
        BY <1>1, <3>3 DEF ToSet
      <4>2. j - 1 \in 0..(l - 1) /\ (j - 1) + 1 = j
        BY <2>1
      <4> QED
        BY <3>2, <4>1, <4>2
    <3> QED
      BY <1>2, <2>7, <3>1, <3>3
  <2>8. CASE l > 1 /\ ok # {}
    <3> DEFINE k0 == CHOOSE k \in ok : \A j \in ok : k <= j
    <3>1. Lookup = Try(k0)
      <4> HIDE DEF l, ok, Try
      <4>1. l # 1 /\ ~(l > 1 /\ ok = {})
        BY <2>1, <2>8
      <4> QED
        BY <2>3, <4>1, Zenon
    <3>2. k0 \in ok
      <4>1. ok \in SUBSET Nat
        OBVIOUS
      <4> HIDE DEF ok
      <4> QED
        BY <2>8, <4>1, LeastOf
    <3> HIDE DEF k0
    <3>3. Lookup \in ToSet(route) /\ Lookup \notin bad
      BY <2>5, <3>1, <3>2 DEF IsBad
    <3> QED
      BY <1>1, <1>2, <3>3
  <2> HIDE DEF l, ok
  <2>9. l = 1 \/ l > 1
    BY <2>1
  <2> QED
    BY <2>6, <2>7, <2>8, <2>9
<1> QED
  BY <1>3, <1>4

-----------------------------------------------------------------------------
(* Every step of a request is a Move.                                      *)

\* The transport the request takes fits its kind.
LEMMA ServeHTTPSound ==
    ASSUME SharedType, NEW k \in Kinds, NEW p
    PROVE  /\ ServeHTTP(k, p) \in (Wires \ {"probe"}) \cup {"cold"}
           /\ ServeHTTP(k, p) = "cold" => k = "plain"
           /\ ServeHTTP(k, p) = "warm" => k \in {"plain", "body"}
           /\ ServeHTTP(k, p) \in {"wsh1", "wsh2"} => k = "ws"
<1>1. AutoRoute(k) \in {"h1", "warm", "cold"}
  BY DEF AutoRoute
<1>2. k # "ws" /\ AutoRoute(k) = "cold" => k = "plain"
  BY DEF AutoRoute, SharedType, Kinds
<1>3. k # "ws" /\ AutoRoute(k) = "warm" => k \in {"plain", "body"}
  BY DEF AutoRoute, SharedType, Kinds
<1>4. Gateway(k) \in {"h1", "h2", AutoRoute(k)}
  BY DEF Gateway, H2CRoundTrip
<1>5. ServeHTTP(k, p) \in {"wsh1", "wsh2"} \/ (k # "ws" /\ ServeHTTP(k, p) = Gateway(k))
  BY DEF ServeHTTP
<1>6. k # "ws" => ServeHTTP(k, p) = Gateway(k)
  BY DEF ServeHTTP
<1> QED
  BY <1>1, <1>2, <1>3, <1>4, <1>5, <1>6 DEF Wires

\* A request that has ended, given up or not.
LEMMA IdleOK ==
    /\ RequestOK(Idle) /\ ~Counts(Idle) /\ ~Idle.prober
    /\ RequestOK([Idle EXCEPT !.gaveup = TRUE]) /\ ~Counts([Idle EXCEPT !.gaveup = TRUE])
    /\ ~[Idle EXCEPT !.gaveup = TRUE].prober
<1> USE ConfigAssumption
<1>1. 0 \in 0..(MaxRetry - 1)
  OBVIOUS
<1>2. Idle \in ReqType
  BY <1>1 DEF Idle, ReqType, Kinds
<1>3. [Idle EXCEPT !.gaveup = TRUE] \in ReqType
  BY <1>2 DEF ReqType
<1> QED
  BY <1>2, <1>3 DEF Idle, RequestOK, KindOK, OnceOK, ProberOK, Counts

\* The request ends, and what it holds is released.
LEMMA EndMoves ==
    ASSUME RequestInv, NEW r \in Reqs, End(r), probing' = Released(r),
           gauge' = IF Counts(req[r]) THEN gauge - 1 ELSE gauge
    PROVE  Move(r, Idle)
<1>1. \/ (Counts(Idle) <=> Counts(req[r])) /\ gauge' = gauge
      \/ ~Counts(Idle) /\ Counts(req[r]) /\ gauge' = gauge - 1
  BY IdleOK
<1>2. \/ (Idle.prober <=> req[r].prober) /\ probing' = probing
      \/ ~Idle.prober /\ req[r].prober /\ ~probing'
  <2>1. probing \in BOOLEAN /\ req[r].prober \in BOOLEAN
    BY DEF RequestInv, SharedType, ReqType
  <2> QED
    BY <2>1, IdleOK, Zenon DEF Released
<1>3. req' = [req EXCEPT ![r] = Idle] /\ RequestOK(Idle)
  BY IdleOK DEF End
<1> QED
  BY <1>1, <1>2, <1>3 DEF Move

\* A move that touches neither the counter nor the marker.
LEMMA QuietMoves ==
    ASSUME NEW r \in Reqs, NEW q, RequestOK(q), req' = [req EXCEPT ![r] = q],
           Counts(q) <=> Counts(req[r]), q.prober = req[r].prober, UNCHANGED <<gauge, probing>>
    PROVE  Move(r, q)
  BY DEF Move

\* What the peers of a tunnel do changes nothing but the tunnel, and the gauge
\* only with the connection.
LEMMA PeersMove ==
    ASSUME RequestInv, NEW r \in Reqs, Peers(r)
    PROVE  /\ InTunnel(r) /\ UNCHANGED <<cfg, shared, bad, verdict, probing, wsneg>>
           /\ \E S \in SUBSET Parts :
                /\ req' = [req EXCEPT ![r].tun = S]
                /\ \/ ("conn" \in S <=> "conn" \in req[r].tun) /\ gauge' = gauge
                   \/ "conn" \notin S /\ "conn" \in req[r].tun /\ gauge' = gauge - 1
<1>0. req[r].tun \in SUBSET Parts
  BY DEF RequestInv, ReqType
<1>1. InTunnel(r) /\ UNCHANGED <<cfg, shared, bad, verdict, probing, wsneg>>
  BY DEF Peers, PodHangsUp, ClientSends, PodSends, PeerReads
<1>2. ASSUME NEW x \in {"eof", "upfull", "downfull"}, req' = [req EXCEPT ![r].tun = @ \cup {x}],
             gauge' = gauge
      PROVE  \E S \in SUBSET Parts :
               /\ req' = [req EXCEPT ![r].tun = S]
               /\ ("conn" \in S <=> "conn" \in req[r].tun) /\ gauge' = gauge
  <2>1. req[r].tun \cup {x} \in SUBSET Parts
        /\ ("conn" \in req[r].tun \cup {x} <=> "conn" \in req[r].tun)
    BY <1>0 DEF Parts
  <2> QED
    BY <1>2, <2>1
<1>3. CASE PodHangsUp(r) \/ ClientSends(r)
  BY <1>2, <1>3 DEF PodHangsUp, ClientSends
<1>4. CASE PodSends(r)
  <2>1. CASE Open(r, "gone")
    <3>1. req[r].tun \ {"main", "downfull", "stream", "conn"} \in SUBSET Parts
      BY <1>0
    <3> QED
      BY <1>4, <2>1, <3>1 DEF PodSends, Drop, trackClose, Open
  <2>2. CASE ~Open(r, "gone")
    BY <1>2, <1>4, <2>2 DEF PodSends
  <2> QED
    BY <2>1, <2>2
<1>5. CASE PeerReads(r)
  <2>1. PICK x \in {"upfull", "downfull"} : req' = [req EXCEPT ![r].tun = @ \ {x}]
    BY <1>5 DEF PeerReads, Drop
  <2>2. req[r].tun \ {x} \in SUBSET Parts /\ ("conn" \in req[r].tun \ {x} <=> "conn" \in req[r].tun)
    BY <1>0
  <2> QED
    BY <1>5, <2>1, <2>2 DEF PeerReads
<1> QED
  BY <1>1, <1>3, <1>4, <1>5 DEF Peers

\* Every step of a request is a move of it.
LEMMA StepMoves ==
    ASSUME RequestInv, NEW r \in Reqs, Arrive(r) \/ Step(r) \/ Cancel(r) \/ Peers(r)
    PROVE  \E q : Move(r, q)
<1> DEFINE q0 == req[r]
<1>0. q0 \in ReqType /\ KindOK(q0) /\ OnceOK(q0) /\ ProberOK(q0) /\ req \in [Reqs -> ReqType] /\ SharedType
  BY DEF RequestInv, RequestOK
<1> USE DEF RequestOK, KindOK, OnceOK, ProberOK, Counts
<1>1. CASE Arrive(r)
  <2>1. PICK k \in cfg.kinds[r], G \in SUBSET Pods :
            req' = [req EXCEPT ![r] =
                     [Idle EXCEPT !.pc = "serve", !.kind = k,
                        !.body = IF k = "body" THEN "unread" ELSE "none", !.good = G]]
    <3>1. Reachable(route, bad, proto) \in SUBSET Pods
      BY <1>0, LookupSound DEF Reachable
    <3> QED
      BY <1>1, <3>1 DEF Arrive
  <2>2. k \in Kinds
    BY <1>0, RequestAssumption DEF SharedType
  <2> DEFINE q == [Idle EXCEPT !.pc = "serve", !.kind = k,
                     !.body = IF k = "body" THEN "unread" ELSE "none", !.good = G]
  <2>3. q \in ReqType
    BY <2>2, IdleOK DEF ReqType
  <2>4. RequestOK(q) /\ ~Counts(q) /\ q.prober = FALSE
    BY <2>3 DEF Idle
  <2>5. ~Counts(q0) /\ q0.prober = FALSE
    <3>1. q0.pc = "idle" /\ q0.prober \in BOOLEAN
      BY <1>0, <1>1 DEF Arrive, ReqType
    <3> QED
      BY <1>0, <3>1
  <2>6. UNCHANGED <<gauge, probing>>
    BY <1>1 DEF Arrive
  <2> HIDE DEF q
  <2>7. req' = [req EXCEPT ![r] = q]
    BY <2>1 DEF q
  <2> QED
    BY <2>4, <2>5, <2>6, <2>7, QuietMoves
<1>2. CASE Serve(r)
  <2>0. q0.pc = "serve" /\ UNCHANGED <<gauge, probing>> /\ ~Counts(q0) /\ ~q0.prober /\ q0.prober \in BOOLEAN
        /\ q0.sent = "no"
    BY <1>0, <1>2 DEF Serve, ReqType, Wires
  <2>1. CASE Lookup = NoPod
    <3>1. req' = [req EXCEPT ![r] = [Idle EXCEPT !.gaveup = TRUE]]
      BY <1>2, <2>1 DEF Serve, GiveUp
    <3> QED
      BY <2>0, <3>1, IdleOK, Zenon DEF Move
  <2>2. CASE Lookup # NoPod
    <3> DEFINE q == [q0 EXCEPT !.pod = Lookup, !.pc = ServeHTTP(q0.kind, Lookup)]
    <3>1. req' = [req EXCEPT ![r] = q]
      BY <1>0, <1>2, <2>2 DEF Serve
    <3>2. Lookup \in Pods /\ q0.kind \in Kinds
      BY <1>0, <2>2, LookupSound DEF ReqType
    <3>3. q \in ReqType /\ q.kind = q0.kind /\ q.pc = ServeHTTP(q0.kind, Lookup)
          /\ q.body = q0.body /\ q.got = q0.got /\ q.prober = q0.prober /\ q.sent = q0.sent
      BY <1>0, <3>2, ServeHTTPSound DEF ReqType
    <3> HIDE DEF q
    <3>4. RequestOK(q) /\ ~Counts(q)
      <4>1. /\ q.pc \in (Wires \ {"probe"}) \cup {"cold"}
            /\ q.pc = "cold" => q.kind = "plain"
            /\ q.pc = "warm" => q.kind \in {"plain", "body"}
            /\ q.pc \in {"wsh1", "wsh2"} => q.kind = "ws"
        BY <1>0, <3>2, <3>3, ServeHTTPSound
      <4>2. q.pc \notin {"tunnel", "probe"}
        BY <4>1 DEF Wires
      <4>3. ~q0.got /\ q0.body # "read" /\ (q0.body # "none" => q0.kind = "body")
        BY <1>0, <2>0
      <4> QED
        BY <2>0, <3>3, <4>1, <4>2, <4>3
    <3>5. Move(r, q)
      BY <2>0, <3>1, <3>3, <3>4, QuietMoves
    <3> QED
      BY <3>5
  <2> QED
    BY <2>1, <2>2
<1>3. CASE Cold(r)
  <2>0. /\ q0.pc = "cold" /\ q0.kind = "plain" /\ q0.body = "none" /\ q0.sent = "no" /\ ~q0.got
        /\ q0.prober = FALSE /\ gauge' = gauge /\ probing' = TRUE /\ probing \in BOOLEAN
    BY <1>0, <1>3 DEF Cold, ReqType, Wires, SharedType
  <2>1. CASE probing = TRUE
    <3> DEFINE q == [q0 EXCEPT !.pc = "h1", !.prober = FALSE]
    <3>1. req' = [req EXCEPT ![r] = q]
      BY <1>0, <1>3, <2>1 DEF Cold
    <3>2. q \in ReqType
      BY <1>0 DEF ReqType, Wires
    <3>3. RequestOK(q) /\ ~Counts(q) /\ q.prober = q0.prober
      BY <1>0, <2>0, <3>2 DEF ReqType, Wires
    <3> HIDE DEF q
    <3>4. Move(r, q)
      BY <2>0, <2>1, <3>1, <3>3, QuietMoves
    <3> QED
      BY <3>4
  <2>2. CASE probing = FALSE
    <3> DEFINE q == [q0 EXCEPT !.pc = "probe", !.prober = TRUE]
    <3>1. req' = [req EXCEPT ![r] = q]
      BY <1>0, <1>3, <2>2 DEF Cold
    <3>2. q \in ReqType
      BY <1>0 DEF ReqType, Wires
    <3>3. RequestOK(q) /\ ~Counts(q) /\ q.prober
      BY <1>0, <2>0, <3>2 DEF ReqType, Wires
    <3> HIDE DEF q
    <3>4. Move(r, q)
      BY <2>0, <2>2, <3>1, <3>3 DEF Move
    <3> QED
      BY <3>4
  <2> QED
    BY <2>0, <2>1, <2>2
<1>4. CASE Connect(r)
  <2> DEFINE q == [q0 EXCEPT !.sent = "yes", !.body = Stream(@)]
  <2>0. q0.pc \in Wires /\ q0.sent = "no" /\ ~q0.got /\ UNCHANGED probing
        /\ gauge' = IF q0.pc = "wsh1" THEN gauge + 1 ELSE gauge
    BY <1>0, <1>4 DEF Connect, Dialing, Wires, BackendConnections
  <2>1. req' = [req EXCEPT ![r] = q]
    BY <1>0, <1>4 DEF Connect
  <2>2. Stream(q0.body) \in {"none", "read", "closed"} /\ (Stream(q0.body) = "none" <=> q0.body = "none")
    BY <1>0 DEF Stream, ReqType
  <2>3. q \in ReqType /\ q.pc = q0.pc /\ q.kind = q0.kind /\ q.sent = "yes" /\ q.body = Stream(q0.body)
        /\ q.got = q0.got /\ q.prober = q0.prober
    BY <1>0, <2>2 DEF ReqType
  <2> HIDE DEF q
  <2>4. RequestOK(q)
    BY <1>0, <2>0, <2>2, <2>3
  <2>5. ~Counts(q0) /\ (Counts(q) <=> q0.pc = "wsh1")
    BY <2>0, <2>3 DEF Wires
  <2>6. Move(r, q)
    BY <2>0, <2>1, <2>3, <2>4, <2>5 DEF Move
  <2> QED
    BY <2>6
<1>5. CASE DialError(r)
  <2>0. q0.pc \in Wires /\ q0.sent = "no" /\ ~q0.got /\ ~Counts(q0) /\ UNCHANGED gauge
        /\ probing' = Released(r)
    BY <1>0, <1>5 DEF DialError, Dialing, Wires
  <2>1. CASE End(r)
    BY <2>0, <2>1, EndMoves
  <2>2. CASE ~End(r)
    <3> DEFINE b == IF q0.body = "unread" THEN "closed" ELSE q0.body
               q == [q0 EXCEPT !.pc = "backoff", !.prober = FALSE, !.pod = NoPod, !.body = b]
    <3>1. req' = [req EXCEPT ![r] = q]
      BY <1>0, <1>5, <2>2 DEF DialError
    <3>2. b \in {"none", "read", "closed"} /\ (b = "none" <=> q0.body = "none") /\ (b = "read" <=> q0.body = "read")
      BY <1>0 DEF ReqType
    <3> HIDE DEF b
    <3>3. q \in ReqType /\ q.pc = "backoff" /\ q.kind = q0.kind /\ q.sent = "no" /\ q.body = b
          /\ q.got = q0.got /\ q.prober = FALSE
      BY <1>0, <2>0, <3>2 DEF ReqType
    <3> HIDE DEF q
    <3>4. RequestOK(q) /\ ~Counts(q)
      BY <1>0, <2>0, <3>2, <3>3
    <3>5. \/ (q.prober <=> q0.prober) /\ probing' = probing
          \/ ~q.prober /\ q0.prober /\ ~probing'
      <4>1. probing \in BOOLEAN /\ q0.prober \in BOOLEAN
        BY <1>0 DEF SharedType, ReqType
      <4> QED
        BY <2>0, <3>3, <4>1, Zenon DEF Released
    <3>6. Move(r, q)
      BY <2>0, <3>1, <3>4, <3>5 DEF Move
    <3> QED
      BY <3>6
  <2> QED
    BY <2>1, <2>2
<1>6. CASE BackoffElapsed(r)
  <2>0. q0.pc = "backoff" /\ q0.sent = "no" /\ ~q0.got /\ ~Counts(q0) /\ q0.prober = FALSE
        /\ q0.body # "read" /\ UNCHANGED <<gauge, probing>>
    BY <1>0, <1>6 DEF BackoffElapsed, Wires, ReqType
  <2>1. CASE q0.i + 1 < MaxRetry
    <3> DEFINE q == [q0 EXCEPT !.pc = "serve", !.i = @ + 1]
    <3>1. req' = [req EXCEPT ![r] = q]
      BY <1>0, <1>6, <2>1 DEF BackoffElapsed
    <3>2. q0.i + 1 \in 0..(MaxRetry - 1)
      BY <1>0, <2>1, ConfigAssumption DEF ReqType
    <3>3. q \in ReqType /\ q.pc = "serve" /\ q.kind = q0.kind /\ q.sent = "no" /\ q.body = q0.body
          /\ q.got = q0.got /\ q.prober = q0.prober
      BY <1>0, <2>0, <3>2 DEF ReqType
    <3> HIDE DEF q
    <3>4. RequestOK(q) /\ ~Counts(q)
      BY <1>0, <2>0, <3>3
    <3>5. Move(r, q)
      BY <2>0, <3>1, <3>3, <3>4, QuietMoves
    <3> QED
      BY <3>5
  <2>2. CASE ~(q0.i + 1 < MaxRetry)
    <3>1. req' = [req EXCEPT ![r] = [Idle EXCEPT !.gaveup = TRUE]]
      BY <1>6, <2>2 DEF BackoffElapsed, GiveUp
    <3> QED
      BY <2>0, <3>1, IdleOK, Zenon DEF Move
  <2> QED
    BY <2>1, <2>2
<1>7. CASE Respond(r)
  <2>1. Counts(q0) <=> q0.pc = "wsh1"
    BY <1>7 DEF Respond, Live, Sent, Wires
  <2> QED
    BY <1>7, <2>1, EndMoves DEF Respond
<1>8. CASE Accept(r)
  <2>0. q0.pc \in {"wsh1", "wsh2"} /\ q0.sent # "no" /\ q0.kind = "ws" /\ q0.body = "none"
        /\ q0.prober = FALSE /\ UNCHANGED <<gauge, probing>>
    BY <1>0, <1>8 DEF Accept, Live, Sent, ReqType
  <2> DEFINE t == IF q0.pc = "wsh1" THEN TunnelOverH1 ELSE TunnelOverH2C
             q == [q0 EXCEPT !.pc = "tunnel", !.got = TRUE, !.sent = "no", !.pod = NoPod,
                             !.good = {}, !.tun = t]
  <2>1. req' = [req EXCEPT ![r] = q]
    <3>1. Processed(r) = TRUE
      BY <2>0 DEF Processed
    <3> QED
      BY <1>0, <1>8, <3>1 DEF Accept
  <2>2. t \in SUBSET Parts
        /\ ("conn" \in t <=> q0.pc = "wsh1")
    BY DEF TunnelOverH1, TunnelOverH2C, Parts
  <2> HIDE DEF t
  <2>3. q \in ReqType /\ q.pc = "tunnel" /\ q.kind = q0.kind /\ q.sent = "no" /\ q.body = q0.body
        /\ q.prober = q0.prober /\ q.tun = t
    BY <1>0, <2>2 DEF ReqType
  <2> HIDE DEF q
  <2>4. RequestOK(q) /\ (Counts(q) <=> Counts(q0))
    BY <2>0, <2>2, <2>3
  <2>5. Move(r, q)
    BY <2>0, <2>1, <2>3, <2>4, QuietMoves
  <2> QED
    BY <2>5
<1>9. CASE NotSupported(r)
  <2>0. q0.pc = "wsh2" /\ q0.kind = "ws" /\ q0.body = "none" /\ ~q0.got
        /\ q0.prober = FALSE /\ ~Counts(q0) /\ UNCHANGED <<gauge, probing>>
    BY <1>0, <1>9 DEF NotSupported, ReqType
  <2> DEFINE q == [q0 EXCEPT !.pc = "wsh1", !.sent = "no"]
  <2>1. req' = [req EXCEPT ![r] = q]
    BY <1>0, <1>9 DEF NotSupported
  <2>2. q \in ReqType /\ q.pc = "wsh1" /\ q.kind = q0.kind /\ q.sent = "no" /\ q.body = q0.body
        /\ q.prober = q0.prober /\ q.got = q0.got
    BY <1>0 DEF ReqType, Wires
  <2> HIDE DEF q
  <2>3. RequestOK(q) /\ ~Counts(q)
    BY <2>0, <2>2
  <2>4. Move(r, q)
    BY <2>0, <2>1, <2>2, <2>3, QuietMoves
  <2> QED
    BY <2>4
<1>10. CASE LateError(r)
  <2>0. q0.pc \in Wires /\ q0.sent # "no" /\ ~q0.got /\ (Counts(q0) <=> q0.pc = "wsh1")
        /\ gauge' = IF q0.pc = "wsh1" THEN gauge - 1 ELSE gauge
    BY <1>0, <1>10 DEF LateError, Sent, Wires
  <2>1. CASE q0.pc = "probe" \/ (q0.pc = "warm" /\ q0.kind # "body")
    <3>0. q0.kind = "plain" /\ q0.body = "none"
      BY <1>0, <2>1
    <3> DEFINE q == [q0 EXCEPT !.pc = "h1", !.sent = "no", !.got = FALSE]
    <3>1. req' = [req EXCEPT ![r] = q] /\ UNCHANGED probing
      <4>1. (q0.got \/ (Understood(r) /\ Processed(r))) = FALSE
        BY <2>0, <3>0 DEF Processed
      <4> QED
        BY <1>0, <1>10, <2>1, <4>1 DEF LateError
    <3>2. q \in ReqType /\ q.pc = "h1" /\ q.kind = q0.kind /\ q.sent = "no" /\ q.body = q0.body
          /\ q.prober = q0.prober /\ ~q.got
      BY <1>0 DEF ReqType, Wires
    <3> HIDE DEF q
    <3>3. RequestOK(q) /\ ~Counts(q)
      BY <3>0, <3>2
    <3>4. Move(r, q)
      BY <2>0, <2>1, <3>1, <3>2, <3>3, QuietMoves
    <3> QED
      BY <3>4
  <2>2. CASE ~(q0.pc = "probe" \/ (q0.pc = "warm" /\ q0.kind # "body"))
    BY <1>10, <2>0, <2>2, EndMoves DEF LateError
  <2> QED
    BY <2>1, <2>2
<1>11. ASSUME NEW S, InTunnel(r), req' = [req EXCEPT ![r].tun = S],
              S \in SUBSET Parts,
              \/ ("conn" \in S <=> "conn" \in q0.tun) /\ gauge' = gauge
              \/ "conn" \notin S /\ "conn" \in q0.tun /\ gauge' = gauge - 1,
              UNCHANGED probing
       PROVE  \E q : Move(r, q)
  <2> DEFINE q == [q0 EXCEPT !.tun = S]
  <2>1. req' = [req EXCEPT ![r] = q]
    BY <1>0, <1>11
  <2>2. q \in ReqType /\ q.pc = "tunnel" /\ q0.pc = "tunnel" /\ q.kind = q0.kind /\ q.sent = q0.sent
        /\ q.body = q0.body /\ q.prober = q0.prober /\ q.tun = S
    BY <1>0, <1>11 DEF ReqType, InTunnel
  <2> HIDE DEF q
  <2>3. RequestOK(q) /\ (Counts(q) <=> "conn" \in S) /\ (Counts(q0) <=> "conn" \in q0.tun)
    BY <1>0, <2>2
  <2>4. Move(r, q)
    BY <1>11, <2>1, <2>2, <2>3 DEF Move
  <2> QED
    BY <2>4
<1>12. CASE CopyUpEnds(r)
  <2>1. q0.tun \ {"up", "upfull", "conn"} \in SUBSET Parts
    BY <1>0 DEF ReqType
  <2> QED
    BY <1>11, <1>12, <2>1 DEF CopyUpEnds, Drop, trackClose, Open
<1>13. CASE CopyDownEnds(r)
  <2>1. q0.tun \ {"main", "downfull", "stream", "conn"} \in SUBSET Parts
    BY <1>0 DEF ReqType
  <2> QED
    BY <1>11, <1>13, <2>1 DEF CopyDownEnds, Drop, trackClose, Open
<1>14. CASE TunnelEnds(r)
  <2>1. (Counts(q0) <=> Open(r, "conn")) /\ q0.prober = FALSE
    BY <1>0, <1>14 DEF TunnelEnds, InTunnel, Open, ReqType
  <2>2. probing' = Released(r)
    <3>1. probing \in BOOLEAN /\ probing' = probing
      BY <1>0, <1>14 DEF TunnelEnds, SharedType
    <3> QED
      BY <2>1, <3>1 DEF Released
  <2> QED
    BY <1>14, <2>1, <2>2, EndMoves DEF TunnelEnds, trackClose
<1>15. CASE Peers(r)
  BY <1>11, <1>15, PeersMove
<1>16. CASE Cancel(r)
  <2>1. CASE InTunnel(r)
    <3>1. q0.tun \cup {"gone"} \in SUBSET Parts
      BY <1>0 DEF ReqType, Parts
    <3> QED
      BY <1>11, <1>16, <2>1, <3>1 DEF Cancel
  <2>2. CASE ~InTunnel(r)
    <3>1. Counts(q0) <=> q0.pc = "wsh1" /\ Sent(r)
      BY <2>2 DEF InTunnel, Sent, Wires
    <3> QED
      BY <1>16, <2>2, <3>1, EndMoves DEF Cancel
  <2> QED
    BY <2>1, <2>2
<1> QED
  BY <1>1, <1>2, <1>3, <1>4, <1>5, <1>6, <1>7, <1>8, <1>9, <1>10, <1>12, <1>13, <1>14, <1>15, <1>16
     DEF Step

-----------------------------------------------------------------------------
(* The cluster and the clocks.                                             *)

\* The same request, with other history and a connection alive or dead.
Alike(q, p) ==
    /\ q.pc = p.pc /\ q.kind = p.kind /\ q.i = p.i /\ q.pod = p.pod /\ q.body = p.body
    /\ q.prober = p.prober /\ q.got = p.got /\ q.tun = p.tun
    /\ q.sent = "no" <=> p.sent = "no"

\* Narrowing the history and severing a connection leave a request alike.
LEMMA SeveredAlike ==
    ASSUME req \in [Reqs -> ReqType], NEW r \in Reqs, NEW G, NEW p
    PROVE  /\ Narrow(G)[r] \in ReqType /\ Alike(Narrow(G)[r], req[r])
           /\ Narrow(G)[r].good = req[r].good \cap G
           /\ Severed(Narrow(G)[r], p) \in ReqType /\ Alike(Severed(Narrow(G)[r], p), req[r])
           /\ Severed(Narrow(G)[r], p).good = req[r].good \cap G
<1> DEFINE n == [req[r] EXCEPT !.good = @ \cap G]
<1>1. Narrow(G)[r] = n
  BY DEF Narrow
<1>2. n \in ReqType /\ Alike(n, req[r]) /\ n.good = req[r].good \cap G
  BY DEF ReqType, Alike
<1> HIDE DEF n
<1>3. [n EXCEPT !.sent = "dead"] \in ReqType /\ [n EXCEPT !.sent = "dead"].good = n.good
      /\ (n.sent = "yes" => Alike([n EXCEPT !.sent = "dead"], n))
  BY <1>2 DEF ReqType, Alike
<1>4. n.sent = "yes" => Alike([n EXCEPT !.sent = "dead"], req[r])
  BY <1>2, <1>3 DEF Alike
<1> QED
  BY <1>1, <1>2, <1>3, <1>4 DEF Severed

\* A step of the environment changes no request but in its history and in the
\* state of its connection, and neither the counter nor the marker.
LEMMA EnvironmentAlike ==
    ASSUME RequestInv, Environment
    PROVE  /\ UNCHANGED <<gauge, probing, cfg, route, cur>>
           /\ req' \in [Reqs -> ReqType]
           /\ \A r \in Reqs : Alike(req'[r], req[r]) /\ req'[r].good \subseteq req[r].good
<1>0. req \in [Reqs -> ReqType]
  BY DEF RequestInv
<1>1. CASE BadExpires
  <2>1. req' = Narrow({}) /\ DOMAIN Narrow({}) = Reqs
    BY <1>1 DEF BadExpires, Narrow
  <2>2. \A r \in Reqs : req'[r] \in ReqType /\ Alike(req'[r], req[r]) /\ req'[r].good = req[r].good \cap {}
    BY <1>0, <2>1, SeveredAlike
  <2>3. req' \in [Reqs -> ReqType]
    BY <2>1, <2>2 DEF Narrow
  <2> QED
    BY <1>1, <2>2, <2>3 DEF BadExpires, shared
<1>2. CASE VerdictExpires \/ NegativeExpires
  BY <1>0, <1>2 DEF VerdictExpires, NegativeExpires, Alike, shared
<1>3. ASSUME NEW p \in Pods, PodChanges(p)
      PROVE  /\ UNCHANGED <<gauge, probing, cfg, route, cur>>
             /\ req' \in [Reqs -> ReqType]
             /\ \A r \in Reqs : Alike(req'[r], req[r]) /\ req'[r].good \subseteq req[r].good
  <2>1. PICK G : req' = [r \in Reqs |-> Severed(Narrow(G)[r], p)]
    BY <1>3 DEF PodChanges
  <2>2. \A r \in Reqs : req'[r] \in ReqType /\ Alike(req'[r], req[r]) /\ req'[r].good = req[r].good \cap G
    BY <1>0, <2>1, SeveredAlike
  <2>3. req' \in [Reqs -> ReqType]
    BY <2>1, <2>2
  <2> QED
    BY <1>3, <2>2, <2>3 DEF PodChanges
<1> QED
  BY <1>1, <1>2, <1>3 DEF Environment

-----------------------------------------------------------------------------
(* The steps of the whole.                                                 *)

\* A request is at one of the listed addresses from the choice of the pod to
\* the end of the attempt.
Chosen(q) == q.pc \in Wires \cup {"cold"}
ChosenInv == \A r \in Reqs : Chosen(req[r]) => req[r].pod \in ToSet(route)

\* An attempt keeps the address it was given.
LEMMA ChosenStep ==
    ASSUME RequestInv, ChosenInv, [Next]_vars
    PROVE  ChosenInv' /\ route' = route
<1>0. req \in [Reqs -> ReqType] /\ SharedType /\ ~Chosen(Idle) /\ ~Chosen([Idle EXCEPT !.gaveup = TRUE])
  BY DEF RequestInv, Idle, Chosen, Wires
<1>1. ASSUME NEW r \in Reqs, route' = route, NEW q, req' = [req EXCEPT ![r] = q],
             Chosen(q) => q.pod \in ToSet(route)
      PROVE  ChosenInv'
  <2>1. \A s \in Reqs : req'[s] = IF s = r THEN q ELSE req[s]
    BY <1>0, <1>1
  <2> QED
    BY <1>1, <2>1 DEF ChosenInv, Chosen
<1>2. ASSUME NEW r \in Reqs, Arrive(r) \/ Respond(r) \/ TunnelEnds(r)
      PROVE  ChosenInv' /\ route' = route
  <2>1. CASE Arrive(r)
    <3>1. route' = route /\ req' \in [Reqs -> {req'[s] : s \in Reqs}] /\ req'[r].pc = "serve"
          /\ \A s \in Reqs \ {r} : req'[s] = req[s]
      BY <1>0, <2>1 DEF Arrive, shared, Idle
    <3> QED
      BY <3>1 DEF ChosenInv, Chosen, Wires
  <2> QED
    BY <1>0, <1>1, <1>2, <2>1 DEF Respond, TunnelEnds, End, shared
<1>3. ASSUME NEW r \in Reqs, Serve(r)
      PROVE  ChosenInv' /\ route' = route
  <2>1. CASE Lookup = NoPod
    BY <1>0, <1>1, <1>3, <2>1 DEF Serve, GiveUp
  <2>2. CASE Lookup # NoPod
    <3> DEFINE q == [req[r] EXCEPT !.pod = Lookup, !.pc = ServeHTTP(req[r].kind, Lookup)]
    <3>1. req' = [req EXCEPT ![r] = q] /\ route' = route
      BY <1>0, <1>3, <2>2 DEF Serve
    <3>2. q.pod \in ToSet(route)
      BY <1>0, <2>2, LookupSound DEF ReqType
    <3> QED
      BY <1>1, <3>1, <3>2
  <2> QED
    BY <2>1, <2>2
<1>4. ASSUME NEW r \in Reqs, Cold(r) \/ Connect(r) \/ NotSupported(r)
      PROVE  ChosenInv' /\ route' = route
  <2>1. Chosen(req[r]) /\ req'[r].pod = req[r].pod /\ route' = route
        /\ \A s \in Reqs \ {r} : req'[s] = req[s]
    BY <1>0, <1>4 DEF Cold, Connect, NotSupported, Dialing, Chosen, shared, ReqType, Wires
  <2> QED
    BY <2>1 DEF ChosenInv, Chosen
<1>5. ASSUME NEW r \in Reqs, DialError(r) \/ BackoffElapsed(r) \/ Accept(r)
      PROVE  ChosenInv' /\ route' = route
  <2>1. ~Chosen(req'[r]) /\ route' = route /\ \A s \in Reqs \ {r} : req'[s] = req[s]
    BY <1>0, <1>5 DEF DialError, BackoffElapsed, Accept, GiveUp, End, Idle, Chosen, shared, ReqType, Wires
  <2> QED
    BY <2>1 DEF ChosenInv, Chosen
<1>6. ASSUME NEW r \in Reqs, LateError(r)
      PROVE  ChosenInv' /\ route' = route
  <2>1. Chosen(req[r]) /\ route' = route
        /\ (req'[r].pod = req[r].pod \/ ~Chosen(req'[r]))
        /\ \A s \in Reqs \ {r} : req'[s] = req[s]
    BY <1>0, <1>6 DEF LateError, Sent, End, Chosen, shared, ReqType
  <2> QED
    BY <2>1 DEF ChosenInv, Chosen
<1>7. ASSUME NEW r \in Reqs, CopyUpEnds(r) \/ CopyDownEnds(r) \/ Cancel(r) \/ Peers(r)
      PROVE  ChosenInv' /\ route' = route
  <2>1. ~Chosen(req'[r]) /\ route' = route /\ \A s \in Reqs \ {r} : req'[s] = req[s]
    <3>1. CASE CopyUpEnds(r) \/ CopyDownEnds(r) \/ Cancel(r)
      BY <1>0, <3>1 DEF CopyUpEnds, CopyDownEnds, Cancel, Drop, InTunnel, End, Chosen, shared,
                        ReqType, Wires
    <3>2. CASE Peers(r)
      BY <1>0, <3>2, PeersMove DEF InTunnel, Chosen, shared, ReqType, Wires
    <3> QED
      BY <1>7, <3>1, <3>2
  <2> QED
    BY <2>1 DEF ChosenInv, Chosen
<1>8. CASE Environment
  <2>1. route' = route /\ \A r \in Reqs : Alike(req'[r], req[r])
    BY <1>8, EnvironmentAlike
  <2> QED
    BY <2>1 DEF ChosenInv, Chosen, Alike
<1>9. CASE UNCHANGED vars
  BY <1>9 DEF vars, ChosenInv, Chosen
<1> QED
  BY <1>2, <1>3, <1>4, <1>5, <1>6, <1>7, <1>8, <1>9 DEF Next, Step

\* Every step leaves what the requests share well-formed.
LEMMA SharedStep ==
    ASSUME RequestInv, ChosenInv, Next
    PROVE  SharedType'
<1>0. SharedType /\ req \in [Reqs -> ReqType] /\ gauge \in Int /\ probing \in BOOLEAN
  BY DEF RequestInv, SharedType
<1> USE ConfigAssumption DEF shared
<1>1. ASSUME NEW r \in Reqs, Serve(r) PROVE SharedType'
  BY <1>0, <1>1 DEF Serve, NextCur, SharedType
<1>2. ASSUME NEW r \in Reqs, Connect(r) \/ CopyUpEnds(r) \/ CopyDownEnds(r) \/ TunnelEnds(r) PROVE SharedType'
  <2>1. gauge' \in Int
    BY <1>0, <1>2 DEF Connect, BackendConnections, CopyUpEnds, CopyDownEnds, TunnelEnds, trackClose
  <2> QED
    BY <1>0, <1>2, <2>1 DEF Connect, CopyUpEnds, CopyDownEnds, TunnelEnds, SharedType
<1>3. ASSUME NEW r \in Reqs, DialError(r) PROVE SharedType'
  <2>1. req[r].pod \in Pods
    BY <1>0, <1>3, LookupSound DEF DialError, Dialing, ChosenInv, Chosen
  <2>2. probing' \in BOOLEAN
    BY <1>3 DEF DialError, Released
  <2> QED
    BY <1>0, <1>3, <2>1, <2>2 DEF DialError, MarkBad, SharedType
<1>4. ASSUME NEW r \in Reqs, NotSupported(r) PROVE SharedType'
  <2>1. Key(req[r].pod) \in Pods \cup {"svc"}
    BY <1>0, <1>4, LookupSound DEF NotSupported, ChosenInv, Chosen, Key, Wires
  <2> QED
    BY <1>0, <1>4, <2>1 DEF NotSupported, SharedType
<1>5. ASSUME NEW r \in Reqs, Respond(r) \/ LateError(r) \/ Cancel(r) PROVE SharedType'
  <2>1. gauge' \in Int
    BY <1>0, <1>5 DEF Respond, LateError, Cancel
  <2>2. probing' \in BOOLEAN
    BY <1>0, <1>5 DEF Respond, LateError, Cancel, Released
  <2>3. verdict' \in {"none", "h2c", "h1"}
    BY <1>0, <1>5 DEF Respond, LateError, Cancel, SharedType
  <2>4. UNCHANGED <<cfg, route, cur, proto, rolls, bad, wsneg>>
    BY <1>5 DEF Respond, LateError, Cancel
  <2> QED
    BY <1>0, <2>1, <2>2, <2>3, <2>4 DEF SharedType
<1>6. ASSUME NEW r \in Reqs, Arrive(r) \/ Cold(r) \/ BackoffElapsed(r) \/ Accept(r) PROVE SharedType'
  BY <1>0, <1>6 DEF Arrive, Cold, BackoffElapsed, Accept, SharedType
<1>9. ASSUME NEW r \in Reqs, Peers(r) PROVE SharedType'
  <2>1. gauge' \in Int /\ UNCHANGED <<cfg, shared, bad, verdict, probing, wsneg>>
    BY <1>0, <1>9, PeersMove
  <2> QED
    BY <1>0, <2>1 DEF SharedType
<1>7. CASE BadExpires \/ VerdictExpires \/ NegativeExpires
  BY <1>0, <1>7 DEF BadExpires, VerdictExpires, NegativeExpires, SharedType
<1>8. ASSUME NEW p \in Pods, PodChanges(p) PROVE SharedType'
  <2>1. PICK v \in SUBSET {"h1", "h2", "ws"} : proto' = [proto EXCEPT ![p] = v]
    BY <1>8 DEF PodChanges
  <2>2. proto' \in [Pods -> SUBSET {"h1", "h2", "ws"}] /\ rolls' \in 0..MaxRolls
    BY <1>0, <1>8, <2>1 DEF PodChanges, Roll, SharedType
  <2> QED
    BY <1>0, <1>8, <2>2 DEF PodChanges, SharedType
<1> QED
  BY <1>1, <1>2, <1>3, <1>4, <1>5, <1>6, <1>7, <1>8, <1>9 DEF Next, Step, Environment

\* Every step keeps what is known of each request.
LEMMA RequestStep ==
    ASSUME RequestInv, ChosenInv, [Next]_vars
    PROVE  RequestInv' /\ ChosenInv'
<1>0. req \in [Reqs -> ReqType] /\ \A r \in Reqs : RequestOK(req[r])
  BY DEF RequestInv
<1>1. ASSUME NEW r \in Reqs, NEW q, Move(r, q)
      PROVE  req' \in [Reqs -> ReqType] /\ \A s \in Reqs : RequestOK(req'[s])
  <2>1. req' = [req EXCEPT ![r] = q] /\ RequestOK(q) /\ q \in ReqType
    BY <1>1 DEF Move, RequestOK
  <2> QED
    BY <1>0, <2>1
<1>2. CASE Environment
  <2>1. req' \in [Reqs -> ReqType] /\ \A r \in Reqs : Alike(req'[r], req[r])
    BY <1>2, EnvironmentAlike
  <2>2. \A r \in Reqs : RequestOK(req'[r])
    BY <1>0, <2>1 DEF Alike, RequestOK, KindOK, OnceOK, ProberOK
  <2>3. SharedType'
    BY <1>2, SharedStep DEF Next
  <2> QED
    BY <2>1, <2>2, <2>3, ChosenStep DEF RequestInv, RequestOK, KindOK, OnceOK, ProberOK
<1>3. ASSUME NEW r \in Reqs, Arrive(r) \/ Step(r) \/ Cancel(r) \/ Peers(r)
      PROVE  RequestInv' /\ ChosenInv'
  <2>1. req' \in [Reqs -> ReqType] /\ \A s \in Reqs : RequestOK(req'[s])
    BY <1>1, <1>3, StepMoves
  <2>2. SharedType'
    BY <1>3, SharedStep DEF Next
  <2> QED
    BY <2>1, <2>2, ChosenStep DEF RequestInv, RequestOK, KindOK, OnceOK, ProberOK
<1>4. CASE UNCHANGED vars
  BY <1>0, <1>4, ChosenStep DEF vars, RequestInv, SharedType, RequestOK, KindOK, OnceOK, ProberOK
<1> QED
  BY <1>2, <1>3, <1>4 DEF Next

\* Nothing is under way at first.
LEMMA RequestInit == Init => RequestInv /\ ChosenInv
<1> SUFFICES ASSUME Init PROVE RequestInv /\ ChosenInv
  OBVIOUS
<1>1. SharedType
  <2>1. proto \in [Pods -> SUBSET {"h1", "h2", "ws"}]
    BY ConfigAssumption DEF Init
  <2>2. cur \in 0..(Wrap - 1) /\ rolls \in 0..MaxRolls /\ gauge \in Int
    BY ConfigAssumption DEF Init
  <2> QED
    BY <2>1, <2>2 DEF Init, SharedType
<1>2. \A r \in Reqs : req[r] = Idle
  BY DEF Init
<1>3. req \in [Reqs -> ReqType]
  BY IdleOK DEF Init, RequestOK
<1>4. ChosenInv
  BY <1>2 DEF ChosenInv, Chosen, Idle, Wires
<1> QED
  BY <1>1, <1>2, <1>3, <1>4, IdleOK DEF RequestInv

-----------------------------------------------------------------------------
(* The marker of the probe and the gauge.                                  *)

ProbeInv ==
    /\ probing <=> \E r \in Reqs : req[r].prober
    /\ \A r, s \in Reqs : req[r].prober /\ req[s].prober => r = s

GaugeInv == gauge = Cardinality(Counted)

\* A move of one request takes the marker or gives it back.
LEMMA ProbeMove ==
    ASSUME RequestInv, ProbeInv, NEW r \in Reqs, NEW q, Move(r, q)
    PROVE  ProbeInv'
<1>1. \A s \in Reqs : req'[s] = IF s = r THEN q ELSE req[s]
  BY DEF Move, RequestInv
<1>2. CASE (q.prober <=> req[r].prober) /\ probing' = probing
  <2>1. \A s \in Reqs : req'[s].prober <=> req[s].prober
    BY <1>1, <1>2
  <2> QED
    BY <1>2, <2>1, Zenon DEF ProbeInv
<1>3. CASE q.prober /\ ~req[r].prober /\ ~probing /\ probing'
  <2>1. req'[r].prober /\ \A s \in Reqs : s # r => ~req'[s].prober
    BY <1>1, <1>3 DEF ProbeInv
  <2> QED
    BY <1>3, <2>1, Zenon DEF ProbeInv
<1>4. CASE ~q.prober /\ req[r].prober /\ ~probing'
  <2>1. \A s \in Reqs : ~req'[s].prober
    BY <1>1, <1>4 DEF ProbeInv
  <2> QED
    BY <1>4, <2>1, Zenon DEF ProbeInv
<1> QED
  BY <1>2, <1>3, <1>4 DEF Move

\* A move of one request opens or closes at most its own connection.
LEMMA GaugeMove ==
    ASSUME RequestInv, GaugeInv, NEW r \in Reqs, NEW q, Move(r, q)
    PROVE  GaugeInv'
<1>1. \A s \in Reqs : req'[s] = IF s = r THEN q ELSE req[s]
  BY DEF Move, RequestInv
<1>2. IsFiniteSet(Counted) /\ Cardinality(Counted) \in Nat
  BY ConfigAssumption, FS_Subset, FS_CardinalityType DEF Counted
<1>3. CASE (Counts(q) <=> Counts(req[r])) /\ gauge' = gauge
  <2>1. Counted' = Counted
    BY <1>1, <1>3 DEF Counted, Counts
  <2> QED
    BY <1>3, <2>1 DEF GaugeInv
<1>4. CASE Counts(q) /\ ~Counts(req[r]) /\ gauge' = gauge + 1
  <2>1. Counted' = Counted \cup {r} /\ r \notin Counted
    BY <1>1, <1>4 DEF Counted, Counts
  <2>2. Cardinality(Counted \cup {r}) = Cardinality(Counted) + 1
    BY <1>2, <2>1, FS_AddElement
  <2> QED
    BY <1>4, <2>1, <2>2 DEF GaugeInv
<1>5. CASE ~Counts(q) /\ Counts(req[r]) /\ gauge' = gauge - 1
  <2>1. Counted' = Counted \ {r} /\ r \in Counted
    BY <1>1, <1>5 DEF Counted, Counts
  <2>2. Cardinality(Counted \ {r}) = Cardinality(Counted) - 1
    BY <1>2, <2>1, FS_RemoveElement
  <2> QED
    BY <1>5, <2>1, <2>2 DEF GaugeInv
<1> QED
  BY <1>3, <1>4, <1>5 DEF Move

\* Every step keeps marker and gauge exact.
LEMMA ProbeGaugeStep ==
    ASSUME RequestInv, ProbeInv, GaugeInv, [Next]_vars
    PROVE  ProbeInv' /\ GaugeInv'
<1>1. ASSUME NEW r \in Reqs, Arrive(r) \/ Step(r) \/ Cancel(r) \/ Peers(r)
      PROVE  ProbeInv' /\ GaugeInv'
  BY <1>1, StepMoves, ProbeMove, GaugeMove
<1>2. CASE Environment
  <2>1. UNCHANGED <<gauge, probing>> /\ \A r \in Reqs : Alike(req'[r], req[r])
    BY <1>2, EnvironmentAlike
  <2>2. \A r \in Reqs : req'[r].prober = req[r].prober
    BY <2>1 DEF Alike
  <2>3. Counted' = Counted
    BY <2>1 DEF Counted, Counts, Alike
  <2>4. ProbeInv'
    BY <2>1, <2>2, Zenon DEF ProbeInv
  <2> QED
    BY <2>1, <2>3, <2>4 DEF GaugeInv
<1>3. CASE UNCHANGED vars
  BY <1>3 DEF vars, ProbeInv, GaugeInv, Counted, Counts
<1> QED
  BY <1>1, <1>2, <1>3 DEF Next

\* No marker, no connection at first.
LEMMA ProbeGaugeInit == Init => ProbeInv /\ GaugeInv
<1> SUFFICES ASSUME Init PROVE ProbeInv /\ GaugeInv
  OBVIOUS
<1>1. \A r \in Reqs : ~req[r].prober /\ ~Counts(req[r])
  BY IdleOK DEF Init
<1>2. Counted = {}
  BY <1>1 DEF Counted
<1> QED
  BY <1>1, <1>2, FS_EmptySet DEF Init, ProbeInv, GaugeInv

-----------------------------------------------------------------------------
(* Healthy addresses.                                                      *)

\* An address that stayed healthy is reachable now, and since the request
\* arrived every failed attempt of it has marked an address of its own.
HealthyOK(q) ==
    /\ q.good \subseteq Reachable(route, bad, proto)
    /\ q.good # {} =>
          /\ q.pc = "serve" => q.i <= Cardinality(bad)
          /\ Chosen(q) => q.i <= Cardinality(bad \ {q.pod})
          /\ q.pc = "backoff" => q.i + 1 <= Cardinality(bad) /\ Len(route) # 1
          /\ Len(route) = 1 => q.i = 0

HealthyInv == \A r \in Reqs : HealthyOK(req[r])

\* Sets of addresses are finite, and marking one counts it once.
LEMMA BadCounts ==
    ASSUME SharedType, NEW p \in Pods
    PROVE  /\ Cardinality(bad) \in Nat /\ Cardinality(bad \ {p}) \in Nat
           /\ Cardinality(bad \cup {p}) = Cardinality(bad \ {p}) + 1
           /\ \A o : Cardinality(bad \ {o}) <= Cardinality((bad \cup {p}) \ {o})
           /\ Cardinality(bad) <= Cardinality(bad \cup {p})
<1>1. IsFiniteSet(Pods) /\ IsFiniteSet(bad)
  BY ConfigAssumption, FS_Subset DEF SharedType
<1>2. \A S \in SUBSET Pods : IsFiniteSet(S) /\ Cardinality(S) \in Nat
  BY <1>1, FS_Subset, FS_CardinalityType
<1>3. \A S, T \in SUBSET Pods : S \subseteq T => Cardinality(S) <= Cardinality(T)
  BY <1>2, FS_Subset
<1>4. bad \in SUBSET Pods /\ bad \ {p} \in SUBSET Pods /\ bad \cup {p} \in SUBSET Pods
  BY DEF SharedType
<1>5. Cardinality((bad \ {p}) \cup {p}) = Cardinality(bad \ {p}) + 1
  BY <1>2, <1>4, FS_AddElement
<1>6. (bad \ {p}) \cup {p} = bad \cup {p}
  OBVIOUS
<1>7. \A o : Cardinality(bad \ {o}) <= Cardinality((bad \cup {p}) \ {o})
  <2> TAKE o
  <2>1. bad \ {o} \in SUBSET Pods /\ (bad \cup {p}) \ {o} \in SUBSET Pods
        /\ bad \ {o} \subseteq (bad \cup {p}) \ {o}
    BY <1>4
  <2> QED
    BY <1>3, <2>1
<1> QED
  BY <1>2, <1>3, <1>4, <1>5, <1>6, <1>7

\* While a healthy address is left a choice finds an address, a list of one is
\* up, and the attempts are not used up.
LEMMA HealthyChoice ==
    ASSUME RequestInv, ChosenInv, NEW r \in Reqs, HealthyOK(req[r]), req[r].good # {}
    PROVE  /\ Lookup # NoPod
           /\ Len(route) = 1 => \A p \in ToSet(route) : Up(p)
           /\ req[r].pc = "backoff" => req[r].i + 1 < MaxRetry
<1>1. PICK g \in req[r].good : g \in ToSet(route) /\ proto[g] # {} /\ (g \notin bad \/ Len(route) = 1)
  BY DEF HealthyOK, Reachable
<1>2. SharedType /\ route \in Seq(Pods) /\ req[r] \in ReqType
  BY ConfigAssumption DEF RequestInv, SharedType
<1>3. Lookup # NoPod
  BY <1>1, <1>2, LookupSound
<1>4. Len(route) = 1 => \A p \in ToSet(route) : Up(p)
  <2> SUFFICES ASSUME Len(route) = 1, NEW p \in ToSet(route) PROVE Up(p)
    OBVIOUS
  <2>1. p = route[1] /\ g = route[1]
    BY <1>1, <1>2 DEF ToSet
  <2> QED
    BY <1>1, <2>1 DEF Up
<1>5. ASSUME req[r].pc = "backoff" PROVE req[r].i + 1 < MaxRetry
  <2>1. g \notin bad /\ g \in Pods /\ req[r].i + 1 <= Cardinality(bad)
    BY <1>1, <1>2, <1>5, LookupSound DEF HealthyOK
  <2>2. IsFiniteSet(Pods) /\ bad \in SUBSET Pods
    BY <1>2, ConfigAssumption DEF SharedType
  <2>3. Cardinality(bad) <= Cardinality(Pods) /\ Cardinality(bad) # Cardinality(Pods)
        /\ Cardinality(bad) \in Nat /\ Cardinality(Pods) \in Nat
    BY <2>1, <2>2, FS_Subset, FS_CardinalityType
  <2>4. req[r].i \in Nat
    BY <1>2, ConfigAssumption DEF ReqType
  <2> QED
    BY <2>1, <2>3, <2>4, PodsWithinRetries, ConfigAssumption
<1> QED
  BY <1>3, <1>4, <1>5

\* A request without a healthy address has nothing to show.
LEMMA NothingHealthy ==
    ASSUME NEW q, q.good = {}
    PROVE  HealthyOK(q)
  BY DEF HealthyOK

\* Every step keeps the account of healthy and marked addresses.
LEMMA HealthyStep ==
    ASSUME RequestInv, ChosenInv, HealthyInv, [Next]_vars
    PROVE  HealthyInv'
<1>0. req \in [Reqs -> ReqType] /\ SharedType /\ Idle.good = {} /\ [Idle EXCEPT !.gaveup = TRUE].good = {}
  BY DEF RequestInv, Idle
<1>1. ASSUME NEW r \in Reqs, UNCHANGED <<route, bad, proto>>,
             \A s \in Reqs \ {r} : req'[s] = req[s], HealthyOK(req'[r])
      PROVE  HealthyInv'
  BY <1>1 DEF HealthyInv, HealthyOK, Reachable, Chosen
<1>2. ASSUME NEW r \in Reqs, Arrive(r) PROVE HealthyInv'
  <2>1. UNCHANGED <<route, bad, proto>> /\ \A s \in Reqs \ {r} : req'[s] = req[s]
    BY <1>0, <1>2 DEF Arrive, shared
  <2>2. req'[r].pc = "serve" /\ req'[r].i = 0 /\ req'[r].good \in {{}, Reachable(route, bad, proto)}
    BY <1>0, <1>2 DEF Arrive, Idle
  <2>3. Cardinality(bad) \in Nat
    BY <1>0, ConfigAssumption, FS_Subset, FS_CardinalityType DEF SharedType
  <2>4. HealthyOK(req'[r])
    BY <2>2, <2>3 DEF HealthyOK, Chosen, Wires
  <2> QED
    BY <1>1, <2>1, <2>4
<1>3. ASSUME NEW r \in Reqs, Serve(r) PROVE HealthyInv'
  <2>1. UNCHANGED <<route, bad, proto>> /\ \A s \in Reqs \ {r} : req'[s] = req[s]
    BY <1>0, <1>3 DEF Serve, GiveUp
  <2>2. CASE Lookup = NoPod
    BY <1>0, <1>1, <1>3, <2>1, <2>2, NothingHealthy DEF Serve, GiveUp
  <2>3. CASE Lookup # NoPod
    <3>1. req'[r].pod = Lookup /\ req'[r].i = req[r].i /\ req'[r].good = req[r].good
          /\ req'[r].pc = ServeHTTP(req[r].kind, Lookup) /\ req[r].pc = "serve"
      BY <1>0, <1>3, <2>3 DEF Serve, ReqType
    <3>2. req'[r].pc \notin {"serve", "backoff"}
      BY <1>0, <3>1, ServeHTTPSound DEF ReqType, Wires
    <3>3. Len(route) # 1 => bad \ {Lookup} = bad
      BY <1>0, <2>3, LookupSound
    <3>4. Cardinality(bad \ {Lookup}) \in Nat
      BY <1>0, <2>3, LookupSound, BadCounts
    <3>5. HealthyOK(req[r])
      BY DEF HealthyInv
    <3>6. req[r].good # {} => req[r].i <= Cardinality(bad \ {Lookup})
      BY <3>1, <3>3, <3>4, <3>5 DEF HealthyOK
    <3>7. HealthyOK(req'[r])
      BY <3>1, <3>2, <3>5, <3>6, Zenon DEF HealthyOK
    <3> QED
      BY <1>1, <2>1, <3>7
  <2> QED
    BY <2>2, <2>3
<1>4. ASSUME NEW r \in Reqs, Cold(r) \/ Connect(r) \/ NotSupported(r) PROVE HealthyInv'
  <2>1. UNCHANGED <<route, bad, proto>> /\ \A s \in Reqs \ {r} : req'[s] = req[s]
    BY <1>0, <1>4 DEF Cold, Connect, NotSupported, shared
  <2>2. Chosen(req[r]) /\ Chosen(req'[r]) /\ req'[r].pod = req[r].pod /\ req'[r].i = req[r].i
        /\ req'[r].good = req[r].good
    BY <1>0, <1>4 DEF Cold, Connect, NotSupported, Dialing, Chosen, ReqType, Wires
  <2>3. HealthyOK(req'[r])
    BY <2>2 DEF HealthyInv, HealthyOK, Chosen, Wires
  <2> QED
    BY <1>1, <2>1, <2>3
<1>5. ASSUME NEW r \in Reqs, DialError(r) PROVE HealthyInv'
  <2> DEFINE p == req[r].pod
  <2>0. p \in ToSet(route) /\ p \in Pods /\ ~Up(p) /\ Chosen(req[r])
    BY <1>0, <1>5, LookupSound DEF DialError, Dialing, ChosenInv, Chosen
  <2>1. UNCHANGED <<route, proto>> /\ bad' = bad \cup {p} /\ \A s \in Reqs \ {r} : req'[s] = req[s]
    BY <1>0, <1>5 DEF DialError, MarkBad, End, shared
  <2>2. \/ req'[r].good = {}
        \/ req'[r].pc = "backoff" /\ req'[r].i = req[r].i /\ req'[r].good = req[r].good
    BY <1>0, <1>5 DEF DialError, End, ReqType
  <2>3. /\ Cardinality(bad') = Cardinality(bad \ {p}) + 1
        /\ \A o : Cardinality(bad \ {o}) <= Cardinality(bad' \ {o})
        /\ Cardinality(bad) <= Cardinality(bad')
    BY <1>0, <2>0, <2>1, BadCounts
  <2>4. Cardinality(bad) \in Nat /\ Cardinality(bad') \in Nat /\ Cardinality(bad \ {p}) \in Nat
        /\ \A o : Cardinality(bad \ {o}) \in Nat /\ Cardinality(bad' \ {o}) \in Nat
    <3>1. \A S \in SUBSET Pods : Cardinality(S) \in Nat
      BY ConfigAssumption, FS_Subset, FS_CardinalityType
    <3>2. bad \in SUBSET Pods /\ bad' \in SUBSET Pods
          /\ \A o : bad \ {o} \in SUBSET Pods /\ bad' \ {o} \in SUBSET Pods
      BY <1>0, <2>0, <2>1 DEF SharedType
    <3> QED
      BY <3>1, <3>2
  <2>5. \A g : g \in Reachable(route, bad, proto) => g \in Reachable(route, bad', proto)
    BY <2>0, <2>1 DEF Reachable, Up
  <2> HIDE DEF p
  <2>6. ASSUME NEW s \in Reqs \ {r} PROVE HealthyOK(req[s])'
    <3>1. req'[s] = req[s] /\ HealthyOK(req[s]) /\ req[s].i \in Nat
      BY <1>0, <2>1, ConfigAssumption DEF HealthyInv, ReqType
    <3>2. req'[s].good \subseteq Reachable(route', bad', proto')
      BY <2>1, <2>5, <3>1 DEF HealthyOK
    <3>3. /\ req[s].i <= Cardinality(bad) => req[s].i <= Cardinality(bad')
          /\ req[s].i + 1 <= Cardinality(bad) => req[s].i + 1 <= Cardinality(bad')
          /\ req[s].i <= Cardinality(bad \ {req[s].pod}) => req[s].i <= Cardinality(bad' \ {req[s].pod})
      <4>1. /\ Cardinality(bad \ {req[s].pod}) <= Cardinality(bad' \ {req[s].pod})
            /\ Cardinality(bad \ {req[s].pod}) \in Nat /\ Cardinality(bad' \ {req[s].pod}) \in Nat
        BY <2>3, <2>4, Zenon
      <4> QED
        BY <2>3, <2>4, <3>1, <4>1
    <3> QED
      BY <2>1, <3>1, <3>2, <3>3, Zenon DEF HealthyOK, Chosen
  <2>7. HealthyOK(req[r])'
    <3>1. CASE req'[r].good = {}
      BY <3>1 DEF HealthyOK
    <3>2. CASE req'[r].good # {}
      <4>1. req'[r].pc = "backoff" /\ req'[r].i = req[r].i /\ req'[r].good = req[r].good
        BY <2>2, <3>2
      <4>2. HealthyOK(req[r]) /\ req[r].good # {} /\ req[r].i \in Nat
        BY <1>0, <3>2, <4>1, ConfigAssumption DEF HealthyInv, ReqType
      <4>3. Len(route) # 1
        BY <2>0, <4>2, HealthyChoice
      <4>4. req[r].i <= Cardinality(bad \ {p})
        BY <2>0, <4>2 DEF HealthyOK, p
      <4>5. req'[r].i + 1 <= Cardinality(bad')
        BY <2>3, <2>4, <4>1, <4>2, <4>4
      <4>6. req'[r].good \subseteq Reachable(route', bad', proto')
        BY <2>1, <2>5, <4>1, <4>2 DEF HealthyOK
      <4> QED
        BY <2>1, <4>1, <4>3, <4>5, <4>6 DEF HealthyOK, Chosen, Wires
    <3> QED
      BY <3>1, <3>2
  <2> QED
    BY <2>6, <2>7 DEF HealthyInv
<1>6. ASSUME NEW r \in Reqs, BackoffElapsed(r) PROVE HealthyInv'
  <2>1. UNCHANGED <<route, bad, proto>> /\ \A s \in Reqs \ {r} : req'[s] = req[s]
    BY <1>0, <1>6 DEF BackoffElapsed, GiveUp, shared
  <2>2. \/ req'[r].good = {}
        \/ req[r].pc = "backoff" /\ req'[r].pc = "serve" /\ req'[r].i = req[r].i + 1 /\ req'[r].good = req[r].good
    <3>1. CASE req[r].i + 1 < MaxRetry
      BY <1>0, <1>6, <3>1 DEF BackoffElapsed, ReqType
    <3>2. CASE ~(req[r].i + 1 < MaxRetry)
      <4>1. req' = [req EXCEPT ![r] = [Idle EXCEPT !.gaveup = TRUE]]
        BY <1>6, <3>2 DEF BackoffElapsed, GiveUp
      <4> QED
        BY <1>0, <4>1
    <3> QED
      BY <3>1, <3>2
  <2>3. HealthyOK(req'[r])
    BY <2>2 DEF HealthyInv, HealthyOK, Chosen, Wires
  <2> QED
    BY <1>1, <2>1, <2>3
<1>7. ASSUME NEW r \in Reqs, Respond(r) \/ Accept(r) \/ TunnelEnds(r) PROVE HealthyInv'
  <2>1. UNCHANGED <<route, bad, proto>> /\ \A s \in Reqs \ {r} : req'[s] = req[s]
    BY <1>0, <1>7 DEF Respond, Accept, TunnelEnds, End, shared
  <2>2. req'[r].good = {}
    BY <1>0, <1>7 DEF Respond, Accept, TunnelEnds, End, ReqType
  <2> QED
    BY <1>1, <2>1, <2>2, NothingHealthy
<1>8. ASSUME NEW r \in Reqs, LateError(r) PROVE HealthyInv'
  <2>1. UNCHANGED <<route, bad, proto>> /\ \A s \in Reqs \ {r} : req'[s] = req[s]
    BY <1>0, <1>8 DEF LateError, End, shared
  <2>2. \/ req'[r].good = {}
        \/ Chosen(req[r]) /\ req'[r].pc = "h1" /\ req'[r].pod = req[r].pod /\ req'[r].i = req[r].i
           /\ req'[r].good = req[r].good
    BY <1>0, <1>8 DEF LateError, Sent, Chosen, End, ReqType
  <2>3. HealthyOK(req'[r])
    BY <2>2 DEF HealthyInv, HealthyOK, Chosen
  <2> QED
    BY <1>1, <2>1, <2>3
<1>9. ASSUME NEW r \in Reqs, CopyUpEnds(r) \/ CopyDownEnds(r) \/ Cancel(r) \/ Peers(r) PROVE HealthyInv'
  <2>1. UNCHANGED <<route, bad, proto>> /\ \A s \in Reqs \ {r} : req'[s] = req[s]
    <3>1. CASE CopyUpEnds(r) \/ CopyDownEnds(r) \/ Cancel(r)
      BY <1>0, <3>1 DEF CopyUpEnds, CopyDownEnds, Cancel, Drop, End, shared
    <3>2. CASE Peers(r)
      BY <1>0, <3>2, PeersMove DEF shared
    <3> QED
      BY <1>9, <3>1, <3>2
  <2>2. \/ req'[r].good = {}
        \/ req'[r].pc = "tunnel" /\ req'[r].i = req[r].i /\ req'[r].good = req[r].good
    <3>1. CASE CopyUpEnds(r) \/ CopyDownEnds(r) \/ Cancel(r)
      BY <1>0, <3>1 DEF CopyUpEnds, CopyDownEnds, Cancel, Drop, End, InTunnel, ReqType
    <3>2. CASE Peers(r)
      BY <1>0, <3>2, PeersMove DEF InTunnel, ReqType
    <3> QED
      BY <1>9, <3>1, <3>2
  <2>3. HealthyOK(req'[r])
    BY <2>2 DEF HealthyInv, HealthyOK, Chosen, Wires
  <2> QED
    BY <1>1, <2>1, <2>3
<1>10. CASE BadExpires
  <2>1. \A r \in Reqs : req'[r].good = {}
    <3>1. \A r \in Reqs : Narrow({})[r].good = req[r].good \cap {}
      BY <1>0, SeveredAlike
    <3> QED
      BY <1>10, <3>1 DEF BadExpires
  <2> QED
    BY <2>1 DEF HealthyInv, HealthyOK
<1>11. CASE VerdictExpires \/ NegativeExpires
  BY <1>11 DEF VerdictExpires, NegativeExpires, shared, HealthyInv, HealthyOK, Reachable, Chosen
<1>12. ASSUME NEW p \in Pods, PodChanges(p) PROVE HealthyInv'
  <2>1. UNCHANGED <<route, bad>>
        /\ req' = [r \in Reqs |-> Severed(Narrow(Reachable(route, bad, proto'))[r], p)]
    BY <1>12 DEF PodChanges
  <2>2. \A r \in Reqs : /\ Alike(req'[r], req[r])
                        /\ req'[r].good = req[r].good \cap Reachable(route, bad, proto')
    BY <1>0, <2>1, SeveredAlike
  <2>3. ASSUME NEW r \in Reqs PROVE HealthyOK(req[r])'
    <3>1. HealthyOK(req[r])
      BY DEF HealthyInv
    <3>2. req'[r].good \subseteq Reachable(route', bad', proto') /\ req'[r].good \subseteq req[r].good
      BY <2>1, <2>2
    <3> QED
      BY <2>1, <2>2, <3>1, <3>2 DEF HealthyOK, Alike, Chosen
  <2> QED
    BY <2>3 DEF HealthyInv
<1>13. CASE UNCHANGED vars
  BY <1>13 DEF vars, HealthyInv, HealthyOK, Reachable, Chosen
<1> QED
  BY <1>2, <1>3, <1>4, <1>5, <1>6, <1>7, <1>8, <1>9, <1>10, <1>11, <1>12, <1>13 DEF Next, Step, Environment

-----------------------------------------------------------------------------
(* The theorems.                                                           *)

Inv == RequestInv /\ ChosenInv /\ ProbeInv /\ GaugeInv /\ HealthyInv

LEMMA InvInit == Init => Inv
<1>1. Init => HealthyInv
  BY DEF Init, HealthyInv, HealthyOK, Idle
<1> QED
  BY <1>1, RequestInit, ProbeGaugeInit DEF Inv

LEMMA InvStep == Inv /\ [Next]_vars => Inv'
  BY RequestStep, ProbeGaugeStep, HealthyStep DEF Inv

\* The state is well-formed; in particular the attempts of a request stay below
\* the limit of retryMiddleware.
THEOREM TypeCorrect == Spec => []TypeOK
<1>1. Inv => TypeOK
  BY DEF Inv, RequestInv, SharedType, ReqType, Parts, TypeOK
<1> QED
  BY <1>1, InvInit, InvStep, PTL DEF Spec

\* Whatever dials fail, pods change and clients go away: a request that a pod
\* may have processed is not put on a wire again unless it is plain, and a body
\* that was streamed is never offered to another attempt.
THEOREM OnceOnlyHolds == Spec => []OnceOnly
<1>1. Inv => OnceOnly
  BY DEF Inv, RequestInv, RequestOK, OnceOK, OnceOnly, InTunnel, Sent
<1> QED
  BY <1>1, InvInit, InvStep, PTL DEF Spec

\* The marker of the single-flight probe is set exactly while one request holds
\* it, and only that one probes.
THEOREM ProbeOwnedHolds == Spec => []ProbeOwned
<1>1. Inv => ProbeOwned
  BY DEF Inv, ProbeInv, RequestInv, RequestOK, ProberOK, ProbeOwned
<1> QED
  BY <1>1, InvInit, InvStep, PTL DEF Spec

\* The gauge of backend connections is exact for any number of tunnels, each
\* closed by two copies and a deferred close in any order.
THEOREM GaugeExactHolds == Spec => []GaugeExact
<1>1. Inv => GaugeExact
  <2> SUFFICES ASSUME Inv PROVE GaugeExact
    OBVIOUS
  <2> DEFINE W == {r \in Reqs : req[r].pc = "wsh1" /\ Sent(r)}
             C == {r \in Reqs : InTunnel(r) /\ Open(r, "conn")}
  <2>1. Counted = W \cup C /\ W \cap C = {}
    BY DEF Counted, Counts, Sent, InTunnel, Open, Wires
  <2>2. IsFiniteSet(W) /\ IsFiniteSet(C)
    BY ConfigAssumption, FS_Subset
  <2>3. Cardinality(W \cup C) = Cardinality(W) + Cardinality(C)
    <3>0. Cardinality(W \cap C) = Cardinality({})
      BY <2>1, Zenon
    <3> HIDE DEF W, C
    <3>1. Cardinality(W) \in Nat /\ Cardinality(C) \in Nat /\ Cardinality({}) = 0
      BY <2>2, FS_CardinalityType, FS_EmptySet
    <3>2. Cardinality(W \cup C) = Cardinality(W) + Cardinality(C) - Cardinality(W \cap C)
      BY <2>2, FS_Union
    <3> QED
      BY <3>0, <3>1, <3>2
  <2> QED
    BY <2>1, <2>3 DEF Inv, GaugeInv, GaugeExact
<1> QED
  BY <1>1, InvInit, InvStep, PTL DEF Spec

\* While one listed address has stayed up and unmarked since the request
\* arrived and no mark has expired, the request is not given up, for any number
\* of other requests that move the counter and mark addresses: each of its
\* failed attempts marked an address of its own, so that the healthy one is
\* found before the retries are used up.
THEOREM ReachesHealthyHolds == Spec => ReachesHealthyPod
<1> DEFINE A == \A r \in Reqs :
                    /\ req[r].pc # "idle" /\ req[r].good # {}
                    /\ req'[r].pc = "idle"
                    => ~ req'[r].gaveup
<1>1. Inv /\ [Next]_vars => [A]_vars
  <2> SUFFICES ASSUME Inv, Next, NEW r \in Reqs, req[r].pc # "idle", req[r].good # {}, req'[r].pc = "idle"
               PROVE  ~req'[r].gaveup
    OBVIOUS
  <2>0. req \in [Reqs -> ReqType] /\ Lookup # NoPod /\ (req[r].pc = "backoff" => req[r].i + 1 < MaxRetry)
    BY HealthyChoice DEF Inv, RequestInv, HealthyInv
  <2>1. ASSUME NEW s \in Reqs, Arrive(s) \/ Step(s) \/ Cancel(s) \/ Peers(s) PROVE ~req'[r].gaveup
    <3>1. CASE s # r
      <4>1. PICK q : req' = [req EXCEPT ![s] = q]
        BY <2>1, StepMoves DEF Inv, Move
      <4> QED
        BY <2>0, <3>1, <4>1
    <3>2. CASE s = r
      <4>0. Idle.gaveup = FALSE
        BY DEF Idle
      <4>1. CASE Arrive(r) \/ Serve(r) \/ Cold(r) \/ Connect(r) \/ BackoffElapsed(r)
        <5>1. CASE Serve(r)
          <6>1. req'[r].pc = ServeHTTP(req[r].kind, Lookup)
            BY <2>0, <5>1 DEF Serve, ReqType
          <6>2. SharedType /\ req[r].kind \in Kinds
            BY <2>0 DEF Inv, RequestInv, ReqType
          <6>3. req'[r].pc # "idle"
            BY <6>1, <6>2, ServeHTTPSound DEF Wires
          <6> QED
            BY <6>3
        <5>2. CASE Arrive(r) \/ Cold(r)
          <6>1. ~Arrive(r)
            BY DEF Arrive
          <6>2. CASE Cold(r)
            <7>1. req'[r].pc \in {"h1", "probe"}
              BY <2>0, <6>2 DEF Cold, ReqType
            <7> QED
              BY <7>1
          <6> QED
            BY <5>2, <6>1, <6>2
        <5>3. CASE Connect(r)
          <6>1. req'[r].pc = req[r].pc
            BY <2>0, <5>3 DEF Connect, ReqType
          <6> QED
            BY <6>1
        <5>4. CASE BackoffElapsed(r)
          <6>1. req' = [req EXCEPT ![r].pc = "serve", ![r].i = @ + 1]
            BY <2>0, <5>4 DEF BackoffElapsed
          <6>2. req'[r].pc = "serve"
            BY <2>0, <6>1 DEF ReqType
          <6> QED
            BY <6>2
        <5> QED
          BY <4>1, <5>1, <5>2, <5>3, <5>4
      <4>2. CASE DialError(r) \/ Respond(r) \/ LateError(r) \/ TunnelEnds(r) \/ Cancel(r)
        <5>1. req'[r] = Idle \/ req'[r].pc \in {"backoff", "h1", "tunnel"}
          BY <2>0, <4>2 DEF DialError, Respond, LateError, TunnelEnds, Cancel, InTunnel, End, ReqType
        <5> QED
          BY <4>0, <5>1
      <4>3. CASE Accept(r) \/ NotSupported(r) \/ CopyUpEnds(r) \/ CopyDownEnds(r)
        BY <2>0, <4>3 DEF Accept, NotSupported, CopyUpEnds, CopyDownEnds, Drop, InTunnel, ReqType
      <4>4. CASE Peers(r)
        <5>1. req'[r].pc = "tunnel"
          BY <2>0, <4>4, PeersMove DEF Inv, InTunnel, ReqType
        <5> QED
          BY <5>1
      <4> QED
        BY <2>1, <3>2, <4>1, <4>2, <4>3, <4>4 DEF Step
    <3> QED
      BY <3>1, <3>2
  <2>2. CASE Environment
    BY <2>2, EnvironmentAlike DEF Inv, Alike
  <2> QED
    BY <2>1, <2>2 DEF Next
<1> QED
  BY <1>1, InvInit, InvStep, PTL DEF Spec, ReachesHealthyPod
=============================================================================
