----------------------------- MODULE WatchProofs -----------------------------
(***************************************************************************)
(* Proofs about what the controller knows of the cluster: the store behind *)
(* a watch (ResourceWatch) and the routes that are computed from the       *)
(* stores (EndpointRoutes).                                                *)
(*                                                                         *)
(* First, a drained watch leaves no live object stale, for any set of      *)
(* objects, any number of changes and any number of events in flight.      *)
(* While the server feeds the watch, the last event in flight about a live *)
(* object carries its current version; with none in flight the store has   *)
(* it.  Only what the new watch starts with makes that true again after a  *)
(* stream was cut: nothing is known of the store while no watch is open.   *)
(***************************************************************************)
EXTENDS ResourceWatch, EndpointRoutes, SequenceTheorems, FiniteSetTheorems, TLAPS

\* Event i is the last one in flight about object k.
LastAbout(q, k, i) ==
    /\ i \in 1..Len(q) /\ q[i].key = k
    /\ \A j \in 1..Len(q) : j > i => q[j].key # k

\* The events of queue q, mirrored into st, bring object k to version v.
Follows(q, st, k, v) ==
    \/ \E i \in 1..Len(q) : LastAbout(q, k, i) /\ q[i].type = "Upsert" /\ q[i].ver = v
    \/ (\A i \in 1..Len(q) : q[i].key # k) /\ st[k] = v

\* A watch is fed only while the goroutine reads it; an Error ends it.
Fed ==
    open => /\ at \in {"watch", "call"}
            /\ \A i \in 1..Len(queue) : queue[i].type # "Error"

InFlight == open => \A k \in Keys : cluster[k] # 0 => Follows(queue, store, k, cluster[k])

WatchInv == WatchTypeOK /\ Fed /\ InFlight

-----------------------------------------------------------------------------
\* An event that is queued speaks for its own object and leaves the others.
LEMMA AppendFollows ==
    ASSUME NEW q \in Seq(Events), NEW st, NEW e \in Events, NEW k \in Keys, NEW v
    PROVE  /\ e.key = k /\ e.type = "Upsert" /\ e.ver = v => Follows(Append(q, e), st, k, v)
           /\ e.key # k /\ Follows(q, st, k, v) => Follows(Append(q, e), st, k, v)
<1> DEFINE a == Append(q, e)
<1>1. /\ Len(q) \in Nat /\ Len(a) = Len(q) + 1 /\ a[Len(q) + 1] = e
      /\ \A i \in 1..Len(q) : a[i] = q[i]
  BY AppendProperties
<1> HIDE DEF a
<1>2. ASSUME e.key = k, e.type = "Upsert", e.ver = v PROVE Follows(a, st, k, v)
  <2>1. LastAbout(a, k, Len(q) + 1)
    BY <1>1, <1>2 DEF LastAbout
  <2> QED
    BY <1>1, <1>2, <2>1 DEF Follows
<1>3. ASSUME e.key # k, Follows(q, st, k, v) PROVE Follows(a, st, k, v)
  <2>1. CASE \E i \in 1..Len(q) : LastAbout(q, k, i) /\ q[i].type = "Upsert" /\ q[i].ver = v
    <3>1. PICK i \in 1..Len(q) : LastAbout(q, k, i) /\ q[i].type = "Upsert" /\ q[i].ver = v
      BY <2>1
    <3>2. LastAbout(a, k, i) /\ a[i] = q[i] /\ i \in 1..Len(a)
      BY <1>1, <1>3, <3>1 DEF LastAbout
    <3> QED
      BY <3>1, <3>2 DEF Follows
  <2>2. CASE (\A i \in 1..Len(q) : q[i].key # k) /\ st[k] = v
    <3>1. \A i \in 1..Len(a) : a[i].key # k
      BY <1>1, <1>3, <2>2
    <3> QED
      BY <2>2, <3>1 DEF Follows
  <2> QED
    BY <1>3, <2>1, <2>2 DEF Follows
<1> QED
  BY <1>2, <1>3 DEF a

\* The delivery of the first event: what it says is stored, the rest follows.
LEMMA DeliverFollows ==
    ASSUME NEW q \in Seq(Events), q # <<>>, NEW st, NEW st2, NEW k \in Keys, NEW v,
           Follows(q, st, k, v),
           Head(q).key = k /\ Head(q).type = "Upsert" => st2[k] = Head(q).ver,
           Head(q).key # k => st2[k] = st[k]
    PROVE  Follows(Tail(q), st2, k, v)
<1> DEFINE t == Tail(q)
<1>1. /\ Len(q) \in Nat \ {0} /\ Len(t) = Len(q) - 1 /\ \A i \in 1..Len(t) : t[i] = q[i + 1]
      /\ Head(q) = q[1]
  BY HeadTailProperties, EmptySeq
<1> SUFFICES Follows(t, st2, k, v)
  OBVIOUS
<1> HIDE DEF t
<1>2. CASE \E i \in 1..Len(q) : LastAbout(q, k, i) /\ q[i].type = "Upsert" /\ q[i].ver = v
  <2>1. PICK i \in 1..Len(q) : LastAbout(q, k, i) /\ q[i].type = "Upsert" /\ q[i].ver = v
    BY <1>2
  <2>2. CASE i = 1
    <3>1. st2[k] = v
      BY <1>1, <2>1, <2>2 DEF LastAbout
    <3>2. ASSUME NEW j \in 1..Len(t) PROVE t[j].key # k
      <4>1. t[j] = q[j + 1] /\ j + 1 \in 1..Len(q) /\ j + 1 > 1
        BY <1>1
      <4> QED
        BY <2>1, <2>2, <4>1 DEF LastAbout
    <3> QED
      BY <3>1, <3>2 DEF Follows
  <2>3. CASE i # 1
    <3>1. i - 1 \in 1..Len(t) /\ (i - 1) + 1 = i
      BY <1>1, <2>3
    <3>2. t[i - 1] = q[i]
      BY <1>1, <3>1
    <3>3. ASSUME NEW j \in 1..Len(t), j > i - 1 PROVE t[j].key # k
      <4>1. t[j] = q[j + 1] /\ j + 1 \in 1..Len(q) /\ j + 1 > i
        BY <1>1, <3>3
      <4> QED
        BY <2>1, <4>1 DEF LastAbout
    <3>4. LastAbout(t, k, i - 1)
      BY <2>1, <3>1, <3>2, <3>3 DEF LastAbout
    <3> QED
      BY <2>1, <3>1, <3>2, <3>4 DEF Follows
  <2> QED
    BY <2>2, <2>3
<1>3. CASE (\A i \in 1..Len(q) : q[i].key # k) /\ st[k] = v
  <2>1. Head(q).key # k
    BY <1>1, <1>3
  <2>2. ASSUME NEW j \in 1..Len(t) PROVE t[j].key # k
    <3>1. t[j] = q[j + 1] /\ j + 1 \in 1..Len(q)
      BY <1>1
    <3> QED
      BY <1>3, <3>1
  <2> QED
    BY <1>3, <2>1, <2>2 DEF Follows
<1> QED
  BY <1>2, <1>3 DEF Follows

\* A watch starts with an Added for every live object.
LEMMA OpenFollows ==
    ASSUME WatchTypeOK, OpenWatch
    PROVE  /\ queue' \in Seq(Events)
           /\ \A i \in 1..Len(queue') : queue'[i].type = "Upsert"
           /\ \A k \in Keys : cluster[k] # 0 => Follows(queue', store, k, cluster[k])
<1> DEFINE n == Cardinality(Live)
<1>1. n \in Nat
  BY KeysAssumption, FS_Subset, FS_CardinalityType DEF Live
<1>2. PICK live \in Bijection(1..n, Live) :
          queue' = [i \in 1..n |-> WatchEvent("Upsert", live[i], cluster[live[i]])]
  BY DEF OpenWatch
<1> HIDE DEF n
<1>3. /\ live \in [1..n -> Live] /\ (\A i, j \in 1..n : live[i] = live[j] => i = j)
      /\ (\A k \in Live : \E i \in 1..n : live[i] = k)
  BY DEF Bijection, Injection, Surjection, IsInjective
<1>4. \A i \in 1..n : live[i] \in Keys /\ cluster[live[i]] \in Version
  BY <1>3 DEF Live, WatchTypeOK
<1>5. \A i \in 1..n : WatchEvent("Upsert", live[i], cluster[live[i]]) \in Events
  BY <1>4 DEF WatchEvent, Events
<1>6. queue' \in Seq(Events) /\ Len(queue') = n
  BY <1>1, <1>2, <1>5
<1>7. \A i \in 1..n : /\ queue'[i].type = "Upsert" /\ queue'[i].key = live[i]
                      /\ queue'[i].ver = cluster[live[i]]
  BY <1>2 DEF WatchEvent
<1>8. ASSUME NEW k \in Keys, cluster[k] # 0 PROVE Follows(queue', store, k, cluster[k])
  <2>1. PICK i \in 1..n : live[i] = k
    BY <1>3, <1>8 DEF Live
  <2>2. \A j \in 1..n : j > i => live[j] # k
    BY <1>1, <1>3, <2>1
  <2> QED
    BY <1>6, <1>7, <2>1, <2>2 DEF Follows, LastAbout
<1> QED
  BY <1>6, <1>7, <1>8

-----------------------------------------------------------------------------
\* The process starts without a watch.
LEMMA WatchInvInit == WatchInit => WatchInv
<1> SUFFICES ASSUME WatchInit PROVE WatchInv
  OBVIOUS
<1>1. {0, 1} \subseteq Version /\ NoObjects \in [Keys -> Version]
  BY OpsAssumption DEF Version, NoObjects
<1>2. cluster \in [Keys -> Version]
  BY <1>1 DEF WatchInit
<1>3. queue \in Seq(Events) /\ ops \in 0..MaxOps /\ todo \subseteq Keys /\ open = FALSE
  BY OpsAssumption DEF WatchInit
<1>4. WatchTypeOK
  BY <1>1, <1>2, <1>3 DEF WatchInit, WatchTypeOK
<1> QED
  BY <1>3, <1>4 DEF WatchInv, Fed, InFlight

\* A change of the cluster is queued, if the watch is open.
LEMMA ChangeStep ==
    ASSUME WatchInv, NEW k \in Keys, NEW v \in Version, NEW kind \in {"Upsert", "Deleted"},
           Change(k, v, kind), kind = "Deleted" => v = 0
    PROVE  WatchInv'
<1>0. WatchTypeOK /\ Fed /\ InFlight
  BY DEF WatchInv
<1> DEFINE e == WatchEvent(kind, k, v)
<1>1. e \in Events /\ e.key = k /\ e.type = kind /\ e.ver = v
  BY DEF WatchEvent, Events
<1>2. cluster' \in [Keys -> Version] /\ ops' \in 0..MaxOps /\ queue' \in Seq(Events)
  BY <1>0, <1>1, OpsAssumption DEF Change, WatchTypeOK
<1>3. WatchTypeOK'
  BY <1>0, <1>2 DEF Change, ctrl, WatchTypeOK
<1>4. CASE ~open
  BY <1>3, <1>4 DEF Change, WatchInv, Fed, InFlight
<1>5. CASE open
  <2> HIDE DEF e
  <2>1. queue' = Append(queue, e) /\ UNCHANGED <<open, at, store>>
    BY <1>5 DEF Change, ctrl, e
  <2>2. Fed'
    BY <1>0, <1>1, <2>1 DEF Fed, WatchTypeOK
  <2>3. ASSUME NEW j \in Keys, cluster'[j] # 0 PROVE Follows(queue', store', j, cluster'[j])
    <3>1. CASE j = k
      <4>1. cluster'[k] = v /\ kind = "Upsert"
        BY <1>0, <2>3, <3>1 DEF Change, WatchTypeOK
      <4> QED
        BY <1>0, <1>1, <2>1, <3>1, <4>1, AppendFollows DEF WatchTypeOK
    <3>2. CASE j # k
      <4>1. cluster'[j] = cluster[j]
        BY <1>0, <3>2 DEF Change, WatchTypeOK
      <4>2. Follows(queue, store, j, cluster[j])
        BY <1>0, <1>5, <2>3, <4>1 DEF InFlight
      <4> QED
        BY <1>0, <1>1, <2>1, <3>2, <4>1, <4>2, AppendFollows DEF WatchTypeOK
    <3> QED
      BY <3>1, <3>2
  <2> QED
    BY <1>3, <2>2, <2>3 DEF WatchInv, InFlight
<1> QED
  BY <1>4, <1>5

\* Every step keeps the events in flight ahead of the store.
LEMMA WatchInvStep == WatchInv /\ [WatchNext]_watchVars => WatchInv'
<1> SUFFICES ASSUME WatchInv, [WatchNext]_watchVars PROVE WatchInv'
  OBVIOUS
<1>0. WatchTypeOK /\ Fed /\ InFlight
  BY DEF WatchInv
<1>1. ASSUME NEW k \in Keys, Put(k) PROVE WatchInv'
  <2>1. ops + 2 \in Version
    BY <1>0, <1>1, OpsAssumption DEF Put, Change, WatchTypeOK, Version
  <2> QED
    BY <1>1, <2>1, ChangeStep DEF Put
<1>2. ASSUME NEW k \in Keys, Delete(k) PROVE WatchInv'
  <2>1. 0 \in Version
    BY OpsAssumption DEF Version
  <2> QED
    BY <1>2, <2>1, ChangeStep DEF Delete
<1>3. CASE CloseWatch
  <2>1. queue' \in Seq(Events)
    <3>1. PICK n \in 0..Len(queue), k \in Keys :
             queue' = SubSeq(queue, 1, n) \/ queue' = Append(SubSeq(queue, 1, n), WatchEvent("Error", k, 0))
      BY <1>3 DEF CloseWatch
    <3>2. SubSeq(queue, 1, n) \in Seq(Events)
      BY <1>0, SubSeqProperties DEF WatchTypeOK
    <3>3. WatchEvent("Error", k, 0) \in Events
      BY OpsAssumption DEF WatchEvent, Events, Version
    <3> QED
      BY <3>1, <3>2, <3>3, AppendProperties
  <2> QED
    BY <1>0, <1>3, <2>1 DEF CloseWatch, api, ctrl, WatchInv, WatchTypeOK, Fed, InFlight
<1>4. CASE PreloadList
  BY <1>0, <1>4 DEF PreloadList, api, WatchInv, WatchTypeOK, Fed, InFlight
<1>5. CASE FirstReload
  BY <1>0, <1>5 DEF FirstReload, api, WatchInv, WatchTypeOK, Fed, InFlight
<1>6. CASE OpenWatch
  <2>1. UNCHANGED <<cluster, ops, store, listing, todo, announced, ready>> /\ open' = TRUE /\ at' = "watch"
    BY <1>6 DEF OpenWatch, api, ctrl
  <2>2. WatchTypeOK'
    BY <1>0, <1>6, <2>1, OpenFollows DEF WatchTypeOK
  <2>3. Fed'
    BY <1>0, <1>6, <2>1, OpenFollows DEF Fed
  <2>4. InFlight'
    BY <1>0, <1>6, <2>1, OpenFollows DEF InFlight
  <2> QED
    BY <2>2, <2>3, <2>4 DEF WatchInv
<1>7. CASE Deliver
  <2> DEFINE e == Head(queue)
  <2>1. queue \in Seq(Events) /\ queue # <<>> /\ queue' = Tail(queue) /\ e \in Events /\ at = "watch"
        /\ UNCHANGED <<cluster, ops, open, listing, todo, announced, ready>>
    BY <1>0, <1>7, HeadTailProperties DEF Deliver, WatchTypeOK, api
  <2>2. e.key \in Keys /\ e.ver \in Version /\ e.type \in {"Upsert", "Deleted", "Error"} /\ 0 \in Version
    BY <2>1, OpsAssumption DEF Events, Version
  <2>3. /\ e.type = "Upsert" => store' = [store EXCEPT ![e.key] = e.ver] /\ at' = "call"
        /\ e.type = "Deleted" => store' = [store EXCEPT ![e.key] = 0] /\ at' = "call"
        /\ e.type = "Error" => store' = store /\ at' = at
    BY <1>7 DEF Deliver
  <2> HIDE DEF e
  <2>4. store' \in [Keys -> Version] /\ at' \in {"watch", "call"}
    BY <1>0, <2>1, <2>2, <2>3 DEF WatchTypeOK
  <2>5. WatchTypeOK'
    <3>1. queue' \in Seq(Events)
      BY <2>1, HeadTailProperties
    <3> QED
      BY <1>0, <2>1, <2>4, <3>1 DEF WatchTypeOK
  <2>6. Fed'
    <3>1. Len(Tail(queue)) = Len(queue) - 1 /\ \A i \in 1..Len(Tail(queue)) : Tail(queue)[i] = queue[i + 1]
      BY <2>1, HeadTailProperties
    <3>2. \A i \in 1..Len(Tail(queue)) : i + 1 \in 1..Len(queue)
      BY <2>1, <3>1
    <3> QED
      BY <1>0, <2>1, <2>4, <3>1, <3>2 DEF Fed
  <2>7. ASSUME open, NEW k \in Keys, cluster[k] # 0 PROVE Follows(queue', store', k, cluster[k])
    <3>1. Follows(queue, store, k, cluster[k])
      BY <1>0, <2>7 DEF InFlight
    <3>2. e.key # k => store'[k] = store[k]
      BY <1>0, <2>2, <2>3 DEF WatchTypeOK
    <3>3. e.key = k /\ e.type = "Upsert" => store'[k] = e.ver
      BY <1>0, <2>2, <2>3 DEF WatchTypeOK
    <3> QED
      BY <2>1, <3>1, <3>2, <3>3, DeliverFollows DEF e
  <2>8. InFlight'
    BY <2>1, <2>7 DEF InFlight
  <2> QED
    BY <2>5, <2>6, <2>8 DEF WatchInv
<1>8. CASE Call
  BY <1>0, <1>8 DEF Call, api, WatchInv, WatchTypeOK, Fed, InFlight
<1>9. CASE EndOfWatch
  BY <1>0, <1>9 DEF EndOfWatch, api, ctrl, WatchInv, WatchTypeOK, Fed, InFlight
<1>10. CASE Relist
  BY <1>0, <1>10 DEF Relist, api, WatchInv, WatchTypeOK, Fed, InFlight
<1>11. CASE RelistFail
  BY <1>0, <1>11 DEF RelistFail, api, WatchInv, WatchTypeOK, Fed, InFlight
<1>12. ASSUME NEW k \in Keys, Reconcile(k) PROVE WatchInv'
  BY <1>0, <1>12 DEF Reconcile, api, WatchInv, WatchTypeOK, Fed, InFlight
<1>13. CASE ReconcileDone
  BY <1>0, <1>13 DEF ReconcileDone, api, WatchInv, WatchTypeOK, Fed, InFlight
<1>14. CASE UNCHANGED watchVars
  BY <1>0, <1>14 DEF watchVars, WatchInv, WatchTypeOK, Fed, InFlight
<1> QED
  BY <1>1, <1>2, <1>3, <1>4, <1>5, <1>6, <1>7, <1>8, <1>9, <1>10, <1>11, <1>12, <1>13, <1>14
     DEF WatchNext, ApiServer, Controller

-----------------------------------------------------------------------------
\* The store, the listing and the events in flight hold versions that the
\* cluster has had.
THEOREM WatchTypeCorrect == WatchSpec => []WatchTypeOK
<1>1. WatchInv => WatchTypeOK
  BY DEF WatchInv
<1> QED
  BY <1>1, WatchInvInit, WatchInvStep, PTL DEF WatchSpec

\* A drained watch leaves no live object stale: however often streams are cut,
\* lists fail and the cluster changes in between, every object that exists is
\* in the store in its current version.
THEOREM LiveObjectsHold == WatchSpec => []LiveObjectsTracked
<1>1. WatchInv => LiveObjectsTracked
  BY DEF WatchInv, InFlight, Follows, LiveObjectsTracked, Drained
<1> QED
  BY <1>1, WatchInvInit, WatchInvStep, PTL DEF WatchSpec

-----------------------------------------------------------------------------
(***************************************************************************)
(* The routes, for any number of Services, slices and addresses.           *)
(*                                                                         *)
(* HostFresh is not inductive: it says nothing of a goroutine that has     *)
(* read some of the objects and is about to write the table.  FreshInv     *)
(* adds that the reader holds the mutex and that what it has read still    *)
(* tells the truth about each of its Services, unless the other goroutine  *)
(* is going to recompute that Service anyway.  PortFreshUnlessUnasked      *)
(* speaks of rest; PortInv adds who is going to ask for a reload, and that *)
(* a pass that has begun resolves every port from then on.                 *)
(***************************************************************************)

\* Only the holder of the mutex reads, a goroutine with nothing to recompute
\* has no target and one that is in a resync has every Service.
Held ==
    \A w \in Watchers :
        /\ pc[w] = "read" => mu = w
        /\ pc[w] \in {"idle", "call"} => target[w] = {}
        /\ pc[w] = "sync" => target[w] = Services

\* The slices a and b are the same as far as Service s is concerned.
OwnedBy(a, s) == a # Absent /\ a.svc = s
Same(a, b, s) == OwnedBy(a, s) \/ OwnedBy(b, s) => a = b

\* What a reader has seen of a Service that is its own business is current.
Truthful(s) ==
    /\ \A x \in Slices \ left : Same(seen.slices[x], slices[x], s)
    /\ s \notin left => seen.endpoints[s] = endpoints[s]

Mine(w, s) == s \in target[w] /\ \A v \in Watchers \ {w} : s \notin target[v]

Coherent ==
    \A w \in Watchers, s \in Services :
        pc[w] = "read" /\ Mine(w, s) => Truthful(s)

FreshInv == TypeOK /\ Held /\ Coherent /\ HostFresh

-----------------------------------------------------------------------------
\* The route of a Service depends on its own slices and its Endpoints only.
LEMMA AggregateSame ==
    ASSUME NEW S1, NEW S2, NEW E1, NEW E2, NEW s,
           \A x \in Slices : Same(S1[x], S2[x], s), E1[s] = E2[s]
    PROVE  Aggregate(S1, E1, s) = Aggregate(S2, E2, s)
<1>1. SlicesOf(S1, s) = SlicesOf(S2, s)
  BY DEF SlicesOf, Same, OwnedBy
<1>2. \A x \in SlicesOf(S1, s) : S1[x] = S2[x]
  BY DEF SlicesOf, Same, OwnedBy
<1>3. {S1[x].ips : x \in SlicesOf(S1, s)} = {S2[x].ips : x \in SlicesOf(S2, s)}
  BY <1>1, <1>2
<1> QED
  BY <1>1, <1>3 DEF Aggregate

\* A Service's route is a set of addresses.
LEMMA AggregateType ==
    ASSUME NEW S \in [Slices -> SliceObject \cup {Absent}],
           NEW E \in [Services -> EndpointsObject \cup {Absent}],
           NEW s \in Services
    PROVE  Aggregate(S, E, s) \in SUBSET IPs
<1>1. \A x \in SlicesOf(S, s) : S[x].ips \in SUBSET IPs
  BY DEF SlicesOf, SliceObject, Unlabeled
<1>2. E[s] # Absent => E[s].ips \in SUBSET IPs
  BY DEF EndpointsObject
<1>3. UNION {S[x].ips : x \in SlicesOf(S, s)} \in SUBSET IPs
  BY <1>1
<1> QED
  BY <1>2, <1>3 DEF Aggregate

\* A named port resolves to a port or not at all.
LEMMA PortsType ==
    ASSUME NEW S \in [Slices -> SliceObject \cup {Absent}],
           NEW E \in [Services -> EndpointsObject \cup {Absent}],
           NEW s \in Services
    PROVE  TargetPorts(S, E, s) \subseteq Ports \cup {NoPort}
<1>1. \A x \in SlicesOf(S, s) : S[x].port \in Ports \cup {NoPort}
  BY DEF SlicesOf, SliceObject, Unlabeled
<1>2. E[s] # Absent => E[s].port \in Ports
  BY DEF EndpointsObject
<1> QED
  BY <1>1, <1>2 DEF TargetPorts

\* A slice in the store is not an absent one.
LEMMA SlicePresent == Absent \notin SliceObject
<1>1. SliceObject \subseteq [svc : Services \cup {NoService}, ips : SUBSET IPs, port : Ports \cup {NoPort}]
  BY DEF SliceObject, Unlabeled
<1> QED
  BY <1>1, MarksAssumption

\* Every step keeps the variables in their types.
LEMMA TypeStep == TypeOK /\ [Next]_vars => TypeOK'
<1> SUFFICES ASSUME TypeOK, [Next]_vars PROVE TypeOK'
  OBVIOUS
<1> USE WritesAssumption, MarksAssumption DEF TypeOK, Watchers
<1>1. ASSUME NEW T \in SUBSET Services, NEW asks \in BOOLEAN, Changed(T, asks)
      PROVE  /\ UNCHANGED <<host, port, portDue, unresolved, table, mu, left, seen>>
             /\ writes' \in 0..MaxWrites /\ shown' \subseteq Services /\ unasked' \subseteq Services
  BY <1>1 DEF Changed, ports
<1>2. ASSUME NEW w \in Watchers, NEW T \in SUBSET Services, NEW up \in BOOLEAN,
             NEW next \in {"idle", "sync", "lock", "call"}, Mirror(w, T, up, next)
      PROVE  /\ pc' \in [Watchers -> {"idle", "sync", "lock", "read", "call"}]
             /\ target' \in [Watchers -> SUBSET Services]
             /\ upsert' \in [Watchers -> BOOLEAN]
  BY <1>2 DEF Mirror
<1>3. ASSUME NEW x \in Slices, NEW obj \in SliceObject \cup {Absent}
      PROVE  Concerned(x, obj) \in SUBSET Services /\ SliceTarget(obj) \in SUBSET Services
  BY DEF Concerned, SliceTarget
<1>4. ASSUME NEW obj, NEW up PROVE SliceNext(obj, up) \in {"idle", "sync", "lock", "call"}
  BY DEF SliceNext
<1>5. ASSUME NEW x \in Slices, NEW obj \in SliceObject, SliceUpsert(x, obj) PROVE TypeOK'
  <2>1. slices' \in [Slices -> SliceObject \cup {Absent}] /\ endpoints' = endpoints
    BY <1>5 DEF SliceUpsert
  <2>2. /\ pc' \in [Watchers -> {"idle", "sync", "lock", "read", "call"}]
        /\ target' \in [Watchers -> SUBSET Services] /\ upsert' \in [Watchers -> BOOLEAN]
    <3>1. Mirror("slices", SliceTarget(obj), TRUE, SliceNext(obj, TRUE))
      BY <1>5 DEF SliceUpsert
    <3>2. "slices" \in Watchers /\ SliceTarget(obj) \in SUBSET Services
          /\ SliceNext(obj, TRUE) \in {"idle", "sync", "lock", "call"}
      BY <1>4 DEF SliceTarget
    <3> HIDE DEF TypeOK, Watchers
    <3> QED BY <1>2, <3>1, <3>2
  <2>3. Concerned(x, obj) \in SUBSET Services /\ Changed(Concerned(x, obj), TRUE)
    BY <1>3, <1>5 DEF SliceUpsert
  <2> QED BY <1>1, <2>1, <2>2, <2>3
<1>6. ASSUME NEW x \in Slices, SliceDelete(x) PROVE TypeOK'
  <2>1. SliceTarget(slices[x]) \in SUBSET Services
    BY DEF SliceTarget
  <2>2. slices' \in [Slices -> SliceObject \cup {Absent}] /\ endpoints' = endpoints
    BY <1>6 DEF SliceDelete
  <2>3. /\ pc' \in [Watchers -> {"idle", "sync", "lock", "read", "call"}]
        /\ target' \in [Watchers -> SUBSET Services] /\ upsert' \in [Watchers -> BOOLEAN]
    <3>1. Mirror("slices", SliceTarget(slices[x]), FALSE, SliceNext(slices[x], FALSE))
      BY <1>6 DEF SliceDelete
    <3>2. "slices" \in Watchers /\ SliceNext(slices[x], FALSE) \in {"idle", "sync", "lock", "call"}
      BY <1>4
    <3> HIDE DEF TypeOK, Watchers
    <3> QED BY <1>2, <2>1, <3>1, <3>2
  <2>4. Concerned(x, Absent) \in SUBSET Services /\ Changed(Concerned(x, Absent), FALSE)
    BY <1>3, <1>6 DEF SliceDelete
  <2> QED BY <1>1, <2>2, <2>3, <2>4
<1>7. ASSUME NEW s \in Services, NEW obj \in EndpointsObject, EndpointsUpsert(s, obj) PROVE TypeOK'
  BY <1>1, <1>2, <1>7 DEF EndpointsUpsert
<1>8. ASSUME NEW s \in Services, EndpointsDelete(s) PROVE TypeOK'
  BY <1>1, <1>2, <1>8 DEF EndpointsDelete
<1>9. ASSUME NEW w \in Watchers, Resync(w) PROVE TypeOK'
  BY <1>2, <1>9 DEF Resync, stores, ports
<1>10. ASSUME NEW x \in Slices, NEW obj \in SliceObject \cup {Absent}, ResyncSlices(x, obj)
       PROVE TypeOK'
  BY <1>1, <1>3, <1>10 DEF ResyncSlices
<1>11. ASSUME NEW s \in Services, NEW obj \in EndpointsObject \cup {Absent}, ResyncEndpoints(s, obj)
       PROVE TypeOK'
  BY <1>1, <1>11 DEF ResyncEndpoints
<1>12. ASSUME NEW w \in Watchers, ResyncDone(w) PROVE TypeOK'
  BY <1>12 DEF ResyncDone, stores, ports
<1>13. ASSUME NEW w \in Watchers, Lock(w) PROVE TypeOK'
  BY <1>13 DEF Lock, stores, ports
<1>14. ASSUME NEW w \in Watchers, SetHosts(w) PROVE TypeOK'
  <2>1. seen.slices \in [Slices -> SliceObject \cup {Absent}]
        /\ seen.endpoints \in [Services -> EndpointsObject \cup {Absent}]
    OBVIOUS
  <2>2. \A s \in Services : Aggregate(seen.slices, seen.endpoints, s) \in SUBSET IPs
    BY <2>1, AggregateType
  <2>3. host' \in [Services -> SUBSET IPs]
    BY <1>14, <2>2 DEF SetHosts
  <2> QED
    BY <1>14, <2>3 DEF SetHosts, Unseen, stores, ports
<1>15. ASSUME NEW w \in Watchers, CallReloadService(w) PROVE TypeOK'
  BY <1>15 DEF CallReloadService, stores
<1>16. ASSUME NEW w \in Watchers, NEW x \in Slices, ReadSlice(w, x) PROVE TypeOK'
  BY <1>16 DEF ReadSlice, stores, ports
<1>17. ASSUME NEW w \in Watchers, NEW s \in Services, ReadEndpoints(w, s) PROVE TypeOK'
  BY <1>17 DEF ReadEndpoints, stores, ports
<1>18. ASSUME NEW g \in Reloads, ReloadService(g) PROVE TypeOK'
  BY <1>18 DEF ReloadService, stores, hosts
<1>19. ASSUME NEW g \in Reloads, NEW s \in Services, ResolvePort(g, s) PROVE TypeOK'
  <2>1. TargetPorts(slices, endpoints, s) \subseteq Ports \cup {NoPort}
    BY PortsType
  <2>2. PICK n \in TargetPorts(slices, endpoints, s) :
            table' = [table EXCEPT ![g] = [table[g] EXCEPT ![s] = n]]
    BY <1>19 DEF ResolvePort
  <2>3. n \in Ports \cup {NoPort}
    BY <2>1, <2>2
  <2>4. table[g] # Absent
    BY <1>19 DEF ResolvePort
  <2>5. [table[g] EXCEPT ![s] = n] \in [Services -> Ports \cup {NoPort}]
    BY <2>3, <2>4
  <2>6. table' \in [Reloads -> [Services -> Ports \cup {NoPort}] \cup {Absent}]
    BY <2>2, <2>5
  <2> QED
    BY <1>19, <2>6 DEF ResolvePort, stores, hosts
<1>20. ASSUME NEW g \in Reloads, SetPorts(g) PROVE TypeOK'
  BY <1>20 DEF SetPorts, stores, hosts
<1>21. CASE UNCHANGED vars
  BY <1>21 DEF vars, stores, hosts, ports
<1> QED
  BY <1>5, <1>6, <1>7, <1>8, <1>9, <1>10, <1>11, <1>12, <1>13, <1>14, <1>15, <1>16, <1>17, <1>18,
     <1>19, <1>20, <1>21
  DEF Next, Event, System, Recompute, ReloadPorts

\* The initial tables are computed from the stores.
LEMMA InitType == Init => TypeOK
<1> SUFFICES ASSUME Init PROVE TypeOK
  OBVIOUS
<1>1. \A s \in Services : Aggregate(slices, endpoints, s) \in SUBSET IPs
  BY AggregateType DEF Init
<1>2. host \in [Services -> SUBSET IPs]
  BY <1>1 DEF Init
<1>3. port \in [Services -> Ports \cup {NoPort}]
  BY DEF Init, Resolved
<1>4. seen \in [slices : [Slices -> SliceObject \cup {Absent}],
               endpoints : [Services -> EndpointsObject \cup {Absent}]]
  BY DEF Init, Unseen
<1>5. portDue \in BOOLEAN /\ upsert \in [Watchers -> BOOLEAN]
  BY DEF Init
<1>6. mu \in Watchers \cup {Free} /\ pc \in [Watchers -> {"idle", "sync", "lock", "read", "call"}]
      /\ target \in [Watchers -> SUBSET Services]
  BY DEF Init
<1>7. /\ left \subseteq Slices \cup Services /\ writes \in 0..MaxWrites
      /\ unasked \subseteq Services /\ shown \subseteq Services
      /\ unresolved \in [Reloads -> SUBSET Services]
      /\ table \in [Reloads -> [Services -> Ports \cup {NoPort}] \cup {Absent}]
  BY WritesAssumption DEF Init
<1>8. slices \in [Slices -> SliceObject \cup {Absent}]
      /\ endpoints \in [Services -> EndpointsObject \cup {Absent}]
  BY DEF Init
<1> QED
  BY <1>2, <1>3, <1>4, <1>5, <1>6, <1>7, <1>8 DEF TypeOK

\* The variables keep their types, whatever objects the watches deliver.
THEOREM TypeCorrect == Spec => []TypeOK
  BY InitType, TypeStep, PTL DEF Spec

-----------------------------------------------------------------------------
\* A write by goroutine v that disturbs only Services v then recomputes.
LEMMA WriteKeeps ==
    ASSUME FreshInv, NEW v \in Watchers, NEW T \in SUBSET Services,
           NEW up, NEW next \in {"idle", "sync", "lock", "call"}, Mirror(v, T, up, next),
           UNCHANGED <<host, mu, left, seen>>,
           next \in {"idle", "call"} => T = {},
           \A s \in Services \ T :
               /\ \A y \in Slices : Same(slices[y], slices'[y], s)
               /\ endpoints'[s] = endpoints[s],
           next = "sync" => T = Services
    PROVE  Held' /\ Coherent' /\ HostFresh'
<1> USE DEF FreshInv
<1>1. /\ target[v] = {} /\ pc[v] = "idle"
      /\ target' = [target EXCEPT ![v] = T] /\ target'[v] = T
      /\ \A w \in Watchers \ {v} : target'[w] = target[w] /\ pc'[w] = pc[w]
      /\ pc'[v] = next
      /\ UNCHANGED <<host, mu, left, seen>>
  BY DEF Mirror, Held, TypeOK
<1>2. Held'
  BY <1>1 DEF Held
<1>3. ASSUME NEW w \in Watchers, NEW s \in Services, (pc[w] = "read")', Mine(w, s)'
      PROVE  Truthful(s)'
  <2>1. w # v
    BY <1>1, <1>3
  <2>2. s \notin T
    BY <1>1, <1>3, <2>1 DEF Mine
  <2>3. Mine(w, s) /\ pc[w] = "read"
    BY <1>1, <1>3, <2>1 DEF Mine
  <2>4. Truthful(s)
    BY <2>3 DEF Coherent
  <2> QED
    BY <1>1, <2>2, <2>4 DEF Truthful, Same, OwnedBy
<1>4. ASSUME NEW s \in Services, Settled(s)'
      PROVE  host'[s] = Aggregate(slices', endpoints', s)
  <2>1. s \notin T
    BY <1>1, <1>4 DEF Settled
  <2>2. Settled(s)
    BY <1>1, <1>4 DEF Settled
  <2>3. host[s] = Aggregate(slices, endpoints, s)
    BY <2>2 DEF HostFresh
  <2>4. \A y \in Slices : Same(slices[y], slices'[y], s)
    BY <2>1
  <2>5. endpoints[s] = endpoints'[s]
    BY <2>1
  <2>6. Aggregate(slices, endpoints, s) = Aggregate(slices', endpoints', s)
    BY <2>4, <2>5, AggregateSame
  <2> QED
    BY <1>1, <2>3, <2>6
<1>5. Coherent'
  BY <1>3 DEF Coherent
<1>6. HostFresh'
  BY <1>4 DEF HostFresh
<1> QED
  BY <1>2, <1>5, <1>6

\* Every write of a slice concerns only the Services recomputed after it,
\* when a slice keeps its Service.
LEMMA SliceEventKeeps ==
    ASSUME FreshInv, ~Relabel, NEW x \in Slices,
           (\E obj \in SliceObject : SliceUpsert(x, obj)) \/ SliceDelete(x)
    PROVE  Held' /\ Coherent' /\ HostFresh'
<1>1. ASSUME NEW obj \in SliceObject, SliceUpsert(x, obj)
      PROVE  Held' /\ Coherent' /\ HostFresh'
  <2>1. \A s \in Services \ SliceTarget(obj) :
            /\ \A y \in Slices : Same(slices[y], slices'[y], s)
            /\ endpoints'[s] = endpoints[s]
    BY <1>1, SlicePresent DEF FreshInv, TypeOK, SliceUpsert, KeepsService, SliceTarget, Same, OwnedBy
  <2>2. SliceNext(obj, TRUE) \in {"idle", "sync", "lock", "call"}
        /\ SliceTarget(obj) \in SUBSET Services
    BY DEF SliceNext, SliceTarget
  <2>3. SliceNext(obj, TRUE) \in {"idle", "call"} => SliceTarget(obj) = {}
    BY MarksAssumption DEF SliceNext, SliceTarget
  <2>4. "slices" \in Watchers /\ Mirror("slices", SliceTarget(obj), TRUE, SliceNext(obj, TRUE))
    BY <1>1 DEF SliceUpsert, Watchers
  <2>5. UNCHANGED <<host, mu, left, seen>>
    BY <1>1 DEF SliceUpsert, Changed
  <2>6. SliceNext(obj, TRUE) # "sync"
    BY DEF SliceNext
  <2> QED
    BY <2>6, <2>1, <2>2, <2>3, <2>4, <2>5, WriteKeeps
<1>2. CASE SliceDelete(x)
  <2> DEFINE old == slices[x]
  <2>2. \A s \in Services \ SliceTarget(old) :
            /\ \A y \in Slices : Same(slices[y], slices'[y], s)
            /\ endpoints'[s] = endpoints[s]
    BY <1>2 DEF FreshInv, TypeOK, SliceDelete, SliceTarget, Same, OwnedBy
  <2>3. SliceNext(old, FALSE) \in {"idle", "sync", "lock", "call"}
        /\ SliceTarget(old) \in SUBSET Services
    BY DEF SliceNext, SliceTarget
  <2>4. SliceNext(old, FALSE) \in {"idle", "call"} => SliceTarget(old) = {}
    BY MarksAssumption DEF SliceNext, SliceTarget
  <2>5. "slices" \in Watchers /\ Mirror("slices", SliceTarget(old), FALSE, SliceNext(old, FALSE))
    BY <1>2 DEF SliceDelete, Watchers
  <2>6. UNCHANGED <<host, mu, left, seen>>
    BY <1>2 DEF SliceDelete, Changed
  <2>7. SliceNext(old, FALSE) # "sync"
    BY DEF SliceNext
  <2> HIDE DEF old
  <2> QED
    BY <2>7, <2>2, <2>3, <2>4, <2>5, <2>6, WriteKeeps
<1> QED
  BY <1>1, <1>2

\* Every event of an Endpoints object concerns only its own Service.
LEMMA EndpointsEventKeeps ==
    ASSUME FreshInv, NEW t \in Services,
           (\E obj \in EndpointsObject : EndpointsUpsert(t, obj)) \/ EndpointsDelete(t)
    PROVE  Held' /\ Coherent' /\ HostFresh'
<1>1. ASSUME NEW up, Mirror("endpoints", {t}, up, "lock"),
             \A s \in Services \ {t} : endpoints'[s] = endpoints[s], UNCHANGED slices,
             UNCHANGED <<host, mu, left, seen>>
      PROVE  Held' /\ Coherent' /\ HostFresh'
  <2>1. \A s \in Services \ {t} :
            /\ \A y \in Slices : Same(slices[y], slices'[y], s)
            /\ endpoints'[s] = endpoints[s]
    BY <1>1 DEF Same
  <2>2. "endpoints" \in Watchers /\ {t} \in SUBSET Services
    BY DEF Watchers
  <2> QED
    BY <1>1, <2>1, <2>2, WriteKeeps
<1>2. ASSUME NEW obj \in EndpointsObject, EndpointsUpsert(t, obj)
      PROVE  Held' /\ Coherent' /\ HostFresh'
  BY <1>1, <1>2 DEF FreshInv, TypeOK, EndpointsUpsert, Changed
<1>3. CASE EndpointsDelete(t)
  BY <1>1, <1>3 DEF FreshInv, TypeOK, EndpointsDelete, Changed
<1> QED
  BY <1>2, <1>3

\* While a goroutine brings its store to the list, every Service is one it is
\* going to recompute.
LEMMA ResyncKeeps ==
    ASSUME FreshInv, NEW w \in Watchers,
           \/ Resync(w) \/ ResyncDone(w)
           \/ w = "slices" /\ \E x \in Slices, obj \in SliceObject \cup {Absent} : ResyncSlices(x, obj)
           \/ w = "endpoints" /\ \E s \in Services, obj \in EndpointsObject \cup {Absent} :
                                     ResyncEndpoints(s, obj)
    PROVE  Held' /\ Coherent' /\ HostFresh'
<1>1. CASE Resync(w)
  <2>1. Services \in SUBSET Services /\ Services \ Services = {}
    OBVIOUS
  <2> QED BY <1>1, <2>1, WriteKeeps DEF Resync
<1>2. ASSUME pc[w] = "sync", pc' = [pc EXCEPT ![w] = IF pc'[w] = "lock" THEN "lock" ELSE "sync"],
             UNCHANGED <<host, mu, target, left, seen>>
      PROVE  Held' /\ Coherent' /\ HostFresh'
  <2>1. target[w] = Services
    BY <1>2 DEF FreshInv, Held
  <2>2. Held'
    BY <1>2 DEF FreshInv, TypeOK, Held
  <2>3. ASSUME NEW v \in Watchers, NEW s \in Services PROVE ~(pc[v] = "read" /\ Mine(v, s))'
    BY <1>2, <2>1 DEF FreshInv, TypeOK, Mine
  <2>4. \A s \in Services : ~Settled(s)'
    BY <1>2, <2>1 DEF Settled
  <2> QED
    BY <2>2, <2>3, <2>4 DEF Coherent, HostFresh
<1>3. CASE ResyncDone(w)
  <2>1. pc[w] = "sync" /\ pc'[w] = "lock" /\ pc' = [pc EXCEPT ![w] = "lock"]
        /\ UNCHANGED <<host, mu, target, left, seen>>
    BY <1>3 DEF ResyncDone, FreshInv, TypeOK
  <2> QED BY <1>2, <2>1
<1>4. ASSUME pc[w] = "sync", UNCHANGED <<host, mu, pc, target, left, seen>>
      PROVE  Held' /\ Coherent' /\ HostFresh'
  <2>1. pc'[w] = "sync" /\ pc' = [pc EXCEPT ![w] = "sync"]
    BY <1>4 DEF FreshInv, TypeOK
  <2> QED BY <1>2, <1>4, <2>1
<1>5. ASSUME w = "slices", NEW x \in Slices, NEW obj \in SliceObject \cup {Absent}, ResyncSlices(x, obj)
      PROVE  Held' /\ Coherent' /\ HostFresh'
  BY <1>4, <1>5 DEF ResyncSlices, Changed
<1>6. ASSUME w = "endpoints", NEW s \in Services, NEW obj \in EndpointsObject \cup {Absent},
             ResyncEndpoints(s, obj)
      PROVE  Held' /\ Coherent' /\ HostFresh'
  BY <1>4, <1>6 DEF ResyncEndpoints, Changed
<1> QED
  BY <1>1, <1>3, <1>5, <1>6

\* Freshness depends on the stores, the table and the targets only.
LEMMA FreshFrame ==
    HostFresh /\ UNCHANGED <<slices, endpoints, host, target>> => HostFresh'
  BY DEF HostFresh, Settled

\* The steps of a recomputation keep what a reader knows true, and a route
\* that is written is the one the stores describe, unless the other goroutine
\* still has to recompute it.
LEMMA RecomputeKeeps ==
    ASSUME FreshInv, NEW w \in Watchers, Recompute(w)
    PROVE  Held' /\ Coherent' /\ HostFresh'
<1> USE DEF FreshInv, stores
<1>1. CASE Lock(w)
  <2>1. /\ pc[w] = "lock" /\ mu = Free /\ mu' = w /\ pc'[w] = "read"
        /\ \A v \in Watchers \ {w} : pc'[v] = pc[v]
        /\ left' = Slices \cup target[w]
        /\ UNCHANGED <<slices, endpoints, host, target, seen>>
    BY <1>1 DEF Lock, TypeOK
  <2>2. \A v \in Watchers \ {w} : pc'[v] # "read"
    BY <2>1, FreeAssumption DEF Held
  <2>3. Held'
    BY <2>1, <2>2 DEF Held
  <2>4. Coherent'
    BY <2>1, <2>2 DEF Coherent, Truthful, Mine
  <2>5. HostFresh'
    BY <2>1, FreshFrame
  <2> QED
    BY <2>3, <2>4, <2>5
<1>2. CASE SetHosts(w)
  <2>1. /\ pc[w] = "read" /\ left = {} /\ pc'[w] \in {"idle", "call"} /\ target'[w] = {}
        /\ \A v \in Watchers \ {w} : pc'[v] = pc[v] /\ target'[v] = target[v]
        /\ UNCHANGED <<slices, endpoints, left>>
    BY <1>2 DEF SetHosts, TypeOK
  <2>2. \A v \in Watchers : pc'[v] # "read"
    BY <2>1 DEF Held
  <2>3. Held'
    BY <2>1, <2>2 DEF Held
  <2>4. Coherent'
    BY <2>2 DEF Coherent
  <2>5. ASSUME NEW s \in Services, Settled(s)'
        PROVE  host'[s] = Aggregate(slices, endpoints, s)
    <3>1. CASE s \in target[w]
      <4>1. Mine(w, s)
        BY <2>1, <2>5, <3>1 DEF Mine, Settled
      <4>2. Truthful(s)
        BY <2>1, <4>1 DEF Coherent
      <4>3. (\A x \in Slices : Same(seen.slices[x], slices[x], s))
            /\ seen.endpoints[s] = endpoints[s]
        BY <2>1, <4>2 DEF Truthful
      <4>4. Aggregate(seen.slices, seen.endpoints, s) = Aggregate(slices, endpoints, s)
        BY <4>3, AggregateSame
      <4> QED
        BY <1>2, <3>1, <4>4 DEF SetHosts
    <3>2. CASE s \notin target[w]
      <4>1. Settled(s)
        BY <2>1, <2>5, <3>2 DEF Settled
      <4>2. host'[s] = host[s]
        BY <1>2, <3>2 DEF SetHosts
      <4> QED
        BY <4>1, <4>2 DEF HostFresh
    <3> QED
      BY <3>1, <3>2
  <2>6. HostFresh'
    BY <2>1, <2>5 DEF HostFresh
  <2> QED
    BY <2>3, <2>4, <2>6
<1>3. CASE CallReloadService(w)
  <2>1. /\ pc[w] = "call" /\ pc'[w] = "idle"
        /\ \A v \in Watchers \ {w} : pc'[v] = pc[v]
        /\ UNCHANGED <<slices, endpoints, host, mu, target, left, seen>>
    BY <1>3 DEF CallReloadService, TypeOK
  <2>2. Held'
    BY <2>1 DEF Held
  <2>3. Coherent'
    BY <2>1 DEF Coherent, Truthful, Mine
  <2>4. HostFresh'
    BY <2>1, FreshFrame
  <2> QED
    BY <2>2, <2>3, <2>4
<1>4. ASSUME NEW x \in Slices, ReadSlice(w, x)
      PROVE  Held' /\ Coherent' /\ HostFresh'
  <2>1. /\ left' = left \ {x} /\ seen'.endpoints = seen.endpoints
        /\ seen'.slices = [seen.slices EXCEPT ![x] = slices[x]]
        /\ seen'.slices[x] = slices[x]
        /\ \A y \in Slices \ {x} : seen'.slices[y] = seen.slices[y]
        /\ UNCHANGED <<slices, endpoints, host, mu, pc, target>>
    BY <1>4 DEF ReadSlice, TypeOK
  <2>2. \A s \in Services : Truthful(s) => Truthful(s)'
    BY <2>1, SortsAssumption DEF Truthful, Same
  <2>3. Held'
    BY <2>1 DEF Held
  <2>4. Coherent'
    BY <2>1, <2>2 DEF Coherent, Mine
  <2>5. HostFresh'
    BY <2>1, FreshFrame
  <2> QED
    BY <2>3, <2>4, <2>5
<1>5. ASSUME NEW t \in Services, ReadEndpoints(w, t)
      PROVE  Held' /\ Coherent' /\ HostFresh'
  <2>1. /\ left' = left \ {t} /\ seen'.slices = seen.slices
        /\ seen'.endpoints[t] = endpoints[t]
        /\ \A y \in Services \ {t} : seen'.endpoints[y] = seen.endpoints[y]
        /\ UNCHANGED <<slices, endpoints, host, mu, pc, target>>
    BY <1>5 DEF ReadEndpoints, TypeOK
  <2>2. \A s \in Services : Truthful(s) => Truthful(s)'
    BY <2>1, SortsAssumption DEF Truthful
  <2>3. Held'
    BY <2>1 DEF Held
  <2>4. Coherent'
    BY <2>1, <2>2 DEF Coherent, Mine
  <2>5. HostFresh'
    BY <2>1, FreshFrame
  <2> QED
    BY <2>3, <2>4, <2>5
<1>6. CASE ResyncDone(w)
  BY <1>6, ResyncKeeps
<1> QED
  BY <1>1, <1>2, <1>3, <1>4, <1>5, <1>6 DEF Recompute

\* FreshInv is inductive.
LEMMA FreshStep == ~Relabel /\ FreshInv /\ [Next]_vars => FreshInv'
<1> SUFFICES ASSUME ~Relabel, FreshInv, [Next]_vars PROVE FreshInv'
  OBVIOUS
<1>1. TypeOK'
  BY TypeStep DEF FreshInv
<1>2. CASE Event
  BY <1>1, <1>2, SliceEventKeeps, EndpointsEventKeeps, ResyncKeeps DEF FreshInv, Event, Watchers
<1>3. ASSUME NEW w \in Watchers, Recompute(w) PROVE FreshInv'
  BY <1>1, <1>3, RecomputeKeeps DEF FreshInv
<1>4. CASE UNCHANGED <<slices, endpoints, host, mu, pc, target, left, seen>>
  BY <1>1, <1>4, FreshFrame DEF FreshInv, Held, Coherent, Truthful, Mine
<1>5. ASSUME NEW g \in Reloads, ReloadPorts(g) PROVE FreshInv'
  BY <1>4, <1>5 DEF ReloadPorts, ReloadService, ResolvePort, SetPorts, stores, hosts
<1>6. CASE UNCHANGED vars
  BY <1>4, <1>6 DEF vars, stores, hosts
<1> QED
  BY <1>2, <1>3, <1>5, <1>6 DEF Next, System

\* At the start nobody reads and every route has just been computed.
LEMMA InitFresh == Init => FreshInv
<1> SUFFICES ASSUME Init PROVE FreshInv
  OBVIOUS
<1>1. Held /\ Coherent
  BY DEF Init, Held, Coherent
<1>2. HostFresh
  BY DEF Init, HostFresh
<1> QED
  BY <1>1, <1>2, InitType DEF FreshInv

\* The claim of the comment on endpointReloadMu, for any number of Services,
\* slices and events: as long as no event moves a slice to another Service,
\* a Service no goroutine still has to recompute has the route that the two
\* stores describe, although they change while the routes are computed.
THEOREM HostFreshHolds == ~Relabel => (Spec => []HostFresh)
<1> SUFFICES ASSUME ~Relabel PROVE Spec => []HostFresh
  OBVIOUS
<1>1. FreshInv /\ [Next]_vars => FreshInv'
  BY FreshStep
<1>2. FreshInv => HostFresh
  BY DEF FreshInv
<1> QED
  BY <1>1, <1>2, InitFresh, PTL DEF Spec
-----------------------------------------------------------------------------
\* Goroutine w is going to ask for the reload of the ports.
Asking(w) == pc[w] = "call" \/ (pc[w] \in {"lock", "read"} /\ upsert[w])

\* Pass g of the reload is going to publish the right port of Service s.
Resolving(g, s) ==
    /\ table[g] # Absent
    /\ s \in unresolved[g] \/ table[g][s] \in TargetPorts(slices, endpoints, s)

\* The port of a Service all of whose changes were followed by a call has been
\* published, or is going to be, or a reload is due or going to be asked for.
InProspect(s) ==
    \/ portDue
    \/ \E w \in Watchers : Asking(w)
    \/ \E g \in Reloads : Resolving(g, s)
    \/ s \in shown

PortInv == TypeOK /\ \A s \in Services \ unasked : InProspect(s)

\* The port of a Service, too, depends on its own slices and Endpoints only.
LEMMA PortsSame ==
    ASSUME NEW S1, NEW S2, NEW E1, NEW E2, NEW s,
           \A x \in Slices : Same(S1[x], S2[x], s), E1[s] = E2[s]
    PROVE  TargetPorts(S1, E1, s) = TargetPorts(S2, E2, s)
<1>1. SlicesOf(S1, s) = SlicesOf(S2, s)
  BY DEF SlicesOf, Same, OwnedBy
<1>2. \A x \in SlicesOf(S1, s) : S1[x] = S2[x]
  BY DEF SlicesOf, Same, OwnedBy
<1>3. {S1[x].port : x \in SlicesOf(S1, s)} = {S2[x].port : x \in SlicesOf(S2, s)}
  BY <1>1, <1>2
<1> QED
  BY <1>1, <1>3 DEF TargetPorts

\* After an upsert a reload of the ports is going to be asked for.
LEMMA UpsertAsks ==
    ASSUME PortInv, NEW v \in Watchers, NEW T, NEW next \in {"lock", "call"},
           Mirror(v, T, TRUE, next)
    PROVE  \A s \in Services : InProspect(s)'
<1>1. Asking(v)'
  BY DEF Mirror, PortInv, TypeOK, Asking
<1> QED
  BY <1>1 DEF InProspect

\* A change that asks for nothing concerns only the Services it records.
LEMMA ChangeRecorded ==
    ASSUME PortInv, NEW T, Changed(T, FALSE),
           \A w \in Watchers : Asking(w) => Asking(w)',
           \A s \in Services \ T :
               /\ \A y \in Slices : Same(slices[y], slices'[y], s)
               /\ endpoints[s] = endpoints'[s]
    PROVE  \A s \in Services \ unasked' : InProspect(s)'
<1> SUFFICES ASSUME NEW s \in Services \ unasked' PROVE InProspect(s)'
  OBVIOUS
<1>1. s \notin T /\ s \notin unasked /\ (s \in shown => s \in shown')
      /\ UNCHANGED <<portDue, unresolved, table>>
  BY DEF Changed, ports
<1>2. TargetPorts(slices, endpoints, s) = TargetPorts(slices', endpoints', s)
  BY <1>1, PortsSame
<1>3. \A g \in Reloads : Resolving(g, s) => Resolving(g, s)'
  BY <1>1, <1>2 DEF Resolving
<1>4. InProspect(s)
  BY <1>1 DEF PortInv
<1> QED
  BY <1>1, <1>3, <1>4 DEF InProspect

\* Replacing slice x concerns its old and its new Service.
LEMMA OthersSame ==
    ASSUME TypeOK, NEW x \in Slices, NEW obj, slices' = [slices EXCEPT ![x] = obj],
           NEW s \in Services \ Concerned(x, obj), NEW y \in Slices
    PROVE  Same(slices[y], slices'[y], s)
  BY DEF TypeOK, Concerned, SliceTarget, Same, OwnedBy

\* The end of an idle goroutine's event that asks for nothing.
LEMMA MirrorAsksNothing ==
    ASSUME TypeOK, NEW v \in Watchers, NEW T, NEW next, Mirror(v, T, FALSE, next)
    PROVE  \A w \in Watchers : Asking(w) => Asking(w)'
  BY DEF TypeOK, Mirror, Asking

\* Every step keeps the ports current, or leaves a reload in prospect.
LEMMA PortStep == PortInv /\ [Next]_vars => PortInv'
<1> SUFFICES ASSUME PortInv, TypeOK', [Next]_vars PROVE \A s \in Services \ unasked' : InProspect(s)'
  BY TypeStep DEF PortInv
<1> DEFINE Kept == \A s \in Services \ unasked' : InProspect(s)'
<1> HIDE DEF Kept
<1>1. ASSUME NEW x \in Slices, NEW obj \in SliceObject, SliceUpsert(x, obj) PROVE Kept
  <2>1. SliceNext(obj, TRUE) \in {"lock", "call"}
    BY DEF SliceNext
  <2>2. "slices" \in Watchers /\ Mirror("slices", SliceTarget(obj), TRUE, SliceNext(obj, TRUE))
    BY <1>1 DEF SliceUpsert, Watchers
  <2> QED
    BY <2>1, <2>2, UpsertAsks DEF Kept
<1>2. ASSUME NEW x \in Slices, NEW obj, slices' = [slices EXCEPT ![x] = obj],
             UNCHANGED endpoints, Changed(Concerned(x, obj), FALSE),
             \A w \in Watchers : Asking(w) => Asking(w)'
      PROVE  Kept
  <2>1. ASSUME NEW s \in Services \ Concerned(x, obj), NEW y \in Slices
        PROVE  Same(slices[y], slices'[y], s)
    BY <1>2, OthersSame DEF PortInv
  <2> QED
    BY <1>2, <2>1, ChangeRecorded DEF Kept
<1>3. ASSUME NEW x \in Slices, SliceDelete(x) PROVE Kept
  <2>1. \A w \in Watchers : Asking(w) => Asking(w)'
    BY <1>3, MirrorAsksNothing DEF SliceDelete, PortInv, Watchers
  <2> QED
    BY <1>2, <1>3, <2>1 DEF SliceDelete
<1>4. ASSUME NEW x \in Slices, NEW obj \in SliceObject \cup {Absent}, ResyncSlices(x, obj) PROVE Kept
  <2>1. \A w \in Watchers : Asking(w) => Asking(w)'
    BY <1>4 DEF ResyncSlices, Asking
  <2> QED
    BY <1>2, <1>4, <2>1 DEF ResyncSlices
<1>5. ASSUME NEW t \in Services, NEW obj \in EndpointsObject, EndpointsUpsert(t, obj) PROVE Kept
  BY <1>5, UpsertAsks DEF EndpointsUpsert, Watchers, Kept
<1>6. ASSUME NEW t \in Services, NEW obj, endpoints' = [endpoints EXCEPT ![t] = obj],
             UNCHANGED slices, Changed({t}, FALSE),
             \A w \in Watchers : Asking(w) => Asking(w)'
      PROVE  Kept
  <2>1. ASSUME NEW s \in Services \ {t}
        PROVE  /\ \A y \in Slices : Same(slices[y], slices'[y], s)
               /\ endpoints[s] = endpoints'[s]
    BY <1>6 DEF PortInv, TypeOK, Same
  <2> QED
    BY <1>6, <2>1, ChangeRecorded DEF Kept
<1>7. ASSUME NEW t \in Services, EndpointsDelete(t) PROVE Kept
  <2>1. \A w \in Watchers : Asking(w) => Asking(w)'
    BY <1>7, MirrorAsksNothing DEF EndpointsDelete, PortInv, Watchers
  <2> QED
    BY <1>6, <1>7, <2>1 DEF EndpointsDelete
<1>8. ASSUME NEW t \in Services, NEW obj \in EndpointsObject \cup {Absent}, ResyncEndpoints(t, obj)
      PROVE  Kept
  <2>1. \A w \in Watchers : Asking(w) => Asking(w)'
    BY <1>8 DEF ResyncEndpoints, Asking
  <2> QED
    BY <1>6, <1>8, <2>1 DEF ResyncEndpoints
<1>9. ASSUME UNCHANGED <<slices, endpoints, portDue, unresolved, table, unasked, shown>>,
             \A w \in Watchers : Asking(w) => Asking(w)'
      PROVE  Kept
  BY <1>9 DEF PortInv, InProspect, Resolving, Kept
<1>10. ASSUME NEW w \in Watchers, Resync(w) PROVE Kept
  <2>1. \A v \in Watchers : Asking(v) => Asking(v)'
    BY <1>10, MirrorAsksNothing DEF Resync, PortInv
  <2> QED
    BY <1>9, <1>10, <2>1 DEF Resync, stores, ports
<1>11. ASSUME NEW w \in Watchers, Recompute(w) PROVE Kept
  <2> USE DEF stores, ports
  <2>1. CASE CallReloadService(w)
    BY <2>1 DEF CallReloadService, InProspect, Kept
  <2>2. CASE Lock(w)
    BY <1>9, <2>2 DEF Lock, PortInv, TypeOK, Asking
  <2>3. CASE SetHosts(w)
    BY <1>9, <2>3 DEF SetHosts, PortInv, TypeOK, Asking
  <2>4. ASSUME NEW x \in Slices, ReadSlice(w, x) PROVE Kept
    BY <1>9, <2>4 DEF ReadSlice, Asking
  <2>5. ASSUME NEW t \in Services, ReadEndpoints(w, t) PROVE Kept
    BY <1>9, <2>5 DEF ReadEndpoints, Asking
  <2>6. CASE ResyncDone(w)
    BY <1>9, <2>6 DEF ResyncDone, PortInv, TypeOK, Asking
  <2> QED
    BY <1>11, <2>1, <2>2, <2>3, <2>4, <2>5, <2>6 DEF Recompute
<1>12. ASSUME NEW g \in Reloads, ReloadService(g) PROVE Kept
  <2>1. table'[g] # Absent /\ unresolved'[g] = Services
    BY <1>12, MarksAssumption DEF ReloadService, PortInv, TypeOK
  <2> QED
    BY <2>1 DEF Kept, InProspect, Resolving
<1>13. ASSUME NEW g \in Reloads, NEW t \in Services, ResolvePort(g, t) PROVE Kept
  <2>1. PICK n \in TargetPorts(slices, endpoints, t) :
            table' = [table EXCEPT ![g] = [table[g] EXCEPT ![t] = n]]
    BY <1>13 DEF ResolvePort
  <2>2. /\ UNCHANGED <<slices, endpoints, portDue, unasked, shown, pc, upsert>>
        /\ unresolved' = [unresolved EXCEPT ![g] = @ \ {t}]
        /\ table[g] # Absent
    BY <1>13 DEF ResolvePort, stores, hosts
  <2>3. table'[g] = [table[g] EXCEPT ![t] = n] /\ table[g] \in [Services -> Ports \cup {NoPort}]
    BY <2>1, <2>2 DEF PortInv, TypeOK
  <2>4. table'[g][t] = n /\ \A s \in Services \ {t} : table'[g][s] = table[g][s]
    BY <2>3
  <2>5. table'[g] # Absent
    <3>1. n \in Ports \cup {NoPort}
      BY <2>1, PortsType DEF PortInv, TypeOK
    <3>2. table'[g] \in [Services -> Ports \cup {NoPort}]
      BY <2>3, <3>1
    <3> QED BY <3>2, MarksAssumption
  <2>6. ASSUME NEW s \in Services, NEW h \in Reloads, Resolving(h, s) PROVE Resolving(h, s)'
    <3>1. CASE h # g
      BY <2>1, <2>2, <2>6, <3>1 DEF Resolving, PortInv, TypeOK
    <3>2. CASE h = g /\ s # t
      BY <2>2, <2>4, <2>5, <2>6, <3>2 DEF Resolving, PortInv, TypeOK
    <3>3. CASE h = g /\ s = t
      BY <2>1, <2>2, <2>4, <2>5, <3>3 DEF Resolving
    <3> QED
      BY <3>1, <3>2, <3>3
  <2> QED
    BY <2>2, <2>6 DEF PortInv, InProspect, Asking, Kept
<1>14. ASSUME NEW g \in Reloads, SetPorts(g) PROVE Kept
  <2>1. /\ UNCHANGED <<slices, endpoints, portDue, unasked, pc, upsert, unresolved>>
        /\ shown \subseteq shown'
        /\ \A s \in Services : Resolving(g, s) => s \in shown'
    BY <1>14 DEF SetPorts, stores, hosts, Resolving
  <2>2. ASSUME NEW s \in Services, NEW h \in Reloads \ {g}, Resolving(h, s) PROVE Resolving(h, s)'
    BY <1>14, <2>1, <2>2 DEF SetPorts, Resolving, PortInv, TypeOK
  <2> QED
    BY <2>1, <2>2 DEF PortInv, InProspect, Asking, Kept
<1>15. ASSUME UNCHANGED vars PROVE Kept
  <2>1. /\ UNCHANGED <<slices, endpoints, portDue, unresolved, table, unasked, shown>>
        /\ UNCHANGED <<pc, upsert>>
    BY <1>15 DEF vars, stores, hosts, ports
  <2>2. \A w \in Watchers : Asking(w) => Asking(w)'
    BY <2>1 DEF Asking
  <2> QED BY <1>9, <2>1, <2>2
<1>16. Kept
  <2>1. CASE Event
    BY <1>1, <1>3, <1>4, <1>5, <1>7, <1>8, <1>10, <2>1 DEF Event
  <2>2. CASE System
    BY <1>11, <1>12, <1>13, <1>14, <2>2 DEF System, ReloadPorts
  <2> QED BY <1>15, <2>1, <2>2 DEF Next
<1> QED
  BY <1>16 DEF Kept

\* The port table at rest, for any number of Services, slices, events and
\* overlapping passes, even when slices move to other Services: every upsert
\* ends in a reload of the ports that sees it and publishes it.  Only a Service
\* changed by a deletion or a resync, for which watchEndpointSlices and
\* watchEndpoints ask for no reload, may be left behind.
THEOREM PortFreshHolds == Spec => []PortFreshUnlessUnasked
<1>1. Init => PortInv
  BY InitType DEF Init, PortInv, InProspect
<1>2. PortInv => PortFreshUnlessUnasked
  BY DEF PortInv, InProspect, Resolving, Asking, PortFreshUnlessUnasked
<1> QED
  BY <1>1, <1>2, PortStep, PTL DEF Spec
==============================================================================
