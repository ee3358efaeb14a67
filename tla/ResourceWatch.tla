---------------------------- MODULE ResourceWatch ----------------------------
(***************************************************************************)
(* One Kubernetes resource as the controller follows it: preloadResources, *)
(* firstReload, watchResource and resyncStore of controller.go.            *)
(*                                                                         *)
(* The API server (external) is modelled by what the controller sees of    *)
(* it: a list is an atomic snapshot; a watch opened without a              *)
(* resourceVersion starts with a synthetic Added for every live object and *)
(* then streams changes in order, until the server closes it, which loses  *)
(* the tail of the stream and may end it with an Error event.              *)
(***************************************************************************)
EXTENDS Naturals, Sequences, FiniteSets, Functions

CONSTANTS
    Keys,       \* namespace/name of the objects
    MaxOps,     \* bound on the changes made to the cluster
    MaxQueue    \* bound on the events in flight

ASSUME KeysAssumption == IsFiniteSet(Keys)
ASSUME OpsAssumption  == MaxOps \in Nat /\ MaxQueue \in Nat

VARIABLES
    cluster,    \* the API server's objects: their version, 0 when absent
    ops,        \* changes made to the cluster so far
    open,       \* does the server still feed the watch?
    queue,      \* w.ResultChan()
    at,         \* where the watch goroutine is
    store,      \* the sync.Map: version of every object, 0 when absent
    listing,    \* items of the relist being reconciled
    todo,       \* keys the reconciliation has still to visit
    announced,  \* the store when the last callback (reload) was called
    ready       \* health.SetReady

api  == <<cluster, ops>>
ctrl == <<store, listing, todo, announced, ready>>
watchVars == <<cluster, ops, open, queue, at, store, listing, todo, announced,
               ready>>

Version   == 0..(MaxOps + 1)
NoObjects == [k \in Keys |-> 0]
Live      == {k \in Keys : cluster[k] # 0}

WatchEvent(kind, k, v) == [type |-> kind, key |-> k, ver |-> v]
Events == [type : {"Upsert", "Deleted", "Error"}, key : Keys, ver : Version]

WatchTypeOK ==
    /\ cluster \in [Keys -> Version]
    /\ ops \in 0..MaxOps
    /\ open \in BOOLEAN
    /\ queue \in Seq(Events)
    /\ at \in {"preload", "first", "open", "watch", "call", "relist",
               "reconcile"}
    /\ store \in [Keys -> Version]
    /\ listing \in [Keys -> Version]
    /\ todo \subseteq Keys
    /\ announced \in [Keys -> Version]
    /\ ready \in BOOLEAN

\* The process starts with empty stores in a cluster that has any objects
\* (version 1 is the one they have before anything changes).
WatchInit ==
    /\ cluster \in [Keys -> {0, 1}]
    /\ ops = 0
    /\ open = FALSE
    /\ queue = <<>>
    /\ at = "preload"
    /\ store = NoObjects
    /\ listing = NoObjects
    /\ todo = {}
    /\ announced = NoObjects
    /\ ready = FALSE

-----------------------------------------------------------------------------
(* The API server.                                                         *)

Change(k, v, kind) ==
    /\ ops < MaxOps
    /\ open => Len(queue) < MaxQueue
    /\ ops' = ops + 1
    /\ cluster' = [cluster EXCEPT ![k] = v]
    /\ queue' = IF open THEN Append(queue, WatchEvent(kind, k, v)) ELSE queue
    /\ UNCHANGED <<open, at, ctrl>>

\* An object is created or modified.
Put(k) == Change(k, ops + 2, "Upsert")

Delete(k) == cluster[k] # 0 /\ Change(k, 0, "Deleted")

\* The server ends the watch (timeout, 410 Gone, a dropped connection).
CloseWatch ==
    /\ open
    /\ open' = FALSE
    /\ \E n \in 0..Len(queue), k \in Keys :
           \/ queue' = SubSeq(queue, 1, n)
           \/ queue' = Append(SubSeq(queue, 1, n), WatchEvent("Error", k, 0))
    /\ UNCHANGED <<api, at, ctrl>>

-----------------------------------------------------------------------------
(* Start-up.  A failed list only backs off and retries, so it is no step.  *)

\* preloadList: the list is retried until it succeeds.
PreloadList ==
    /\ at = "preload"
    /\ store' = cluster
    /\ at' = "first"
    /\ UNCHANGED <<api, open, queue, listing, todo, announced, ready>>

\* firstReload: every reload runs once, then the pod reports Ready.
FirstReload ==
    /\ at = "first"
    /\ announced' = store
    /\ ready' = TRUE
    /\ at' = "open"
    /\ UNCHANGED <<api, open, queue, store, listing, todo>>

-----------------------------------------------------------------------------
(* watchResource.                                                          *)

\* watchFn succeeds (a failure sleeps and retries).
OpenWatch ==
    /\ at = "open"
    /\ open' = TRUE
    /\ \E live \in Bijection(1..Cardinality(Live), Live) :
           queue' = [i \in 1..Cardinality(Live) |->
                        WatchEvent("Upsert", live[i], cluster[live[i]])]
    /\ at' = "watch"
    /\ UNCHANGED <<api, ctrl>>

\* Mutation: an Added for a known object is taken for a duplicate.
DeliverNewOnly ==
    /\ at = "watch"
    /\ queue # <<>>
    /\ LET e == Head(queue) IN
           CASE e.type = "Upsert" /\ store[e.key] = 0
                    -> store' = [store EXCEPT ![e.key] = e.ver] /\ at' = "call"
             [] e.type = "Deleted"
                    -> store' = [store EXCEPT ![e.key] = 0] /\ at' = "call"
             [] OTHER -> UNCHANGED <<store, at>>
    /\ queue' = Tail(queue)
    /\ UNCHANGED <<api, open, listing, todo, announced, ready>>

\* One event of the channel is mirrored into the store.
Deliver ==
    /\ at = "watch"
    /\ queue # <<>>
    /\ LET e == Head(queue) IN
           CASE e.type = "Upsert"  -> /\ store' = [store EXCEPT ![e.key] = e.ver]
                                      /\ at' = "call"
             [] e.type = "Deleted" -> /\ store' = [store EXCEPT ![e.key] = 0]
                                      /\ at' = "call"
             [] e.type = "Error"   -> UNCHANGED <<store, at>>
    /\ queue' = Tail(queue)
    /\ UNCHANGED <<api, open, listing, todo, announced, ready>>

\* onUpsert / onDelete.
Call ==
    /\ at = "call"
    /\ announced' = store
    /\ at' = "watch"
    /\ UNCHANGED <<api, open, queue, store, listing, todo, ready>>

\* The channel is closed and drained.
EndOfWatch ==
    /\ at = "watch"
    /\ ~open
    /\ queue = <<>>
    /\ at' = "relist"
    /\ UNCHANGED <<api, open, queue, ctrl>>

-----------------------------------------------------------------------------
(* resyncStore.                                                            *)

Relist ==
    /\ at = "relist"
    /\ listing' = cluster
    /\ todo' = Keys
    /\ at' = "reconcile"
    /\ UNCHANGED <<api, open, queue, store, announced, ready>>

\* listFn fails: the store stays as it is and the watch is reopened.
RelistFail ==
    /\ at = "relist"
    /\ at' = "open"
    /\ UNCHANGED <<api, open, queue, store, listing, todo, announced, ready>>

\* Mutation: the resync only adds.
ReconcileNoDelete(k) ==
    /\ at = "reconcile"
    /\ k \in todo
    /\ store' = IF listing[k] # 0 THEN [store EXCEPT ![k] = listing[k]] ELSE store
    /\ todo' = todo \ {k}
    /\ UNCHANGED <<api, open, queue, at, listing, announced, ready>>

\* The listed objects are stored one by one, then the store is ranged over and
\* every key that was not listed is deleted.
Reconcile(k) ==
    /\ at = "reconcile"
    /\ k \in todo
    /\ listing[k] = 0 => \A l \in todo : listing[l] = 0
    /\ store' = [store EXCEPT ![k] = listing[k]]
    /\ todo' = todo \ {k}
    /\ UNCHANGED <<api, open, queue, at, listing, announced, ready>>

\* onResync.
ReconcileDone ==
    /\ at = "reconcile"
    /\ todo = {}
    /\ announced' = store
    /\ at' = "open"
    /\ UNCHANGED <<api, open, queue, store, listing, todo, ready>>

-----------------------------------------------------------------------------
ApiServer == (\E k \in Keys : Put(k) \/ Delete(k)) \/ CloseWatch

Controller ==
    \/ PreloadList \/ FirstReload
    \/ OpenWatch \/ Deliver \/ Call \/ EndOfWatch
    \/ Relist \/ RelistFail \/ (\E k \in Keys : Reconcile(k)) \/ ReconcileDone

WatchNext == ApiServer \/ Controller

WatchSpec == WatchInit /\ [][WatchNext]_watchVars

\* The watch goroutine keeps running; the API server answers a relist in the
\* end if it is asked again and again, and it ends every watch in the end (its
\* watches are time-limited).
WatchFairSpec ==
    /\ WatchSpec /\ WF_watchVars(Controller)
    /\ SF_watchVars(Relist) /\ WF_watchVars(CloseWatch)

-----------------------------------------------------------------------------
(* Properties.                                                             *)

Drained == at = "watch" /\ open /\ queue = <<>>

\* On a drained watch every live object is in the store in its current
\* version, whatever closed, failed or was lost before: only the absence of an
\* object can be missed by the watch loop.
LiveObjectsTracked ==
    Drained => \A k \in Keys : cluster[k] # 0 => store[k] = cluster[k]

\* A stale object does not linger: after the cluster stops changing, the
\* relist of a later watch restart makes the store and the announced state
\* equal to the cluster for good.
SelfHeals == <>[](store = cluster /\ announced = cluster)
=============================================================================
