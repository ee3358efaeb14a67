--------------------------- MODULE EndpointRoutes ---------------------------
(***************************************************************************)
(* The host -> pod IP table and the named-port table of the controller.    *)
(*                                                                         *)
(* Two watch goroutines feed them: one owns the EndpointSlice store, one   *)
(* the legacy Endpoints store.  A goroutine writes its store, then         *)
(* recomputes the affected Service (or every Service, after a resync)      *)
(* under endpointReloadMu by ranging over the slices and then, for a       *)
(* Service without any slice, reading its Endpoints object; the stores     *)
(* themselves are not locked.  An upsert also asks the debounced service   *)
(* reload to resolve the named ports again; a deletion and a resync do     *)
(* not.  The passes of that reload hold no mutex: each one resolves        *)
(* Service by Service and then replaces the table, so passes overlap and   *)
(* may end out of order.  (How Debounce turns calls into passes is modelled*)
(* in Debounce; here an asked-for reload is due until a pass begins.)      *)
(*                                                                         *)
(* An object is abstracted to its owner, its ready addresses (a slice of   *)
(* type FQDN has none) and the number of its one named port.               *)
(***************************************************************************)
EXTENDS Naturals, FiniteSets

CONSTANTS
    Services, Slices, IPs, Ports,
    Reloads,      \* slots for passes of the service reload: bounds their overlap
    NoService,    \* a slice without the service-name label
    NoPort,       \* a named port that does not resolve
    Absent,       \* no such object
    Free,         \* endpointReloadMu is not held
    MaxWrites,    \* bound on the writes of watch events and resyncs
    Relabel       \* may an event change the Service a slice belongs to?

ASSUME MarksAssumption ==
    NoService \notin Services /\ NoPort \notin Ports
    /\ Absent \notin [svc : Services \cup {NoService}, ips : SUBSET IPs, port : Ports \cup {NoPort}]
    /\ Absent \notin [ips : SUBSET IPs, port : Ports]
    /\ Absent \notin [Services -> Ports \cup {NoPort}]
ASSUME SortsAssumption == Slices \cap Services = {}
ASSUME WritesAssumption == MaxWrites \in Nat /\ Relabel \in BOOLEAN

\* Nobody reads more of a slice without a Service than that it has none.
Unlabeled       == [svc |-> NoService, ips |-> {}, port |-> NoPort]
SliceObject     == [svc : Services, ips : SUBSET IPs, port : Ports] \cup {Unlabeled}
EndpointsObject == [ips : SUBSET IPs, port : Ports]

Watchers == {"slices", "endpoints"}
ASSUME FreeAssumption == Free \notin Watchers

VARIABLES
    slices,     \* watchedEndpointSlices
    endpoints,  \* watchedEndpoints
    host,       \* Table.hostToIP; {} when the host is not in the table
    port,       \* Table.addrToTargetPort of the Service's named port
    portDue,    \* the service reload has been asked for
    unresolved, \* the Services a pass of it has still to resolve
    table,      \* what a pass of it has resolved; Absent when there is none
    mu,         \* endpointReloadMu
    pc,         \* where each watch goroutine is
    target,     \* the Services it has to recompute
    upsert,     \* does it call reloadService afterwards?
    left,       \* the objects the holder of mu has still to read
    seen,       \* what the holder of mu has read
    unasked,    \* history: Services changed by a deletion or a resync since a pass began
    shown,      \* history: Services whose port was right when published, and not changed since
    writes      \* number of writes so far

stores == <<slices, endpoints>>
hosts  == <<host, mu, pc, target, upsert, left, seen>>
ports  == <<port, portDue, unresolved, table>>
vars   == <<stores, hosts, ports, unasked, shown, writes>>

TypeOK ==
    /\ slices \in [Slices -> SliceObject \cup {Absent}]
    /\ endpoints \in [Services -> EndpointsObject \cup {Absent}]
    /\ host \in [Services -> SUBSET IPs]
    /\ port \in [Services -> Ports \cup {NoPort}]
    /\ portDue \in BOOLEAN
    /\ mu \in Watchers \cup {Free}
    /\ pc \in [Watchers -> {"idle", "sync", "lock", "read", "call"}]
    /\ target \in [Watchers -> SUBSET Services]
    /\ upsert \in [Watchers -> BOOLEAN]
    /\ left \subseteq Slices \cup Services
    /\ seen \in [slices : [Slices -> SliceObject \cup {Absent}],
                 endpoints : [Services -> EndpointsObject \cup {Absent}]]
    /\ unresolved \in [Reloads -> SUBSET Services]
    /\ table \in [Reloads -> [Services -> Ports \cup {NoPort}] \cup {Absent}]
    /\ unasked \subseteq Services
    /\ shown \subseteq Services
    /\ writes \in 0..MaxWrites

-----------------------------------------------------------------------------
(* The route of a Service as a function of the two stores.                 *)

SlicesOf(S, s) == {x \in Slices : S[x] # Absent /\ S[x].svc = s}

\* Mutation: a Service without addresses gets a nil entry.
AggregateNil(S, E, s) ==
    IF SlicesOf(S, s) # {} THEN UNION {S[x].ips : x \in SlicesOf(S, s)}
    ELSE IF E[s] # Absent THEN E[s].ips
    ELSE {Absent}

\* aggregateServiceIPs: slices are authoritative, even without an address.
Aggregate(S, E, s) ==
    IF SlicesOf(S, s) # {} THEN UNION {S[x].ips : x \in SlicesOf(S, s)}
    ELSE IF E[s] # Absent THEN E[s].ips
    ELSE {}

\* resolveTargetPort of a named port: the first match in the range order of
\* the sync.Map, which may be any slice.
TargetPorts(S, E, s) ==
    IF SlicesOf(S, s) # {} THEN {S[x].port : x \in SlicesOf(S, s)}
    ELSE IF E[s] # Absent THEN {E[s].port}
    ELSE {NoPort}

\* The port tables the service reload can compute.
Resolved ==
    {f \in [Services -> Ports \cup {NoPort}] :
        \A s \in Services : f[s] \in TargetPorts(slices, endpoints, s)}

-----------------------------------------------------------------------------
\* What a goroutine that does not hold the mutex has read.
Unseen == [slices |-> [x \in Slices |-> Absent], endpoints |-> [s \in Services |-> Absent]]

\* After preloadResources and firstReload.
Init ==
    /\ slices \in [Slices -> SliceObject \cup {Absent}]
    /\ endpoints \in [Services -> EndpointsObject \cup {Absent}]
    /\ host = [s \in Services |-> Aggregate(slices, endpoints, s)]
    /\ port \in Resolved
    /\ portDue = FALSE
    /\ mu = Free
    /\ pc = [w \in Watchers |-> "idle"]
    /\ target = [w \in Watchers |-> {}]
    /\ upsert = [w \in Watchers |-> FALSE]
    /\ left = {}
    /\ seen = Unseen
    /\ unresolved = [g \in Reloads |-> {}]
    /\ table = [g \in Reloads |-> Absent]
    /\ unasked = {}
    /\ shown = Services
    /\ writes = 0

\* The objects of the Services T change, with or without a call of
\* reloadService to follow.
Changed(T, asks) ==
    /\ writes < MaxWrites
    /\ writes' = writes + 1
    /\ shown' = shown \ T
    /\ unasked' = IF asks THEN unasked ELSE unasked \cup T
    /\ UNCHANGED <<host, ports, mu, left, seen>>

\* A watch event is mirrored into the store; w goes on to recompute T.
Mirror(w, T, up, next) ==
    /\ pc[w] = "idle"
    /\ pc' = [pc EXCEPT ![w] = next]
    /\ target' = [target EXCEPT ![w] = T]
    /\ upsert' = [upsert EXCEPT ![w] = up]

\* reloadEndpointSlice returns at once for a slice without a Service.
SliceTarget(obj) == {obj.svc} \cap Services
SliceNext(obj, up) ==
    IF obj.svc # NoService THEN "lock" ELSE IF up THEN "call" ELSE "idle"

\* The Services whose slices change when obj takes the place of slice x.
Concerned(x, obj) ==
    (IF slices[x] = Absent THEN {} ELSE SliceTarget(slices[x]))
    \cup (IF obj = Absent THEN {} ELSE SliceTarget(obj))

\* A slice keeps its Service.
KeepsService(x, obj) ==
    slices[x] # Absent /\ obj # Absent => slices[x].svc = obj.svc

\* Mutation: a Modified slice does not resolve the ports again.
SliceUpsertNoPorts(x, obj) ==
    /\ Relabel \/ KeepsService(x, obj)
    /\ slices' = [slices EXCEPT ![x] = obj]
    /\ LET up == slices[x] = Absent
       IN  Mirror("slices", SliceTarget(obj), up, SliceNext(obj, up))
    /\ Changed(Concerned(x, obj), TRUE)
    /\ UNCHANGED endpoints

\* EndpointSlice Added or Modified.
SliceUpsert(x, obj) ==
    /\ Relabel \/ KeepsService(x, obj)
    /\ slices' = [slices EXCEPT ![x] = obj]
    /\ Mirror("slices", SliceTarget(obj), TRUE, SliceNext(obj, TRUE))
    /\ Changed(Concerned(x, obj), TRUE)
    /\ UNCHANGED endpoints

\* Mutation: the end of a slice without an address is taken to change nothing.
SliceDeleteEmpty(x) ==
    /\ slices[x] # Absent
    /\ slices' = [slices EXCEPT ![x] = Absent]
    /\ IF slices[x].ips = {} THEN Mirror("slices", {}, FALSE, "idle")
       ELSE Mirror("slices", SliceTarget(slices[x]), FALSE, SliceNext(slices[x], FALSE))
    /\ Changed(Concerned(x, Absent), FALSE)
    /\ UNCHANGED endpoints

\* EndpointSlice Deleted: no reloadService.
SliceDelete(x) ==
    /\ slices[x] # Absent
    /\ slices' = [slices EXCEPT ![x] = Absent]
    /\ Mirror("slices", SliceTarget(slices[x]), FALSE, SliceNext(slices[x], FALSE))
    /\ Changed(Concerned(x, Absent), FALSE)
    /\ UNCHANGED endpoints

\* Endpoints Added or Modified.
EndpointsUpsert(s, obj) ==
    /\ endpoints' = [endpoints EXCEPT ![s] = obj]
    /\ Mirror("endpoints", {s}, TRUE, "lock")
    /\ Changed({s}, TRUE)
    /\ UNCHANGED slices

\* Endpoints Deleted: no reloadService.
EndpointsDelete(s) ==
    /\ endpoints[s] # Absent
    /\ endpoints' = [endpoints EXCEPT ![s] = Absent]
    /\ Mirror("endpoints", {s}, FALSE, "lock")
    /\ Changed({s}, FALSE)
    /\ UNCHANGED slices

-----------------------------------------------------------------------------
(* A resync after a gap in the watch: the store is brought to the list     *)
(* object by object, then every host is rebuilt, but no port is resolved.  *)

Resync(w) ==
    /\ Mirror(w, Services, FALSE, "sync")
    /\ UNCHANGED <<stores, host, mu, left, seen, ports, unasked, shown, writes>>

\* store.Store of a listed slice, new or changed, or store.Delete of one that
\* is gone.
ResyncSlices(x, obj) ==
    /\ pc["slices"] = "sync"
    /\ slices[x] # obj
    /\ Relabel \/ KeepsService(x, obj)
    /\ slices' = [slices EXCEPT ![x] = obj]
    /\ Changed(Concerned(x, obj), FALSE)
    /\ UNCHANGED <<endpoints, pc, target, upsert>>

ResyncEndpoints(s, obj) ==
    /\ pc["endpoints"] = "sync"
    /\ endpoints[s] # obj
    /\ endpoints' = [endpoints EXCEPT ![s] = obj]
    /\ Changed({s}, FALSE)
    /\ UNCHANGED <<slices, pc, target, upsert>>

\* onResync: reloadEndpointDebounced, for all hosts.
ResyncDone(w) ==
    /\ pc[w] = "sync"
    /\ pc' = [pc EXCEPT ![w] = "lock"]
    /\ UNCHANGED <<stores, host, mu, target, upsert, left, seen, ports, unasked, shown, writes>>

-----------------------------------------------------------------------------
(* Recomputing hosts, under endpointReloadMu.                              *)

Lock(w) ==
    /\ pc[w] = "lock"
    /\ mu = Free
    /\ mu' = w
    /\ pc' = [pc EXCEPT ![w] = "read"]
    /\ left' = Slices \cup target[w]
    /\ UNCHANGED <<stores, host, target, upsert, seen, ports, unasked, shown, writes>>

\* Range over the slice store, one object at a time ...
ReadSlice(w, x) ==
    /\ pc[w] = "read"
    /\ x \in left \cap Slices
    /\ left' = left \ {x}
    /\ seen' = [seen EXCEPT !.slices[x] = slices[x]]
    /\ UNCHANGED <<stores, host, mu, pc, target, upsert, ports, unasked, shown, writes>>

\* ... and then the Endpoints objects.
ReadEndpoints(w, s) ==
    /\ pc[w] = "read"
    /\ left \cap Slices = {}
    /\ s \in left
    /\ left' = left \ {s}
    /\ seen' = [seen EXCEPT !.endpoints[s] = endpoints[s]]
    /\ UNCHANGED <<stores, host, mu, pc, target, upsert, ports, unasked, shown, writes>>

\* Mutation: the mutex is not released.
SetHostsLocked(w) ==
    /\ pc[w] = "read"
    /\ left = {}
    /\ host' = [s \in Services |->
                   IF s \in target[w] THEN Aggregate(seen.slices, seen.endpoints, s)
                                      ELSE host[s]]
    /\ pc' = [pc EXCEPT ![w] = IF upsert[w] THEN "call" ELSE "idle"]
    /\ target' = [target EXCEPT ![w] = {}]
    /\ seen' = Unseen
    /\ UNCHANGED <<stores, mu, upsert, left, ports, unasked, shown, writes>>

\* SetHostRoute / SetHostRoutes and Unlock.
SetHosts(w) ==
    /\ pc[w] = "read"
    /\ left = {}
    /\ host' = [s \in Services |->
                   IF s \in target[w] THEN Aggregate(seen.slices, seen.endpoints, s)
                                      ELSE host[s]]
    /\ mu' = Free
    /\ pc' = [pc EXCEPT ![w] = IF upsert[w] THEN "call" ELSE "idle"]
    /\ target' = [target EXCEPT ![w] = {}]
    /\ seen' = Unseen
    /\ UNCHANGED <<stores, upsert, left, ports, unasked, shown, writes>>

-----------------------------------------------------------------------------
(* The named ports.                                                        *)

\* reloadService of an upsert.
CallReloadService(w) ==
    /\ pc[w] = "call"
    /\ portDue' = TRUE
    /\ pc' = [pc EXCEPT ![w] = "idle"]
    /\ upsert' = [upsert EXCEPT ![w] = FALSE]
    /\ UNCHANGED <<stores, host, mu, target, left, seen, port, unresolved, table,
                   unasked, shown, writes>>

\* reloadServiceDebounced begins: whatever has changed so far, it will see.
ReloadService(g) ==
    /\ portDue
    /\ table[g] = Absent
    /\ portDue' = FALSE
    /\ unresolved' = [unresolved EXCEPT ![g] = Services]
    /\ table' = [table EXCEPT ![g] = [s \in Services |-> NoPort]]
    /\ unasked' = {}
    /\ UNCHANGED <<stores, hosts, port, shown, writes>>

\* It resolves the port of one Service.
ResolvePort(g, s) ==
    /\ table[g] # Absent
    /\ s \in unresolved[g]
    /\ unresolved' = [unresolved EXCEPT ![g] = @ \ {s}]
    /\ \E n \in TargetPorts(slices, endpoints, s) :
           table' = [table EXCEPT ![g] = [table[g] EXCEPT ![s] = n]]
    /\ UNCHANGED <<stores, hosts, port, portDue, unasked, shown, writes>>

\* SetPortRoutes replaces the whole table.
SetPorts(g) ==
    /\ table[g] # Absent
    /\ unresolved[g] = {}
    /\ port' = table[g]
    /\ table' = [table EXCEPT ![g] = Absent]
    /\ shown' = shown \cup {s \in Services : table[g][s] \in TargetPorts(slices, endpoints, s)}
    /\ UNCHANGED <<stores, hosts, portDue, unresolved, unasked, writes>>

-----------------------------------------------------------------------------
Event ==
    \/ \E x \in Slices : \/ \E obj \in SliceObject : SliceUpsert(x, obj)
                         \/ SliceDelete(x)
                         \/ \E obj \in SliceObject \cup {Absent} : ResyncSlices(x, obj)
    \/ \E s \in Services : \/ \E obj \in EndpointsObject : EndpointsUpsert(s, obj)
                           \/ EndpointsDelete(s)
                           \/ \E obj \in EndpointsObject \cup {Absent} : ResyncEndpoints(s, obj)
    \/ \E w \in Watchers : writes < MaxWrites /\ Resync(w)

Recompute(w) ==
    \/ ResyncDone(w) \/ Lock(w) \/ SetHosts(w) \/ CallReloadService(w)
    \/ \E x \in Slices : ReadSlice(w, x)
    \/ \E s \in Services : ReadEndpoints(w, s)

ReloadPorts(g) ==
    ReloadService(g) \/ SetPorts(g) \/ \E s \in Services : ResolvePort(g, s)

System == (\E w \in Watchers : Recompute(w)) \/ (\E g \in Reloads : ReloadPorts(g))

Next == Event \/ System

Spec == Init /\ [][Next]_vars

\* Goroutines that can run do run.
FairSpec == Spec /\ WF_vars(System)

-----------------------------------------------------------------------------
(* Properties.                                                             *)

\* No watch goroutine still has to recompute s.
Settled(s) == \A w \in Watchers : s \notin target[w]

\* The comment on endpointReloadMu: the last writer of a host is also the
\* latest reader, so a settled Service has the route the stores describe,
\* slices before Endpoints, whichever goroutine wrote last.
HostFresh ==
    \A s \in Services : Settled(s) => host[s] = Aggregate(slices, endpoints, s)

\* With nothing in flight every named port has been resolved and published as
\* the stores have it, unless the Service has changed by a deletion or a
\* resync, which ask for no reload of the ports, since a pass last began.  Of
\* two passes that overlap the one that resolved the port earlier may still
\* have published later (shown).
PortFreshUnlessUnasked ==
    (\A w \in Watchers : pc[w] = "idle") /\ ~portDue /\ (\A g \in Reloads : table[g] = Absent)
        => \A s \in Services \ unasked :
               s \in shown \/ port[s] \in TargetPorts(slices, endpoints, s)

\* When events stop, the host table ends up at what the stores describe.
HostsConverge ==
    <>[](\A s \in Services : host[s] = Aggregate(slices, endpoints, s))
=============================================================================
