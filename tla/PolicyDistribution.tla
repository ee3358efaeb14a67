------------------------- MODULE PolicyDistribution -------------------------
(***************************************************************************)
(* The way of a ruleset from the cluster to an edge: the control plane's   *)
(* reloaders (watch, relist, set), its store and the event hub; the edge's *)
(* event stream, its refresh loop and its WAF.  Coraza, rate limits, cache *)
(* overrides and hosts are distributed by the same loops.                  *)
(*                                                                         *)
(* Content stands for its own ETag (a SHA-256 prefix of the content).  The *)
(* generation, a counter of the control plane's process, only matters as   *)
(* zero or not.  One Write may stand for changes of several objects that   *)
(* no list falls between.  The signer's identity, which is part of the     *)
(* response, stays as it is.                                               *)
(***************************************************************************)
EXTENDS Naturals, FiniteSets

CONSTANTS
    Zones,        \* zone keys
    Hosts, Allowed,   \* hosts, and those the edge's token may serve
    Valid,        \* documents that compile
    Bad,          \* a document that does not
    Absent,       \* no document, no zone, no binding, no snapshot
    Boot,         \* the rules of a new WAF instance, a store never set
    Contents,     \* what the cluster may hold
    Handlers,     \* slots for event streams: MaxSubscribers of them
    MaxFaults,    \* bound on closed watches, failed lists, cut streams, restarts
    MaxTurns      \* bound on these and the changes of the cluster together

Docs == Valid \cup {Bad, Absent}
Parts == {"global"} \cup Zones
Aspects == {"rules", "bind"}

ASSUME ZonesAssumption == "global" \notin Zones /\ Allowed \subseteq Hosts
ASSUME MarksAssumption ==
    /\ Bad \notin Valid /\ Absent \notin Valid /\ Bad # Absent
    /\ Boot \notin Docs /\ Absent \notin Zones /\ Absent \notin Handlers
ASSUME TurnsAssumption ==
    IsFiniteSet(Handlers) /\ MaxTurns \in Nat /\ MaxFaults \in Nat

Content == [rules : [Parts -> Docs], bind : [Hosts -> Zones \cup {Absent}]]
ASSUME ContentsAssumption == Contents \subseteq Content

Empty == [rules |-> [p \in Parts |-> Absent], bind |-> [h \in Hosts |-> Absent]]

VARIABLES
    cluster,  \* ConfigMaps and Ingresses
    rpc,      \* where each reloader is
    event,    \* an undelivered watch event of each kind
    listed,   \* the zones the rules reloader has listed and not set yet
    stored,   \* WafStore: global, zones and bindings
    loaded,   \* its generation is not zero: something was set
    sampled,  \* the snapshot EventsHub.Run saw last
    handler,  \* each event stream's handler at the control plane
    chan,     \* its one-place channel
    stream,   \* the handler the edge is connected to
    first,    \* the vector sent on connect
    base,     \* the vector the edge compares with
    poke,     \* the wake-up of the refresh loop
    epc,      \* where the refresh loop is
    edge,     \* EdgeWAF: the rules of its instances and the zone bindings
    etag,     \* the ETag it sends
    claim,    \* its generation is not zero
    dirty,    \* history: the last Update rejected a ruleset
    failed,   \* history: the last fetch failed
    blink,    \* history: a change and its reversal the stream did not show
    faults, turns

cpVars     == <<rpc, event, listed, stored, loaded>>
streamVars == <<sampled, handler, chan, stream, first, base>>
edgeVars   == <<epc, edge, etag, claim, dirty, failed>>
policyVars == <<cluster, cpVars, streamVars, poke, edgeVars, blink, faults, turns>>

PolicyTypeOK ==
    /\ cluster \in Content /\ stored \in Content /\ sampled \in Content \cup {Boot}
    /\ rpc \in [Aspects -> {"connect", "list", "zones", "drain", "stale"}]
    /\ event \in [Aspects -> BOOLEAN]
    /\ listed \in [Zones -> Docs]
    /\ loaded \in BOOLEAN /\ claim \in BOOLEAN /\ poke \in BOOLEAN /\ dirty \in BOOLEAN
    /\ failed \in BOOLEAN /\ blink \in BOOLEAN
    /\ handler \in [Handlers -> {"free", "subscribed", "sending", "live", "cut"}]
    /\ chan \in [Handlers -> Content \cup {Absent, Boot}]
    /\ stream \in Handlers \cup {Absent}
    /\ first \in Content \cup {Absent, Boot} /\ base \in Content \cup {Absent, Boot}
    /\ epc \in {"idle", "sent"}
    /\ edge \in [rules : [Parts -> Valid \cup {Absent, Boot}], bind : [Hosts -> Zones \cup {Absent}]]
    /\ etag \in Content \cup {Absent}
    /\ faults \in 0..MaxFaults /\ turns \in 0..MaxTurns

-----------------------------------------------------------------------------
(* WafStore.scoped: the payload of an edge.                                *)

\* Only bindings of the edge's hosts, and only the zones they name.
Scoped(c) ==
    LET bind == [h \in Hosts |-> IF h \in Allowed THEN c.bind[h] ELSE Absent]
    IN  [rules |-> [p \in Parts |-> IF p = "global" \/ \E h \in Hosts : bind[h] = p
                                    THEN c.rules[p] ELSE Absent],
         bind  |-> bind]

-----------------------------------------------------------------------------
(* The control plane has done LoadOnce; the edge does its first fetch.     *)
PolicyInit ==
    /\ cluster \in {c \in Contents : \A p \in Parts : c.rules[p] # Bad}
    /\ rpc = [k \in Aspects |-> "connect"]
    /\ event = [k \in Aspects |-> FALSE]
    /\ listed = [q \in Zones |-> Absent] /\ stored = cluster /\ sampled = cluster
    /\ loaded = TRUE
    /\ handler = [h \in Handlers |-> "free"]
    /\ chan = [h \in Handlers |-> Absent]
    /\ stream = Absent /\ first = Absent /\ base = Absent
    /\ poke = FALSE
    /\ epc = "sent"
    /\ edge = [rules |-> [p \in Parts |-> IF p = "global" THEN Boot ELSE Absent],
               bind |-> Empty.bind]
    /\ etag = Absent /\ claim = FALSE /\ dirty = FALSE /\ failed = FALSE /\ blink = FALSE
    /\ faults = 0 /\ turns = 0

\* The bounded steps.
Turn  == turns < MaxTurns /\ turns' = turns + 1
FaultTurn == faults < MaxFaults /\ faults' = faults + 1 /\ Turn

\* Mutation: the watch is stopped for the time of a reload.
WatchingIdle(k) == rpc[k] \in {"drain", "stale"}

\* The watch of a kind is open from the connect until it closes.
Watching(k) == rpc[k] # "connect"

\* ConfigMaps or Ingresses change; an open watch gets an event.
Write(c) ==
    /\ Turn
    /\ c # cluster
    /\ cluster' = c
    /\ event' = [k \in Aspects |-> event[k] \/ (Watching(k) /\ c[k] # cluster[k])]
    /\ UNCHANGED <<rpc, listed, stored, loaded, streamVars, poke, edgeVars, blink, faults>>

-----------------------------------------------------------------------------
(* watchAndRelist.  A list and the first set after it are one step: only a *)
(* Write could tell them apart, and it leaves an event behind.             *)

\* The ETag of a store that was never set is not the one of empty content.
Version == IF loaded THEN stored ELSE Boot

\* recompute: a new generation with the first content and with every change.
Recompute(c) ==
    /\ stored' = c
    /\ loaded' = TRUE
    /\ blink' = (blink \/ (Version # sampled /\ c = sampled))

\* reload of the rules: SetGlobal, a critical section of its own ...
SetGlobal ==
    /\ Recompute([stored EXCEPT !.rules["global"] = cluster.rules["global"]])
    /\ listed' = [q \in Zones |-> cluster.rules[q]]
    /\ rpc' = [rpc EXCEPT !["rules"] = "zones"]

\* ... before SetZones.
SetZones ==
    /\ rpc["rules"] = "zones"
    /\ Recompute([stored EXCEPT !.rules =
                    [p \in Parts |-> IF p \in Zones THEN listed[p] ELSE @[p]]])
    /\ listed' = [q \in Zones |-> Absent]
    /\ rpc' = [rpc EXCEPT !["rules"] = "drain"]
    /\ UNCHANGED <<cluster, event, streamVars, poke, edgeVars, faults, turns>>

\* reload of the Ingresses: all bindings at once.
SetIngressDerived ==
    /\ Recompute([stored EXCEPT !.bind = cluster.bind])
    /\ rpc' = [rpc EXCEPT !["bind"] = "drain"]
    /\ UNCHANGED listed

Listed(k) == IF k = "rules" THEN SetGlobal ELSE SetIngressDerived

\* Establish the watch, which replays nothing ...
Watch(k) ==
    /\ rpc[k] = "connect"
    /\ rpc' = [rpc EXCEPT ![k] = "list"]
    /\ event' = [event EXCEPT ![k] = FALSE]
    /\ UNCHANGED <<cluster, listed, stored, loaded, streamVars, poke, edgeVars, blink, faults, turns>>

\* ... then list.
List(k) ==
    /\ rpc[k] = "list"
    /\ Listed(k)
    /\ UNCHANGED <<cluster, event, streamVars, poke, edgeVars, faults, turns>>

\* A list that fails keeps last-good and goes on to drain: it is not retried
\* before the next event or the next connect.
ListFails(k) ==
    /\ rpc[k] = "list"
    /\ FaultTurn
    /\ rpc' = [rpc EXCEPT ![k] = "stale"]
    /\ UNCHANGED <<cluster, event, listed, stored, loaded, streamVars, poke, edgeVars, blink>>

\* drain: a burst of events leads to one reload.
Drain(k) ==
    /\ rpc[k] \in {"drain", "stale"}
    /\ event[k]
    /\ event' = [event EXCEPT ![k] = FALSE]
    /\ rpc' = [rpc EXCEPT ![k] = "list"]
    /\ UNCHANGED <<cluster, listed, stored, loaded, streamVars, poke, edgeVars, blink, faults, turns>>

\* The API server ends the watch; an event may be lost with it.
Close(k) ==
    /\ rpc[k] \in {"drain", "stale"}
    /\ FaultTurn
    /\ rpc' = [rpc EXCEPT ![k] = "connect"]
    /\ event' = [event EXCEPT ![k] = FALSE]
    /\ UNCHANGED <<cluster, listed, stored, loaded, streamVars, poke, edgeVars, blink>>

\* The control plane restarts: each LoadOnce fills its part of the new store
\* or fails, which is logged; the streams break and a request in flight fails.
Restart(ok) ==
    /\ FaultTurn
    /\ stored' = [k \in Aspects |-> IF k \in ok THEN cluster[k] ELSE Empty[k]]
    /\ loaded' = (ok # {})
    /\ listed' = [q \in Zones |-> Absent]
    /\ sampled' = IF ok # {} THEN stored' ELSE Boot
    /\ rpc' = [k \in Aspects |-> "connect"]
    /\ event' = [k \in Aspects |-> FALSE]
    /\ handler' = [h \in Handlers |-> "free"]
    /\ chan' = [h \in Handlers |-> Absent]
    /\ stream' = Absent /\ first' = Absent /\ base' = Absent
    /\ epc' = "idle"
    /\ failed' = (failed \/ epc = "sent")
    /\ UNCHANGED <<cluster, poke, edge, etag, claim, dirty, blink>>

-----------------------------------------------------------------------------
(* The event stream.                                                       *)

Subscribers == {h \in Handlers : handler[h] # "free"}

\* EventsHub.Run: a change is broadcast, and an undelivered snapshot replaced.
Sample ==
    /\ Version # sampled
    /\ sampled' = Version
    /\ chan' = [h \in Handlers |-> IF h \in Subscribers THEN Version ELSE Absent]
    /\ blink' = (stream # Absent /\ chan[stream] # Absent /\ Version \in {first, base})
    /\ UNCHANGED <<cluster, cpVars, handler, stream, first, base, poke, edgeVars, faults, turns>>

\* OpenEvents: the handler subscribes; without a free slot it sheds.
Subscribe(h) ==
    /\ stream = Absent
    /\ handler[h] = "free"
    /\ handler' = [handler EXCEPT ![h] = "subscribed"]
    /\ chan' = [chan EXCEPT ![h] = Absent]
    /\ stream' = h
    /\ UNCHANGED <<cluster, cpVars, sampled, first, base, poke, edgeVars, blink, faults, turns>>

\* It sends the current vector ...
SendCurrent(h) ==
    /\ handler[h] = "subscribed"
    /\ handler' = [handler EXCEPT ![h] = "sending"]
    /\ first' = Version
    /\ UNCHANGED <<cluster, cpVars, sampled, chan, stream, base, poke, edgeVars, blink, faults, turns>>

\* ... and the edge, connected, wakes every loop and takes it as the baseline.
Connected(h) ==
    /\ handler[h] = "sending"
    /\ handler' = [handler EXCEPT ![h] = "live"]
    /\ base' = first /\ first' = Absent
    /\ poke' = TRUE
    /\ blink' = FALSE
    /\ UNCHANGED <<cluster, cpVars, sampled, chan, stream, edgeVars, faults, turns>>

\* Mutation: an event that differs from the baseline is taken as the baseline.
ReceiveQuiet(h) ==
    /\ handler[h] = "live" /\ chan[h] # Absent
    /\ base' = chan[h]
    /\ chan' = [chan EXCEPT ![h] = Absent]
    /\ UNCHANGED <<cluster, cpVars, sampled, handler, stream, first, poke, edgeVars, blink, faults, turns>>

\* An event pokes the loops whose version changed.
Receive(h) ==
    /\ handler[h] = "live" /\ chan[h] # Absent
    /\ poke' = (poke \/ chan[h] # base)
    /\ base' = chan[h]
    /\ chan' = [chan EXCEPT ![h] = Absent]
    /\ UNCHANGED <<cluster, cpVars, sampled, handler, stream, first, edgeVars, blink, faults, turns>>

\* The stream breaks (a cut by a proxy, or the watchdog of a silent stream).
\* The handler only notices later.
Cut ==
    /\ stream # Absent
    /\ FaultTurn
    /\ handler' = [handler EXCEPT ![stream] = "cut"]
    /\ stream' = Absent /\ first' = Absent /\ base' = Absent
    /\ UNCHANGED <<cluster, cpVars, sampled, chan, poke, edgeVars, blink>>

\* Mutation: the subscription of a broken stream is never cancelled.
CancelLeaks(h) ==
    /\ handler[h] = "cut" /\ chan[h] # Absent
    /\ chan' = [chan EXCEPT ![h] = Absent]
    /\ UNCHANGED <<cluster, cpVars, sampled, handler, stream, first, base, poke, edgeVars, blink, faults, turns>>

Cancel(h) ==
    /\ handler[h] = "cut"
    /\ handler' = [handler EXCEPT ![h] = "free"]
    /\ chan' = [chan EXCEPT ![h] = Absent]
    /\ UNCHANGED <<cluster, cpVars, sampled, stream, first, base, poke, edgeVars, blink, faults, turns>>

-----------------------------------------------------------------------------
(* The refresh loop.                                                       *)

\* RefreshWafOnce on a tick of the poll timer or on a poke.
Start(p) ==
    /\ epc = "idle"
    /\ epc' = "sent"
    /\ poke' = p
    /\ UNCHANGED <<cluster, cpVars, streamVars, edge, etag, claim, dirty, failed, blink, faults, turns>>

Tick == Start(poke)
Poked == poke /\ Start(FALSE)

\* handleWAF, 304: the edge keeps what it has.
NotModified ==
    /\ epc = "sent"
    /\ Scoped(stored) = etag
    /\ epc' = "idle" /\ failed' = FALSE
    /\ UNCHANGED <<cluster, cpVars, streamVars, poke, edge, etag, claim, dirty, blink, faults, turns>>

\* The fetch fails: keep the last-good ruleset.
FetchFails ==
    /\ epc = "sent"
    /\ epc' = "idle" /\ failed' = TRUE
    /\ UNCHANGED <<cluster, cpVars, streamVars, poke, edge, etag, claim, dirty, blink, faults, turns>>

\* The rules of an instance after the fetch of document d: keep last-good on
\* a compile error.  A zone that is new starts with the empty ruleset.
Load(p, d) ==
    IF d # Bad THEN d
    ELSE IF p \in Zones /\ edge.rules[p] = Absent THEN Boot ELSE edge.rules[p]

Clean(body) == \A p \in Parts : body.rules[p] # Bad

\* handleWAF, 200, and EdgeWAF.Update: each ruleset that compiles is applied.
\* No other process sees the time between the two.
ApplySnapshot ==
    /\ epc = "sent"
    /\ Scoped(stored) # etag
    /\ edge' = [rules |-> [p \in Parts |-> Load(p, Scoped(stored).rules[p])],
                bind |-> Scoped(stored).bind]
    /\ dirty' = ~Clean(Scoped(stored))
    /\ epc' = "idle" /\ failed' = FALSE
    /\ UNCHANGED <<cluster, cpVars, streamVars, poke, blink, faults, turns>>

\* Mutation: the generation advances with a rejected snapshot.
UpdateEager ==
    /\ ApplySnapshot
    /\ etag' = IF Clean(Scoped(stored)) THEN Scoped(stored) ELSE etag
    /\ claim' = loaded

\* The ETag and the generation advance on a clean apply only.
Update ==
    /\ ApplySnapshot
    /\ IF Clean(Scoped(stored))
       THEN etag' = Scoped(stored) /\ claim' = loaded
       ELSE UNCHANGED <<etag, claim>>

-----------------------------------------------------------------------------
Reload(k) == Watch(k) \/ List(k) \/ ListFails(k) \/ Drain(k) \/ Close(k)
Stream(h) == Subscribe(h) \/ SendCurrent(h) \/ Connected(h) \/ Receive(h) \/ Cancel(h)
Fetched == Update \/ NotModified
Refresh == Tick \/ Poked \/ Fetched \/ FetchFails

PolicyNext ==
    \/ \E c \in Contents : Write(c)
    \/ \E ok \in SUBSET Aspects : Restart(ok)
    \/ SetZones \/ \E k \in Aspects : Reload(k)
    \/ Sample \/ Cut \/ \E h \in Handlers : Stream(h)
    \/ Refresh

PolicySpec == PolicyInit /\ [][PolicyNext]_policyVars

\* Reloaders, hub, handlers and the refresh loop keep running, and one of
\* infinitely many requests is answered.  No watch has to end, and the poll
\* timer is left to the properties.
PolicyFairSpec ==
    /\ PolicySpec
    /\ WF_policyVars(SetZones)
    /\ \A k \in Aspects : WF_policyVars(Watch(k) \/ List(k) \/ Drain(k))
    /\ WF_policyVars(Sample)
    /\ \A h \in Handlers : WF_policyVars(Stream(h))
    /\ WF_policyVars(Poked) /\ WF_policyVars(Fetched \/ FetchFails) /\ SF_policyVars(Fetched)

-----------------------------------------------------------------------------
(* Properties.                                                             *)

\* The edge enforces content c, up to the documents that do not compile.
Serves(c) ==
    /\ edge.bind = c.bind
    /\ \A p \in Parts : c.rules[p] # Bad => edge.rules[p] = c.rules[p]

\* The edge claims to have checked a request against the platform's rules
\* (ClaimStamp) only when its global instance holds rules that the control
\* plane sent: never on the empty ruleset it booted with, whatever order of
\* failed fetches, rejected snapshots and restarts came before.
ClaimNotAtBoot == claim => edge.rules["global"] # Boot

\* A half-applied snapshot whose reversal the control plane answers with 304.
Stale304 == dirty /\ etag = Scoped(stored)

\* A reloader whose last list failed, with no event since.
Unlisted == \E k \in Aspects : rpc[k] = "stale"

\* The poll timer is the correctness floor (RunEvents): however watches,
\* streams, fetches and restarts fail, the edge comes to enforce what the
\* cluster holds for it, or what it half-applied (Stale304), unless the
\* control plane is left with a failed list.
PolicyConverges ==
    WF_policyVars(Tick) => <>[](Serves(Scoped(cluster)) \/ Stale304 \/ Unlisted)

\* The stream alone suffices (runEventsOnce): without a single tick the edge
\* comes to enforce what the cluster holds, unless its last fetch failed or
\* the content changed and changed back between two events.
StreamConverges ==
    <>[](Serves(Scoped(cluster)) \/ Stale304 \/ Unlisted \/ failed \/ blink)
=============================================================================
