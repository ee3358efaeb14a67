---------------------------- MODULE EdgeCertStore ----------------------------
(***************************************************************************)
(* The edge's certificate store (edge/certstore.go) with its two writers:  *)
(* the periodic refresh loop and, in serve-all mode, the TLS handshakes    *)
(* that fetch the certificate of an unheld name on demand, guarded by a    *)
(* negative cache, single-flight and a cap on the fetches in flight.       *)
(*                                                                         *)
(* A certificate is abstracted to its version at the control plane, 0 when *)
(* there is none; the version also is its ETag.  Every name is its own     *)
(* fetch key.  A handshake that hits the table or the negative cache       *)
(* changes nothing and is not a step.                                      *)
(***************************************************************************)
EXTENDS Naturals, FiniteSets

CONSTANTS
    Domains,
    Configured,    \* the domains the edge always refreshes
    Handshakes,    \* handshake goroutines
    Loop,          \* the refresh goroutine
    MaxInFlight,   \* capacity of sem
    MaxMiss,       \* maxNegCacheEntries
    MaxVersion     \* bound on the rotations of a certificate

ASSUME ConfiguredAssumption ==
    Configured \subseteq Domains /\ IsFiniteSet(Domains) /\ Domains # {}
ASSUME ThreadsAssumption    == Loop \notin Handshakes /\ IsFiniteSet(Handshakes)
ASSUME LimitsAssumption     == /\ MaxInFlight \in Nat \ {0}
                               /\ MaxMiss \in Nat /\ MaxVersion \in Nat

Threads == Handshakes \cup {Loop}
CertVersion == 0..MaxVersion

VARIABLES
    issued,  \* the certificates the control plane has
    cache,   \* CertStore.cache
    table,   \* CertStore.table, the SNI index
    miss,    \* the names in their negative-cache window
    todo,    \* domains of the current tick the loop has still to refresh
    pc,      \* where each goroutine is
    dom,     \* the domain it works on
    asked,   \* the ETag it sent
    res,     \* the certificate it got
    list     \* the certificates Update collected

fetching == <<dom, asked, res, list>>
certVars == <<issued, cache, table, miss, todo, pc, dom, asked, res, list>>

CertTypeOK ==
    /\ issued \in [Domains -> CertVersion]
    /\ cache \in [Domains -> CertVersion]
    /\ table \in [Domains -> CertVersion]
    /\ miss \subseteq Domains /\ Cardinality(miss) <= MaxMiss
    /\ todo \subseteq Domains
    /\ pc \in [Threads -> {"idle", "wait", "fetch", "sent", "update", "swap",
                           "done", "record"}]
    /\ dom \in [Threads -> Domains]
    /\ asked \in [Threads -> CertVersion]
    /\ res \in [Threads -> CertVersion]
    /\ list \in [Threads -> [Domains -> CertVersion]]

None == [d \in Domains |-> 0]

CertInit ==
    /\ issued \in [Domains -> {0, 1} \cap CertVersion]
    /\ cache = None /\ table = None /\ miss = {} /\ todo = {}
    /\ pc = [t \in Threads |-> "idle"]
    /\ dom \in [Threads -> {CHOOSE d \in Domains : TRUE}]
    /\ asked = [t \in Threads |-> 0]
    /\ res = [t \in Threads |-> 0]
    /\ list = [t \in Threads |-> None]

\* CertStore.Set of the control plane: a certificate is issued or rotated.
Rotate(d) ==
    /\ issued[d] < MaxVersion
    /\ issued' = [issued EXCEPT ![d] = @ + 1]
    /\ UNCHANGED <<cache, table, miss, todo, pc, fetching>>

-----------------------------------------------------------------------------
(* fetchOnDemand.                                                          *)

\* A handshake between the start and the end of its fetch leads its flight
\* and holds a slot of sem.
Leading(h) == pc[h] \notin {"idle", "wait"}
InFlight   == {h \in Handshakes : Leading(h)}
Flight(d)  == {h \in InFlight : dom[h] = d}

\* Mutation: a full semaphore does not shed.
HelloUncapped(h, d) ==
    /\ pc[h] = "idle"
    /\ table[d] = 0 /\ d \notin miss
    /\ pc' = [pc EXCEPT ![h] = IF Flight(d) # {} THEN "wait" ELSE "fetch"]
    /\ dom' = [dom EXCEPT ![h] = d]
    /\ UNCHANGED <<issued, cache, table, miss, todo, asked, res, list>>

\* A handshake for a name that is neither held nor suppressed joins the flight
\* for it, or leads one if a slot is free; otherwise it sheds.
Hello(h, d) ==
    /\ pc[h] = "idle"
    /\ table[d] = 0 /\ d \notin miss
    /\ \/ Flight(d) # {} /\ pc' = [pc EXCEPT ![h] = "wait"]
       \/ /\ Flight(d) = {}
          /\ Cardinality(InFlight) < MaxInFlight
          /\ pc' = [pc EXCEPT ![h] = "fetch"]
    /\ dom' = [dom EXCEPT ![h] = d]
    /\ UNCHANGED <<issued, cache, table, miss, todo, asked, res, list>>

\* The end of a flight: the slot is released and the followers return.
Land(h) == [t \in Threads |-> IF t = h \/ (pc[t] = "wait" /\ dom[t] = dom[h])
                              THEN "idle" ELSE pc[t]]

\* The fetch left a certificate in the cache: lift the suppression.
LandHit(h) ==
    /\ pc[h] = "done"
    /\ cache[dom[h]] # 0
    /\ miss' = miss \ {dom[h]}
    /\ pc' = Land(h)
    /\ UNCHANGED <<issued, cache, table, todo, fetching>>

\* It did not: recordMiss comes after the check, under another mutex.
CheckMiss(h) ==
    /\ pc[h] = "done"
    /\ cache[dom[h]] = 0
    /\ pc' = [pc EXCEPT ![h] = "record"]
    /\ UNCHANGED <<issued, cache, table, miss, todo, fetching>>

\* Mutation: the flight's followers are not woken.
RecordMissLonely(h) ==
    /\ pc[h] = "record"
    /\ miss' = IF Cardinality(miss) < MaxMiss THEN miss \cup {dom[h]} ELSE miss
    /\ pc' = [pc EXCEPT ![h] = "idle"]
    /\ UNCHANGED <<issued, cache, table, todo, fetching>>

\* recordMiss: dropped when the negative cache is full.
RecordMiss(h) ==
    /\ pc[h] = "record"
    /\ miss' = IF Cardinality(miss) < MaxMiss THEN miss \cup {dom[h]} ELSE miss
    /\ pc' = Land(h)
    /\ UNCHANGED <<issued, cache, table, todo, fetching>>

\* The window of a missed name is over.
ExpireMiss(d) ==
    /\ d \in miss
    /\ miss' = miss \ {d}
    /\ UNCHANGED <<issued, cache, table, todo, pc, fetching>>

-----------------------------------------------------------------------------
(* The refresh loop.                                                       *)

\* A tick or a poke: the configured domains and the cached ones.
TickCerts ==
    /\ pc[Loop] = "idle" /\ todo = {}
    /\ todo' = Configured \cup {d \in Domains : cache[d] # 0}
    /\ UNCHANGED <<issued, cache, table, miss, pc, fetching>>

NextDomain(d) ==
    /\ pc[Loop] = "idle"
    /\ d \in todo
    /\ todo' = todo \ {d}
    /\ pc' = [pc EXCEPT ![Loop] = "fetch"]
    /\ dom' = [dom EXCEPT ![Loop] = d]
    /\ UNCHANGED <<issued, cache, table, miss, asked, res, list>>

LoopDone ==
    /\ pc[Loop] = "done"
    /\ pc' = [pc EXCEPT ![Loop] = "idle"]
    /\ UNCHANGED <<issued, cache, table, miss, todo, fetching>>

-----------------------------------------------------------------------------
(* RefreshCertOnce, in the loop or in the leader of a flight.              *)

\* FetchCert(domain, store.Etag(domain)).
Fetch(t) ==
    /\ pc[t] = "fetch"
    /\ asked' = [asked EXCEPT ![t] = cache[dom[t]]]
    /\ pc' = [pc EXCEPT ![t] = "sent"]
    /\ UNCHANGED <<issued, cache, table, miss, todo, dom, res, list>>

\* 200: a certificate with another ETag.
Answer(t) ==
    /\ pc[t] = "sent"
    /\ issued[dom[t]] \notin {0, asked[t]}
    /\ res' = [res EXCEPT ![t] = issued[dom[t]]]
    /\ asked' = [asked EXCEPT ![t] = 0]
    /\ pc' = [pc EXCEPT ![t] = "update"]
    /\ UNCHANGED <<issued, cache, table, miss, todo, dom, list>>

\* 304, 404 or an error: fail static.  The locals go out of scope.
KeepCached(t) ==
    /\ pc[t] = "sent"
    /\ pc' = [pc EXCEPT ![t] = "done"]
    /\ asked' = [asked EXCEPT ![t] = 0]
    /\ UNCHANGED <<issued, cache, table, miss, todo, dom, res, list>>

\* Mutation: Update keeps the certificate it has.
UpdateCacheOnce(t) ==
    /\ pc[t] = "update"
    /\ cache' = [cache EXCEPT ![dom[t]] = IF @ = 0 THEN res[t] ELSE @]
    /\ list' = [list EXCEPT ![t] = cache']
    /\ res' = [res EXCEPT ![t] = 0]
    /\ pc' = [pc EXCEPT ![t] = "swap"]
    /\ UNCHANGED <<issued, table, miss, todo, dom, asked>>

\* Update, under mu: the cache entry and the list of all certificates ...
UpdateCache(t) ==
    /\ pc[t] = "update"
    /\ cache' = [cache EXCEPT ![dom[t]] = res[t]]
    /\ list' = [list EXCEPT ![t] = cache']
    /\ res' = [res EXCEPT ![t] = 0]
    /\ pc' = [pc EXCEPT ![t] = "swap"]
    /\ UNCHANGED <<issued, table, miss, todo, dom, asked>>

\* ... and, after the Unlock, table.Set and clearMiss.
SwapTable(t) ==
    /\ pc[t] = "swap"
    /\ table' = list[t]
    /\ list' = [list EXCEPT ![t] = None]
    /\ miss' = miss \ {dom[t]}
    /\ pc' = [pc EXCEPT ![t] = "done"]
    /\ UNCHANGED <<issued, cache, todo, dom, asked, res>>

-----------------------------------------------------------------------------
RefreshCert(t) == Fetch(t) \/ Answer(t) \/ KeepCached(t) \/ UpdateCache(t) \/ SwapTable(t)

HandshakeStep(h) == RefreshCert(h) \/ LandHit(h) \/ CheckMiss(h) \/ RecordMiss(h)

RunLoop == RefreshCert(Loop) \/ TickCerts \/ LoopDone \/ \E d \in Domains : NextDomain(d)

CertNext ==
    \/ \E d \in Domains : Rotate(d) \/ ExpireMiss(d)
    \/ \E h \in Handshakes : HandshakeStep(h) \/ \E d \in Domains : Hello(h, d)
    \/ RunLoop

CertSpec == CertInit /\ [][CertNext]_certVars

\* Every goroutine keeps running; a domain the loop asks for again and again
\* is answered in the end; nobody has to start a handshake.
CertFairSpec ==
    /\ CertSpec
    /\ \A h \in Handshakes : WF_certVars(HandshakeStep(h))
    /\ WF_certVars(RunLoop)
    /\ \A d \in Domains : SF_certVars(Answer(Loop) /\ dom[Loop] = d)

-----------------------------------------------------------------------------
(* Properties.                                                             *)

\* At any time the handshakes make at most MaxInFlight requests to the control
\* plane, and one per name: a herd for one name shares a fetch, a flood of
\* names sheds.
BoundedFetches ==
    /\ Cardinality(InFlight) <= MaxInFlight
    /\ \A d \in Domains : Cardinality(Flight(d)) <= 1

\* A handshake that joined or leads a flight ends, with a certificate or
\* without.
HandshakesEnd == \A h \in Handshakes : (pc[h] # "idle") ~> (pc[h] = "idle")

\* Every certificate the edge holds is rotated in the end, also one that was
\* fetched on demand.
CacheConverges == <>[](\A d \in Domains : cache[d] # 0 => cache[d] = issued[d])
=============================================================================
