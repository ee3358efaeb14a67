---------------------------- MODULE TrustManager ----------------------------
(***************************************************************************)
(* The trust manager of the core (trust/trust.go).  One goroutine (Run)    *)
(* pulls trust bundles from the control plane, validates them and stores   *)
(* pool, generation and CA id one after the other; request handlers        *)
(* (VerifyClientCert) read pool and generation without a lock and share a  *)
(* memo of verified leaves that belongs to one generation.  The last good  *)
(* generation is kept on disk as the floor of the next process.            *)
(*                                                                         *)
(* A bundle is named by its generation: Bundles[g] is the set of CAs of    *)
(* generation g, and a leaf is named by the CA that signed it, so a leaf   *)
(* chains to the pool of g when it is a member of Bundles[g].  The control *)
(* plane is external: a replica may answer with any generation, however    *)
(* stale, and the answer may be lost, malformed or empty.                  *)
(***************************************************************************)
EXTENDS Naturals, FiniteSets

CONSTANTS Bundles,      \* sequence of CA sets, one per generation
          CAs,          \* the CAs a leaf may be signed by
          Handlers,     \* request handlers that verify a client certificate
          VerifyCap,    \* verifyCacheCap
          MaxRestarts,  \* bound on the crashes of the core
          MaxLosses     \* bound on losses or expiries of the cache file

N == Cardinality(DOMAIN Bundles)
Gens == 0 .. N

ASSUME BundlesAssumption ==
    /\ N \in Nat \ {0}
    /\ Bundles \in [1 .. N -> SUBSET CAs]
    /\ CAs # {}
ASSUME BoundsAssumption ==
    VerifyCap \in Nat \ {0} /\ MaxRestarts \in Nat /\ MaxLosses \in Nat

VARIABLES
    pool,       \* clientCAs, named by its generation; 0 is the nil pointer
    gen,        \* gen
    floor,      \* floor
    lastGood,   \* generation of lastGood; 0 is the nil pointer
    disk,       \* the cache file: generation (0: missing or unreadable), age
    pc,         \* where the Run goroutine is
    verify,     \* verifyGen and verifyCache
    ready,      \* how WaitReady ended: "no" while the core is not ready
    req,        \* connections and the handlers' calls of VerifyClientCert
    torn,       \* history: a handler paired an old pool with a newer generation
    restarts, losses

vars == <<pool, gen, floor, lastGood, disk, pc, verify, ready, req, torn, restarts, losses>>

core == <<pool, gen, floor, lastGood>>
bounds == <<ready, torn, restarts, losses>>

\* A handler without a connection.
Closed == [pc |-> "closed", leaf |-> CHOOSE c \in CAs : TRUE, pool |-> 0, gen |-> 0, seen |-> {}, ok |-> FALSE]
Calling(h) == req[h].pc \in {"gen", "lookup", "insert"}
NoMemo == [gen |-> 0, leaves |-> {}]

TypeOK ==
    /\ {pool, gen, floor, lastGood} \subseteq Gens
    /\ disk \in [gen : Gens, fresh : BOOLEAN]
    /\ pc \in {"fetch", "watch", "gen", "cache"}
    /\ ready \in {"no", "loaded", "timeout"}
    /\ verify.gen \in Gens /\ verify.leaves \subseteq CAs /\ Cardinality(verify.leaves) <= VerifyCap
    /\ \A h \in Handlers :
          /\ req[h].pc \in {"closed", "bare", "open", "gen", "lookup", "insert", "done"}
          /\ req[h].leaf \in CAs
          /\ {req[h].pool, req[h].gen} \cup req[h].seen \subseteq Gens
          /\ req[h].ok \in BOOLEAN
    /\ torn \in BOOLEAN
    /\ restarts \in 0 .. MaxRestarts /\ losses \in 0 .. MaxLosses

Init ==
    /\ pool = 0 /\ gen = 0 /\ floor = 0 /\ lastGood = 0
    /\ disk = [gen |-> 0, fresh |-> FALSE]
    /\ pc = "fetch"
    /\ verify = NoMemo
    /\ ready = "no" /\ torn = FALSE
    /\ req = [h \in Handlers |-> Closed]
    /\ restarts = 0 /\ losses = 0

-----------------------------------------------------------------------------
\* The cache file is lost with its volume, or becomes older than maxStale.
LoseCache ==
    /\ losses < MaxLosses /\ disk.gen # 0
    /\ losses' = losses + 1
    /\ disk' \in {[gen |-> 0, fresh |-> FALSE], [disk EXCEPT !.fresh = FALSE]}
    /\ UNCHANGED <<core, pc, verify, ready, torn, req, restarts>>

-----------------------------------------------------------------------------
(* The Run goroutine.                                                      *)

\* generation of the cache file when it can be a floor, 0 otherwise.
readCache == IF disk.fresh THEN disk.gen ELSE 0

\* Mutants: no floor; a floor that excludes the generation it names.
AcceptableNoFloor(g) == g > gen
AcceptableAboveFloor(g) == (floor # 0 => g > floor) /\ g > gen
\* The checks of apply before its first store: the floor, then forward-only.
Acceptable(g) == g >= floor /\ g > gen

\* The bundle of the live generation again, which apply calls unchanged.
Unchanged(g) == g >= floor /\ gen # 0 /\ g = gen

\* Fetch fails, or the bundle has a malformed block or none at all.  Run
\* keeps last good and goes on with long polls; the backoff is only time.
FetchFails ==
    /\ pc = "fetch"
    /\ pc' = "watch"
    /\ UNCHANGED <<core, disk, verify, req, bounds>>

\* A replica answers with the bundle it serves and apply rejects it.
Rejected(g) ==
    /\ pc \in {"fetch", "watch"}
    /\ ~Acceptable(g) /\ ~Unchanged(g)
    /\ pc' = "watch"
    /\ UNCHANGED <<core, disk, verify, req, bounds>>

\* writeCache: generation g replaces the file with a new time, or it fails.
writeCache(g) == disk' \in {[gen |-> g, fresh |-> TRUE], disk}

\* A replica answers with a newer bundle; apply stores its pool ...
StorePool(g) ==
    /\ pc \in {"fetch", "watch"}
    /\ Acceptable(g)
    /\ pool' = g /\ pc' = "gen"
    /\ req' = [h \in Handlers |-> IF Calling(h) THEN [req[h] EXCEPT !.seen = @ \cup {g}] ELSE req[h]]
    /\ UNCHANGED <<gen, floor, lastGood, disk, verify, bounds>>

\* ... then its generation and its CA id ...
StoreGen ==
    /\ pc = "gen"
    /\ gen' = pool /\ pc' = "cache"
    /\ UNCHANGED <<pool, floor, lastGood, disk, verify, req, bounds>>

\* ... and Run remembers what was applied and persists it.
Remember ==
    /\ pc = "cache"
    /\ lastGood' = gen /\ pc' = "watch"
    /\ writeCache(gen)
    /\ UNCHANGED <<pool, gen, floor, verify, req, bounds>>

\* The same generation again, or a 304: contact, so the file is rewritten.
Contact(g) ==
    /\ pc \in {"fetch", "watch"}
    /\ Unchanged(g)
    /\ pc' = "watch"
    /\ writeCache(lastGood)
    /\ UNCHANGED <<core, verify, req, bounds>>

NotModified ==
    /\ pc = "watch" /\ lastGood # 0
    /\ writeCache(lastGood)
    /\ UNCHANGED <<core, pc, verify, req, bounds>>

\* The process stops at any point; the next one runs EnableWarmStart.
Restart ==
    /\ restarts < MaxRestarts
    /\ restarts' = restarts + 1
    /\ pool' = 0 /\ gen' = 0
    /\ floor' = readCache /\ lastGood' = readCache
    /\ pc' = "fetch"
    /\ verify' = NoMemo
    /\ ready' = "no" /\ torn' = FALSE
    /\ req' = [h \in Handlers |-> Closed]
    /\ UNCHANGED <<disk, losses>>

\* The readiness gate of the core: WaitReady returns once a pool is loaded,
\* or when its timeout has passed; connections come only to a ready core.
WaitReady ==
    /\ ready = "no"
    /\ ready' = IF pool # 0 THEN "loaded" ELSE "timeout"
    /\ UNCHANGED <<core, disk, pc, verify, req, torn, restarts, losses>>

-----------------------------------------------------------------------------
(* Handshakes and VerifyClientCert, one handler at a time.                 *)

\* GetConfigForClient: without a pool no certificate is requested and the
\* connection stays bare, else the edge presents its leaf.
Handshake(h, c) ==
    /\ ready # "no" /\ req[h].pc = "closed"
    /\ req' = [req EXCEPT ![h] =
          [Closed EXCEPT !.leaf = c, !.pc = IF pool = 0 THEN "bare" ELSE "open"]]
    /\ UNCHANGED <<core, disk, pc, verify, bounds>>

\* The connection is recycled.
Close(h) ==
    /\ req[h].pc \in {"bare", "open", "done"}
    /\ req' = [req EXCEPT ![h] = Closed]
    /\ UNCHANGED <<core, disk, pc, verify, bounds>>

\* A request on a connection with a certificate loads the pool; the pool is
\* never nil again in this process, and a bare connection answers false.
LoadPool(h) ==
    /\ req[h].pc \in {"open", "done"}
    /\ req' = [req EXCEPT ![h] =
          [Closed EXCEPT !.leaf = req[h].leaf, !.pool = pool, !.seen = {pool, gen}, !.pc = "gen"]]
    /\ UNCHANGED <<core, disk, pc, verify, bounds>>

LoadGen(h) ==
    /\ req[h].pc = "gen"
    /\ req' = [req EXCEPT ![h].gen = gen, ![h].pc = "lookup"]
    /\ torn' = (torn \/ req[h].pool < gen)
    /\ UNCHANGED <<core, disk, pc, verify, ready, restarts, losses>>

\* A memo hit under the generation that was loaded answers true; otherwise
\* the chain is built against the pool that was loaded.
Returned(q, ok) == [q EXCEPT !.pc = "done", !.pool = 0, !.gen = 0, !.ok = ok]
Memoized(h) == verify.gen = req[h].gen /\ req[h].leaf \in verify.leaves
Lookup(h) ==
    /\ req[h].pc = "lookup"
    /\ LET chains == req[h].leaf \in Bundles[req[h].pool]
       IN req' = [req EXCEPT ![h] = IF chains /\ ~Memoized(h)
                                    THEN [@ EXCEPT !.pc = "insert", !.ok = TRUE]
                                    ELSE Returned(@, Memoized(h))]
    /\ UNCHANGED <<core, disk, pc, verify, bounds>>

\* A verified leaf is memoized under generation g; another generation's memo
\* is dropped, and a full one loses an arbitrary entry.
Memoize(h, g, cap) ==
    /\ req[h].pc = "insert"
    /\ LET kept == IF verify.gen = g THEN verify.leaves ELSE {}
       IN \E drop \in SUBSET kept :
             /\ Cardinality(drop) = IF Cardinality(kept) >= cap THEN 1 ELSE 0
             /\ verify' = [gen |-> g, leaves |-> (kept \ drop) \cup {req[h].leaf}]
    /\ req' = [req EXCEPT ![h] = Returned(@, TRUE)]
    /\ UNCHANGED <<core, disk, pc, bounds>>

\* Mutant: the generation is read again at the insertion.
InsertRereads(h) == Memoize(h, gen, VerifyCap)
\* The memo belongs to the generation that the call has loaded.
Insert(h) == Memoize(h, req[h].gen, VerifyCap)

-----------------------------------------------------------------------------
Next ==
    \/ LoseCache \/ FetchFails \/ NotModified \/ StoreGen \/ Remember \/ Restart \/ WaitReady
    \/ \E g \in 1 .. N : Rejected(g) \/ Contact(g) \/ StorePool(g)
    \/ \E h \in Handlers :
          \/ LoadPool(h) \/ LoadGen(h) \/ Lookup(h) \/ Insert(h) \/ Close(h)
          \/ \E c \in CAs : Handshake(h, c)

\* Run never stops polling, its stores follow each other, and a replica that
\* serves the newest bundle answers once in a while.
Fairness == WF_vars(StoreGen) /\ WF_vars(Remember) /\ SF_vars(StorePool(N))

Spec == Init /\ [][Next]_vars /\ Fairness

-----------------------------------------------------------------------------
\* Every verdict of VerifyClientCert is the verdict of a CA set that was in
\* force at some moment of the call, although pool, generation and memo are
\* read and written without a common lock while apply swaps them.  The
\* comment in VerifyClientCert argues that reading the pool before the
\* generation is enough for that.
VerdictInForce ==
    \A h \in Handlers : req[h].pc = "done" =>
        \E g \in req[h].seen : req[h].ok = (g # 0 /\ req[h].leaf \in Bundles[g])

\* The same, in a process in which no call has loaded a pool, lost the race
\* against a whole apply, and then loaded the new generation.
VerdictInForceUnlessTorn == torn \/ VerdictInForce

\* The manager implements what it promises: forward-only within a process,
\* across a restart never older than the cache file that survived it.
Anchors == INSTANCE TrustAnchors WITH
    held <- gen, durable <- readCache, bound <- floor
ImplementsAnchors == Anchors!Spec

\* The newest CA set reaches the core in spite of failed fetches, stale
\* replicas, restarts and floors: no floor locks it out.
BundleArrives == []<>(gen = N)
=============================================================================
