------------------------- MODULE TrustManagerProofs -------------------------
(***************************************************************************)
(* Proofs that the trust manager implements TrustAnchors, and that every   *)
(* verdict of VerifyClientCert was in force during the call unless the     *)
(* call was torn, for any sequence of bundles, any number of handlers and  *)
(* any number of restarts.                                                 *)
(*                                                                         *)
(* The abstract steps are those that store the generation or write the     *)
(* cache file.  Both happen later than the checks of apply, so that the    *)
(* invariant must carry what was checked from the store of the pool to the *)
(* store of the generation, and what is remembered from there to the file. *)
(*                                                                         *)
(* For the verdicts, the pools that are stored while a generation is in    *)
(* force are its own and the next one; a call that has loaded the          *)
(* generation has both in sight, since the next one is stored before the   *)
(* call or during it.  The memo of the generation is filled from these two *)
(* pools, so whatever a call finds there was in force during the call.     *)
(***************************************************************************)
EXTENDS TrustManager, FiniteSetTheorems, TLAPS

\* The state of the Run goroutine.
CoreTypes ==
    /\ pool \in Gens /\ gen \in Gens /\ floor \in Gens /\ lastGood \in Gens
    /\ disk \in [gen : Gens, fresh : BOOLEAN]
    /\ pc \in {"fetch", "watch", "gen", "cache"}

\* A generation in force is not below the floor.
AboveFloor == gen # 0 => gen >= floor

\* Between the store of the pool and that of the generation, the pool is what
\* apply has accepted; after it there is a generation to remember.
Accepted ==
    /\ pc = "gen" => pool > gen /\ pool >= floor
    /\ pc = "cache" => gen # 0

\* Run remembers the generation in force, or what it was warm-started with.
Remembered == pc # "cache" => lastGood = IF gen # 0 THEN gen ELSE floor

MapInv == CoreTypes /\ AboveFloor /\ Accepted /\ Remembered

-----------------------------------------------------------------------------
\* Generations are natural numbers.
LEMMA GensNat == 0 \in Gens /\ Gens \subseteq Nat
  BY BundlesAssumption DEF Gens

\* A cache file that can be a floor holds a generation.
LEMMA CacheGen == CoreTypes => readCache \in Gens
  BY GensNat DEF CoreTypes, readCache

\* What is written is a cache file, and a failed write leaves the old one.
LEMMA WriteTyped ==
    ASSUME CoreTypes, NEW v \in Gens, writeCache(v)
    PROVE  disk' \in [gen : Gens, fresh : BOOLEAN]
<1>1. [gen |-> v, fresh |-> TRUE] \in [gen : Gens, fresh : BOOLEAN]
  OBVIOUS
<1> QED
  BY <1>1 DEF CoreTypes, writeCache

\* The steps of the handlers and of the readiness gate touch nothing of Run.
LEMMA HandlersApart ==
    ASSUME \/ WaitReady
           \/ \E h \in Handlers :
                 \/ LoadPool(h) \/ LoadGen(h) \/ Lookup(h) \/ Insert(h) \/ Close(h)
                 \/ \E c \in CAs : Handshake(h, c)
    PROVE  UNCHANGED <<core, disk, pc>>
<1>1. CASE WaitReady
  BY <1>1 DEF WaitReady
<1>2. ASSUME NEW h \in Handlers,
             \/ LoadPool(h) \/ LoadGen(h) \/ Lookup(h) \/ Insert(h) \/ Close(h)
             \/ \E c \in CAs : Handshake(h, c)
      PROVE  UNCHANGED <<core, disk, pc>>
  BY <1>2 DEF LoadPool, LoadGen, Lookup, Insert, Memoize, Close, Handshake, core
<1> QED
  BY <1>1, <1>2

-----------------------------------------------------------------------------
\* The invariant holds when the process starts for the first time.
LEMMA MapInvInit == Init => MapInv
  BY GensNat DEF Init, MapInv, CoreTypes, AboveFloor, Accepted, Remembered

\* Every step of Run keeps the invariant.
LEMMA MapInvStep == MapInv /\ [Next]_vars => MapInv'
<1> SUFFICES ASSUME MapInv, [Next]_vars PROVE MapInv'
  OBVIOUS
<1> USE GensNat DEF MapInv, CoreTypes, AboveFloor, Accepted, Remembered
<1>1. CASE LoseCache
  <2>1. disk' \in [gen : Gens, fresh : BOOLEAN]
    <3>1. [disk EXCEPT !.fresh = FALSE] \in [gen : Gens, fresh : BOOLEAN]
      BY Zenon
    <3>2. [gen |-> 0, fresh |-> FALSE] \in [gen : Gens, fresh : BOOLEAN]
      OBVIOUS
    <3> QED
      BY <1>1, <3>1, <3>2 DEF LoseCache
  <2>2. UNCHANGED <<pool, gen, floor, lastGood, pc>>
    BY <1>1 DEF LoseCache, core
  <2> QED
    BY <2>1, <2>2
<1>2. CASE FetchFails
  BY <1>2 DEF FetchFails, core
<1>3. ASSUME NEW g \in 1 .. N, Rejected(g) PROVE MapInv'
  BY <1>3 DEF Rejected, core
<1>4. ASSUME NEW g \in 1 .. N, StorePool(g) PROVE MapInv'
  <2>1. g \in Gens
    BY BundlesAssumption DEF Gens
  <2> QED
    BY <1>4, <2>1 DEF StorePool, Acceptable
<1>5. CASE StoreGen
  BY <1>5 DEF StoreGen
<1>6. CASE Remember
  <2>1. disk' \in [gen : Gens, fresh : BOOLEAN]
    BY <1>6, WriteTyped DEF Remember
  <2> QED
    BY <1>6, <2>1 DEF Remember
<1>7. ASSUME NEW g \in 1 .. N, Contact(g) PROVE MapInv'
  <2>1. disk' \in [gen : Gens, fresh : BOOLEAN]
    BY <1>7, WriteTyped DEF Contact
  <2> QED
    BY <1>7, <2>1 DEF Contact, core
<1>8. CASE NotModified
  <2>1. disk' \in [gen : Gens, fresh : BOOLEAN]
    BY <1>8, WriteTyped DEF NotModified
  <2> QED
    BY <1>8, <2>1 DEF NotModified, core
<1>9. CASE Restart
  BY <1>9, CacheGen DEF Restart
<1>10. CASE UNCHANGED <<core, disk, pc>>
  BY <1>10 DEF core
<1>11. CASE UNCHANGED vars
  BY <1>11 DEF vars
<1> QED
  BY <1>1, <1>2, <1>3, <1>4, <1>5, <1>6, <1>7, <1>8, <1>9, <1>10, <1>11,
     HandlersApart DEF Next

-----------------------------------------------------------------------------
\* Every step of the manager is a step of the abstract specification, or
\* changes nothing that the abstract specification sees.
LEMMA StepSimulation ==
    MapInv /\ [Next]_vars => [Anchors!Next]_(Anchors!vars)
<1> SUFFICES ASSUME MapInv, [Next]_vars
             PROVE  [Anchors!Next]_(Anchors!vars)
  OBVIOUS
<1> DEFINE Same == UNCHANGED <<gen, readCache, floor>>
<1> USE GensNat DEF MapInv, CoreTypes, AboveFloor, Accepted, Remembered
<1>a. Same => [Anchors!Next]_(Anchors!vars)
  BY DEF Anchors!vars
<1>1. CASE LoseCache
  <2>1. readCache' = 0 /\ UNCHANGED <<gen, floor>>
    BY <1>1 DEF LoseCache, readCache, core
  <2> QED
    BY <2>1 DEF Anchors!Next, Anchors!Forget
<1>2. CASE FetchFails \/ \E g \in 1 .. N : Rejected(g) \/ StorePool(g)
  BY <1>2, <1>a DEF FetchFails, Rejected, StorePool, core, readCache
<1>3. CASE StoreGen
  <2>1. gen' > gen /\ gen' >= floor /\ UNCHANGED <<readCache, floor>>
    BY <1>3 DEF StoreGen, readCache
  <2> QED
    BY <2>1 DEF Anchors!Next, Anchors!Advance
<1>4. ASSUME NEW v \in {gen, floor} \ {0}, v >= floor, writeCache(v),
             UNCHANGED <<gen, floor>>
      PROVE  [Anchors!Next]_(Anchors!vars)
  <2>1. readCache' = v \/ readCache' = readCache
    BY <1>4 DEF writeCache, readCache
  <2>2. CASE readCache' = v
    BY <1>4, <2>2 DEF Anchors!Next, Anchors!Persist
  <2> QED
    BY <1>4, <1>a, <2>1, <2>2
<1>5. CASE Remember
  BY <1>4, <1>5 DEF Remember
<1>6. CASE NotModified \/ \E g \in 1 .. N : Contact(g)
  <2>1. lastGood \in {gen, floor} \ {0} /\ lastGood >= floor
    BY <1>6 DEF NotModified, Contact, Unchanged
  <2> QED
    BY <1>4, <1>6, <2>1 DEF NotModified, Contact, core
<1>7. CASE Restart
  <2>1. gen' = 0 /\ floor' = readCache /\ readCache' = readCache
    BY <1>7 DEF Restart, readCache
  <2> QED
    BY <2>1 DEF Anchors!Next, Anchors!Restart
<1>8. CASE UNCHANGED <<core, disk, pc>> \/ UNCHANGED vars
  BY <1>8, <1>a DEF core, vars, readCache
<1> QED
  BY <1>1, <1>2, <1>3, <1>5, <1>6, <1>7, <1>8, HandlersApart DEF Next

\* The trust manager implements its promise (trust.go, apply and
\* EnableWarmStart): whatever replicas answer, whenever the core crashes and
\* whatever happens to the cache file, the generation in force only moves
\* forward within a process, a process never goes below the record it was
\* started with, and the record never goes back while it exists.
THEOREM Implements == Spec => ImplementsAnchors
<1>1. Init => Anchors!Init
  BY DEF Init, Anchors!Init, readCache
<1> QED
  BY <1>1, MapInvInit, MapInvStep, StepSimulation, PTL
  DEF Spec, ImplementsAnchors, Anchors!Spec

-----------------------------------------------------------------------------
(* The verdicts of VerifyClientCert.                                       *)

\* A connection and a call of VerifyClientCert.
Requests ==
    [pc : {"closed", "bare", "open", "gen", "lookup", "insert", "done"}, leaf : CAs,
     pool : Gens, gen : Gens, seen : SUBSET Gens, ok : BOOLEAN]

Types ==
    /\ req \in [Handlers -> Requests]
    /\ verify \in [gen : Gens, leaves : SUBSET CAs]
    /\ IsFiniteSet(verify.leaves) /\ Cardinality(verify.leaves) <= VerifyCap
    /\ ready \in {"no", "loaded", "timeout"} /\ torn \in BOOLEAN
    /\ restarts \in 0 .. MaxRestarts /\ losses \in 0 .. MaxLosses

\* Outside of apply, the pool and the generation are of one bundle.
Paired == pc # "gen" => pool = gen

\* A call has loaded a pool, and what has been in force since is in its seen.
CallOK(q) ==
    /\ q.pc \notin {"closed", "bare"} => pool # 0
    /\ q.pc \in {"gen", "lookup", "insert"} =>
          /\ q.pool # 0 /\ {q.pool, pool, gen} \subseteq q.seen
          /\ q.pool <= gen \/ q.pool = pool

\* One of the CA sets of the generations in G has signed c.
Vouched(c, G) == \E g \in G : g # 0 /\ c \in Bundles[g]

\* The memo of the generation in force was filled from the pools that are
\* stored with it.
MemoOK ==
    /\ verify.gen <= gen
    /\ verify.gen = gen => \A c \in verify.leaves : Vouched(c, {gen, pool})

\* The call q has loaded both, and no whole apply came in between.
Loaded(q) == q.pc \in {"lookup", "insert"}
LoadedOK(q) ==
    Loaded(q) =>
        /\ q.gen <= gen
        /\ q.gen = gen => q.pool \in {gen, pool}
        /\ q.pc = "insert" => q.leaf \in Bundles[q.pool]

\* What it can find in the memo, now or later, was in force during the call.
FindsOK(q) ==
    Loaded(q) =>
        /\ verify.gen = q.gen => \A c \in verify.leaves : Vouched(c, q.seen)
        /\ \A i \in Handlers : Loaded(req[i]) /\ req[i].gen = q.gen => req[i].pool \in q.seen

CallsOK == \A h \in Handlers : CallOK(req[h])
WholeOK == MemoOK /\ (\A h \in Handlers : LoadedOK(req[h]) /\ FindsOK(req[h])) /\ VerdictInForce

VerdictInv == MapInv /\ Types /\ Paired /\ CallsOK /\ (torn \/ WholeOK)

-----------------------------------------------------------------------------
\* A connection that is closed is one that was never opened.
LEMMA ClosedTyped ==
    /\ Closed \in Requests
    /\ Closed.pc = "closed" /\ Closed.pool = 0 /\ Closed.gen = 0 /\ Closed.seen = {}
<1>1. (CHOOSE c \in CAs : TRUE) \in CAs
  BY BundlesAssumption
<1>2. FALSE \in BOOLEAN /\ {} \in SUBSET Gens
  OBVIOUS
<1> QED
  BY <1>1, <1>2, GensNat DEF Closed, Requests

\* What the steps of a handler make of its call.
Opened(c, next) == [Closed EXCEPT !.leaf = c, !.pc = next]
Begun(q) == [Closed EXCEPT !.leaf = q.leaf, !.pool = pool, !.seen = {pool, gen}, !.pc = "gen"]
Generation(q) == [q EXCEPT !.gen = gen, !.pc = "lookup"]
Chained(q) == [q EXCEPT !.pc = "insert", !.ok = TRUE]
Extended(q, g) == [q EXCEPT !.seen = @ \cup {g}]

\* They are calls, and keep what they do not replace.
LEMMA StepsTyped ==
    ASSUME CoreTypes, NEW q \in Requests, NEW c \in CAs, NEW ok \in BOOLEAN
    PROVE  /\ Opened(c, "bare") \in Requests /\ Opened(c, "bare").pc = "bare"
           /\ Opened(c, "open") \in Requests /\ Opened(c, "open").pc = "open"
           /\ Begun(q) \in Requests /\ Begun(q).pc = "gen" /\ Begun(q).leaf = q.leaf
           /\ Begun(q).pool = pool /\ Begun(q).seen = {pool, gen}
           /\ Generation(q) \in Requests /\ Generation(q).pc = "lookup"
           /\ Generation(q).gen = gen /\ Generation(q).pool = q.pool
           /\ Generation(q).seen = q.seen
           /\ Chained(q) \in Requests /\ Chained(q).pc = "insert" /\ Chained(q).gen = q.gen
           /\ Chained(q).pool = q.pool /\ Chained(q).seen = q.seen /\ Chained(q).leaf = q.leaf
           /\ Returned(q, ok) \in Requests /\ Returned(q, ok).pc = "done"
           /\ Returned(q, ok).seen = q.seen /\ Returned(q, ok).leaf = q.leaf
           /\ Returned(q, ok).ok = ok
<1> USE ClosedTyped, GensNat DEF CoreTypes
<1>1. /\ Opened(c, "bare") \in Requests /\ Opened(c, "bare").pc = "bare"
      /\ Opened(c, "open") \in Requests /\ Opened(c, "open").pc = "open"
  BY Zenon DEF Opened, Requests
<1>2. /\ Begun(q) \in Requests /\ Begun(q).pc = "gen" /\ Begun(q).leaf = q.leaf
      /\ Begun(q).pool = pool /\ Begun(q).seen = {pool, gen}
  <2>1. {pool, gen} \in SUBSET Gens
    OBVIOUS
  <2> QED
    BY <2>1, Zenon DEF Begun, Requests
<1>3. /\ Generation(q) \in Requests /\ Generation(q).pc = "lookup"
      /\ Generation(q).gen = gen /\ Generation(q).pool = q.pool
      /\ Generation(q).seen = q.seen
  BY Zenon DEF Generation, Requests
<1>4. /\ Chained(q) \in Requests /\ Chained(q).pc = "insert" /\ Chained(q).gen = q.gen
      /\ Chained(q).pool = q.pool /\ Chained(q).seen = q.seen /\ Chained(q).leaf = q.leaf
  <2>1. TRUE \in BOOLEAN
    OBVIOUS
  <2> QED
    BY <2>1, Zenon DEF Chained, Requests
<1>5. /\ Returned(q, ok) \in Requests /\ Returned(q, ok).pc = "done"
      /\ Returned(q, ok).seen = q.seen /\ Returned(q, ok).leaf = q.leaf
      /\ Returned(q, ok).ok = ok
  BY Zenon DEF Returned, Requests
<1> QED
  BY <1>1, <1>2, <1>3, <1>4, <1>5

\* What a newer pool adds to a call under way.
LEMMA ExtendedTyped ==
    ASSUME NEW q \in Requests, NEW g \in Gens
    PROVE  /\ Extended(q, g) \in Requests /\ Extended(q, g).seen = q.seen \cup {g}
           /\ Extended(q, g).pc = q.pc /\ Extended(q, g).leaf = q.leaf /\ Extended(q, g).ok = q.ok
           /\ Extended(q, g).pool = q.pool /\ Extended(q, g).gen = q.gen
<1>1. q.seen \cup {g} \in SUBSET Gens
  BY DEF Requests
<1> QED
  BY <1>1, Zenon DEF Extended, Requests

\* The steps of a handler replace its own call.
LEMMA HandlerStep ==
    ASSUME MapInv, Types, NEW h \in Handlers
    PROVE  /\ \A c \in CAs : Handshake(h, c) => /\ req[h].pc = "closed"
                 /\ \/ pool = 0 /\ req' = [req EXCEPT ![h] = Opened(c, "bare")]
                    \/ pool # 0 /\ req' = [req EXCEPT ![h] = Opened(c, "open")]
           /\ Close(h) => req' = [req EXCEPT ![h] = Closed]
           /\ LoadPool(h) => req' = [req EXCEPT ![h] = Begun(req[h])]
           /\ LoadGen(h) => req' = [req EXCEPT ![h] = Generation(req[h])]
           /\ Lookup(h) =>
                 \/ /\ req[h].leaf \in Bundles[req[h].pool]
                    /\ req' = [req EXCEPT ![h] = Chained(req[h])]
                 \/ /\ ~Memoized(h) /\ req[h].leaf \notin Bundles[req[h].pool]
                    /\ req' = [req EXCEPT ![h] = Returned(req[h], FALSE)]
                 \/ Memoized(h) /\ req' = [req EXCEPT ![h] = Returned(req[h], TRUE)]
           /\ Insert(h) => req' = [req EXCEPT ![h] = Returned(req[h], TRUE)]
<1>1. ASSUME NEW c \in CAs, Handshake(h, c)
      PROVE  /\ req[h].pc = "closed"
             /\ \/ pool = 0 /\ req' = [req EXCEPT ![h] = Opened(c, "bare")]
                \/ pool # 0 /\ req' = [req EXCEPT ![h] = Opened(c, "open")]
  BY <1>1 DEF Handshake, Opened
<1>2. Close(h) => req' = [req EXCEPT ![h] = Closed]
  BY DEF Close
<1>3. LoadPool(h) => req' = [req EXCEPT ![h] = Begun(req[h])]
  BY DEF LoadPool, Begun
<1>4. LoadGen(h) => req' = [req EXCEPT ![h] = Generation(req[h])]
  BY DEF LoadGen, Generation, Types
<1>5. ASSUME Lookup(h)
      PROVE  \/ /\ req[h].leaf \in Bundles[req[h].pool]
                /\ req' = [req EXCEPT ![h] = Chained(req[h])]
             \/ /\ ~Memoized(h) /\ req[h].leaf \notin Bundles[req[h].pool]
                /\ req' = [req EXCEPT ![h] = Returned(req[h], FALSE)]
             \/ Memoized(h) /\ req' = [req EXCEPT ![h] = Returned(req[h], TRUE)]
  <2>1. CASE Memoized(h)
    BY <1>5, <2>1 DEF Lookup, Types
  <2>2. CASE ~Memoized(h) /\ req[h].leaf \in Bundles[req[h].pool]
    BY <1>5, <2>2 DEF Lookup, Chained, Types
  <2>3. CASE ~Memoized(h) /\ req[h].leaf \notin Bundles[req[h].pool]
    <3>1. Memoized(h) = FALSE
      BY <2>3 DEF Memoized
    <3> QED
      BY <1>5, <2>3, <3>1 DEF Lookup, Types
  <2> QED
    BY <2>1, <2>2, <2>3
<1>6. Insert(h) => req' = [req EXCEPT ![h] = Returned(req[h], TRUE)]
  BY DEF Insert, Memoize, Types
<1> QED
  BY <1>1, <1>2, <1>3, <1>4, <1>5, <1>6

\* A set with another element is larger by one at most.
LEMMA AtMostOneMore ==
    ASSUME NEW S, IsFiniteSet(S), NEW x
    PROVE  IsFiniteSet(S \cup {x}) /\ Cardinality(S \cup {x}) <= Cardinality(S) + 1
<1>1. Cardinality(S) \in Nat
  BY FS_CardinalityType
<1>2. CASE x \in S
  <2>1. S \cup {x} = S
    BY <1>2
  <2>2. IsFiniteSet(S \cup {x}) /\ Cardinality(S \cup {x}) = Cardinality(S)
    BY <2>1, Zenon
  <2> QED
    BY <1>1, <2>2
<1>3. CASE x \notin S
  BY <1>1, <1>3, FS_AddElement
<1> QED
  BY <1>2, <1>3

\* Every step keeps the calls, the memo and the bounds in their types.
LEMMA TypesStep == MapInv /\ Types /\ [Next]_vars => Types'
<1> SUFFICES ASSUME MapInv, Types, [Next]_vars PROVE Types'
  OBVIOUS
<1> DEFINE Rest == /\ ready' \in {"no", "loaded", "timeout"} /\ torn' \in BOOLEAN
                   /\ restarts' \in 0 .. MaxRestarts /\ losses' \in 0 .. MaxLosses
           Memo == /\ verify' \in [gen : Gens, leaves : SUBSET CAs]
                   /\ IsFiniteSet(verify'.leaves) /\ Cardinality(verify'.leaves) <= VerifyCap
<1>a. Memo /\ Rest /\ req' \in [Handlers -> Requests] => Types'
  BY DEF Types
<1>b. UNCHANGED verify => Memo
  BY DEF Types
<1>c. UNCHANGED bounds => Rest
  BY DEF Types, bounds
<1>d. CoreTypes
  BY DEF MapInv
<1>e. ASSUME NEW h \in Handlers, NEW q \in Requests, req' = [req EXCEPT ![h] = q]
      PROVE  req' \in [Handlers -> Requests]
  BY <1>e DEF Types
<1>f. \A h \in Handlers : req[h] \in Requests
  BY DEF Types
<1>g. ASSUME NEW h \in Handlers
      PROVE  /\ Begun(req[h]) \in Requests /\ Generation(req[h]) \in Requests
             /\ Chained(req[h]) \in Requests
             /\ Returned(req[h], TRUE) \in Requests /\ Returned(req[h], FALSE) \in Requests
             /\ \A c \in CAs : Opened(c, "bare") \in Requests /\ Opened(c, "open") \in Requests
             /\ \A g \in Gens : Extended(req[h], g) \in Requests
  <2>1. req[h] \in Requests /\ req[h].leaf \in CAs /\ 0 \in Gens
    BY <1>f, GensNat DEF Requests
  <2>2. TRUE \in BOOLEAN /\ FALSE \in BOOLEAN
    OBVIOUS
  <2> QED
    BY <1>d, <2>1, <2>2, StepsTyped, ExtendedTyped, Zenon
<1> HIDE DEF Rest, Memo
<1>1. CASE LoseCache
  <2>1. UNCHANGED <<verify, req>> /\ Rest
    BY <1>1, BoundsAssumption DEF LoseCache, Rest, Types
  <2> QED
    BY <1>a, <1>b, <2>1 DEF Types
<1>2. CASE FetchFails \/ StoreGen \/ Remember \/ NotModified
           \/ \E g \in 1 .. N : Rejected(g) \/ Contact(g)
  <2>1. UNCHANGED <<verify, req, bounds>>
    BY <1>2 DEF FetchFails, StoreGen, Remember, NotModified, Rejected, Contact
  <2> QED
    BY <1>a, <1>b, <1>c, <2>1 DEF Types
<1>3. ASSUME NEW g \in 1 .. N, StorePool(g) PROVE Types'
  <2>1. g \in Gens
    BY BundlesAssumption DEF Gens
  <2>2. \A h \in Handlers : Extended(req[h], g) \in Requests
    BY <1>g, <2>1
  <2>3. req' = [h \in Handlers |-> IF Calling(h) THEN Extended(req[h], g) ELSE req[h]]
    BY <1>3 DEF StorePool, Extended
  <2>4. req' \in [Handlers -> Requests]
    BY <1>f, <2>2, <2>3
  <2>5. UNCHANGED <<verify, bounds>>
    BY <1>3 DEF StorePool
  <2> QED
    BY <1>a, <1>b, <1>c, <2>4, <2>5
<1>4. CASE Restart
  <2>1. req' \in [Handlers -> Requests]
    BY <1>4, ClosedTyped DEF Restart
  <2>2. Memo
    <3>1. NoMemo.gen = 0 /\ NoMemo.leaves = {} /\ NoMemo \in [gen : Gens, leaves : SUBSET CAs]
      BY GensNat DEF NoMemo
    <3> QED
      BY <1>4, <3>1, FS_EmptySet, BoundsAssumption DEF Restart, Memo
  <2>3. Rest
    <3>1. torn' \in BOOLEAN /\ ready' = "no"
      BY <1>4 DEF Restart
    <3>2. restarts' \in 0 .. MaxRestarts /\ losses' \in 0 .. MaxLosses
      BY <1>4, BoundsAssumption DEF Restart, Types
    <3> QED
      BY <3>1, <3>2 DEF Rest
  <2> QED
    BY <1>a, <2>1, <2>2, <2>3
<1>5. CASE WaitReady
  <2>1. UNCHANGED <<verify, req>> /\ Rest
    BY <1>5 DEF WaitReady, Rest, Types
  <2> QED
    BY <1>a, <1>b, <2>1 DEF Types
<1>6. ASSUME NEW h \in Handlers,
             LoadPool(h) \/ Lookup(h) \/ Close(h) \/ \E c \in CAs : Handshake(h, c)
      PROVE  Types'
  <2>1. \E q \in Requests : req' = [req EXCEPT ![h] = q]
    BY <1>6, <1>g, HandlerStep, ClosedTyped
  <2>2. UNCHANGED <<verify, bounds>>
    BY <1>6 DEF LoadPool, Lookup, Close, Handshake
  <2> QED
    BY <1>a, <1>b, <1>c, <1>e, <2>1, <2>2
<1>7. ASSUME NEW h \in Handlers, LoadGen(h) PROVE Types'
  <2>2. req' \in [Handlers -> Requests]
    BY <1>7, <1>e, <1>g, HandlerStep
  <2>3. Rest
    BY <1>7 DEF LoadGen, Types, Rest
  <2> QED
    BY <1>7, <1>a, <1>b, <2>2, <2>3 DEF LoadGen
<1>8. ASSUME NEW h \in Handlers, Insert(h) PROVE Types'
  <2>1. req' \in [Handlers -> Requests]
    BY <1>8, <1>e, <1>g, HandlerStep
  <2>2. req[h].leaf \in CAs /\ req[h].gen \in Gens
    BY <1>f DEF Requests
  <2> DEFINE kept == IF verify.gen = req[h].gen THEN verify.leaves ELSE {}
  <2>3. PICK drop \in SUBSET kept :
           /\ Cardinality(drop) = IF Cardinality(kept) >= VerifyCap THEN 1 ELSE 0
           /\ verify' = [gen |-> req[h].gen, leaves |-> (kept \ drop) \cup {req[h].leaf}]
    BY <1>8 DEF Insert, Memoize
  <2>4. kept \subseteq CAs /\ IsFiniteSet(kept) /\ Cardinality(kept) <= VerifyCap
        /\ Cardinality(kept) \in Nat
    <3>1. Cardinality({}) = 0 /\ IsFiniteSet({})
      BY FS_EmptySet
    <3> QED
      BY <3>1, BoundsAssumption, FS_CardinalityType DEF Types
  <2> HIDE DEF kept
  <2> DEFINE now == (kept \ drop) \cup {req[h].leaf}
  <2>5. /\ IsFiniteSet(kept \ drop)
        /\ Cardinality(kept \ drop) = Cardinality(kept) - Cardinality(drop)
        /\ Cardinality(kept \ drop) \in Nat
    <3>1. kept \cap drop = drop
      BY <2>3
    <3> QED
      BY <2>4, <3>1, FS_Difference, FS_CardinalityType
  <2>6. IsFiniteSet(now) /\ Cardinality(now) <= Cardinality(kept \ drop) + 1
    BY <2>5, AtMostOneMore
  <2>7. Cardinality(now) <= VerifyCap
    <3>1. Cardinality(now) \in Nat
      BY <2>6, FS_CardinalityType
    <3> QED
      BY <2>3, <2>4, <2>5, <2>6, <3>1, BoundsAssumption
  <2>8. now \in SUBSET CAs /\ verify' = [gen |-> req[h].gen, leaves |-> now]
    BY <2>2, <2>3, <2>4
  <2> HIDE DEF now
  <2>9. Memo
    BY <2>2, <2>6, <2>7, <2>8 DEF Memo
  <2>10. UNCHANGED bounds
    BY <1>8 DEF Insert, Memoize
  <2> QED
    BY <1>a, <1>c, <2>1, <2>9, <2>10
<1>9. CASE UNCHANGED vars
  BY <1>9 DEF vars, Types
<1> QED
  BY <1>1, <1>2, <1>3, <1>4, <1>5, <1>6, <1>7, <1>8, <1>9 DEF Next

-----------------------------------------------------------------------------
\* The verdict of a call that has ended, see VerdictInForce.
VerdictOK(q) ==
    q.pc = "done" => \E g \in q.seen : q.ok = (g # 0 /\ q.leaf \in Bundles[g])

\* Handler h replaces its call by q, and perhaps the memo.  What is left to
\* show is what this means for q and for what the others find.
LEMMA Replaced ==
    ASSUME VerdictInv, NEW h \in Handlers, NEW q \in Requests,
           req' = [req EXCEPT ![h] = q], UNCHANGED <<pool, gen>>, torn => torn', CallOK(q),
           ~torn' => /\ MemoOK' /\ LoadedOK(q) /\ VerdictOK(q)
                     /\ \A i \in Handlers \ {h} : Loaded(req[i]) =>
                           /\ verify'.gen = req[i].gen => \A c \in verify'.leaves : Vouched(c, req[i].seen)
                           /\ Loaded(q) /\ req[i].gen = q.gen => q.pool \in req[i].seen
                                                                /\ req[i].pool \in q.seen
                     /\ Loaded(q) /\ verify'.gen = q.gen => \A c \in verify'.leaves : Vouched(c, q.seen)
    PROVE  CallsOK' /\ (torn' \/ WholeOK')
<1>1. req'[h] = q /\ \A i \in Handlers \ {h} : req'[i] = req[i]
  BY DEF VerdictInv, Types
<1>2. CallsOK'
  BY <1>1 DEF VerdictInv, CallsOK, CallOK
<1>3. ASSUME ~torn' PROVE WholeOK'
  <2>1. WholeOK
    BY <1>3 DEF VerdictInv
  <2>2. \A i \in Handlers : LoadedOK(req[i])'
    BY <1>1, <1>3, <2>1 DEF WholeOK, LoadedOK, Loaded
  <2>3. ASSUME NEW i \in Handlers \ {h} PROVE FindsOK(req[i])'
    <3>1. ASSUME Loaded(req[i]), NEW j \in Handlers, Loaded(req'[j]), req'[j].gen = req[i].gen
          PROVE  req'[j].pool \in req[i].seen
      <4>1. CASE j = h
        BY <1>1, <1>3, <3>1, <4>1
      <4>2. CASE j # h
        BY <1>1, <2>1, <3>1, <4>2 DEF WholeOK, FindsOK
      <4> QED
        BY <4>1, <4>2
    <3> QED
      BY <1>1, <1>3, <3>1 DEF FindsOK, Loaded, Vouched
  <2>4. FindsOK(req[h])'
    <3>1. ASSUME Loaded(q), NEW j \in Handlers, Loaded(req'[j]), req'[j].gen = q.gen
          PROVE  req'[j].pool \in q.seen
      <4>1. CASE j = h
        BY <1>1, <3>1, <4>1 DEF CallOK, Loaded
      <4>2. CASE j # h
        BY <1>1, <1>3, <3>1, <4>2
      <4> QED
        BY <4>1, <4>2
    <3> QED
      BY <1>1, <1>3, <3>1 DEF FindsOK, Loaded, Vouched
  <2>5. VerdictOK(q) /\ \A i \in Handlers : VerdictOK(req[i])
    BY <1>3, <2>1 DEF WholeOK, VerdictInForce, VerdictOK
  <2>6. \A i \in Handlers : VerdictOK(req'[i])
    BY <1>1, <2>5
  <2>7. VerdictInForce'
    BY <2>6 DEF VerdictInForce, VerdictOK
  <2> QED
    BY <1>3, <2>2, <2>3, <2>4, <2>7 DEF WholeOK
<1> QED
  BY <1>2, <1>3

\* The memo stays right for the others when one call is replaced and the memo
\* is not touched.
LEMMA ReplacedOnly ==
    ASSUME VerdictInv, NEW h \in Handlers, NEW q \in Requests,
           req' = [req EXCEPT ![h] = q], UNCHANGED <<pool, gen, verify>>, torn => torn', CallOK(q),
           ~torn' => /\ LoadedOK(q) /\ VerdictOK(q)
                     /\ Loaded(q) /\ verify.gen = q.gen => \A c \in verify.leaves : Vouched(c, q.seen)
                     /\ \A i \in Handlers \ {h} : Loaded(req[i]) /\ Loaded(q) /\ req[i].gen = q.gen
                           => q.pool \in req[i].seen /\ req[i].pool \in q.seen
    PROVE  CallsOK' /\ (torn' \/ WholeOK')
<1>1. ASSUME ~torn' PROVE MemoOK' /\ \A i \in Handlers : FindsOK(req[i])
  BY <1>1 DEF VerdictInv, WholeOK, MemoOK, Vouched
<1>2. ASSUME ~torn', NEW i \in Handlers, Loaded(req[i]), verify'.gen = req[i].gen
      PROVE  \A c \in verify'.leaves : Vouched(c, req[i].seen)
  BY <1>1, <1>2 DEF FindsOK
<1> QED
  BY <1>1, <1>2, Replaced

\* The handshake and the end of a connection.
LEMMA IdleStep ==
    ASSUME VerdictInv, NEW h \in Handlers, Close(h) \/ \E c \in CAs : Handshake(h, c)
    PROVE  CallsOK' /\ (torn' \/ WholeOK')
<1>1. MapInv /\ Types /\ CoreTypes /\ req[h] \in Requests /\ 0 \in Gens
  BY GensNat DEF VerdictInv, MapInv, Types
<1>2. UNCHANGED <<pool, gen, verify, torn>>
  BY DEF Close, Handshake, core, bounds
<1>3. \E q \in Requests : /\ req' = [req EXCEPT ![h] = q] /\ q.pc \in {"closed", "bare", "open"}
                          /\ q.pc = "open" => pool # 0
  <2>1. CASE Close(h)
    BY <1>1, <2>1, HandlerStep, ClosedTyped
  <2>2. ASSUME NEW c \in CAs, Handshake(h, c)
        PROVE  \E q \in Requests : /\ req' = [req EXCEPT ![h] = q] /\ q.pc \in {"closed", "bare", "open"}
                                   /\ q.pc = "open" => pool # 0
    <3>1. /\ Opened(c, "bare") \in Requests /\ Opened(c, "bare").pc = "bare"
          /\ Opened(c, "open") \in Requests /\ Opened(c, "open").pc = "open"
      BY <1>1, StepsTyped
    <3> QED
      BY <1>1, <2>2, <3>1, HandlerStep
  <2> QED
    BY <2>1, <2>2
<1>4. PICK q \in Requests : /\ req' = [req EXCEPT ![h] = q] /\ q.pc \in {"closed", "bare", "open"}
                            /\ q.pc = "open" => pool # 0
  BY <1>3
<1>5. CallOK(q) /\ ~Loaded(q) /\ LoadedOK(q) /\ VerdictOK(q)
  BY <1>4 DEF CallOK, Loaded, LoadedOK, VerdictOK
<1> QED
  BY <1>2, <1>4, <1>5, ReplacedOnly

\* A call begins.
LEMMA LoadPoolStep ==
    ASSUME VerdictInv, NEW h \in Handlers, LoadPool(h)
    PROVE  CallsOK' /\ (torn' \/ WholeOK')
<1>1. MapInv /\ Types /\ CoreTypes /\ req[h] \in Requests /\ req[h].leaf \in CAs /\ 0 \in Gens
  BY GensNat DEF VerdictInv, MapInv, Types, Requests
<1>2. UNCHANGED <<pool, gen, verify, torn>>
  BY DEF LoadPool, core, bounds
<1> DEFINE q == Begun(req[h])
<1>3. /\ q \in Requests /\ q.pc = "gen" /\ q.pool = pool /\ q.seen = {pool, gen}
      /\ req' = [req EXCEPT ![h] = q]
  BY <1>1, StepsTyped, HandlerStep
<1> HIDE DEF q
<1>4. pool # 0
  BY DEF LoadPool, VerdictInv, CallsOK, CallOK
<1>5. CallOK(q) /\ ~Loaded(q) /\ LoadedOK(q) /\ VerdictOK(q)
  BY <1>3, <1>4 DEF CallOK, Loaded, LoadedOK, VerdictOK
<1> QED
  BY <1>2, <1>3, <1>5, ReplacedOnly

\* A call loads the generation: unless a whole apply came in between, its pool
\* is the one of that generation or the one that is about to replace it.
LEMMA LoadGenStep ==
    ASSUME VerdictInv, NEW h \in Handlers, LoadGen(h)
    PROVE  CallsOK' /\ (torn' \/ WholeOK')
<1>1. MapInv /\ Types /\ CoreTypes /\ req[h] \in Requests /\ req[h].leaf \in CAs /\ 0 \in Gens
  BY GensNat DEF VerdictInv, MapInv, Types, Requests
<1>2. UNCHANGED <<pool, gen, verify>> /\ torn' = (torn \/ req[h].pool < gen) /\ req[h].pc = "gen"
  BY DEF LoadGen, core
<1> DEFINE q == Generation(req[h])
<1>3. /\ q \in Requests /\ q.pc = "lookup" /\ q.gen = gen /\ q.pool = req[h].pool
      /\ q.seen = req[h].seen /\ req' = [req EXCEPT ![h] = q]
  BY <1>1, StepsTyped, HandlerStep
<1> HIDE DEF q
<1>4. CallOK(req[h]) /\ CallOK(q)
  BY <1>2, <1>3 DEF VerdictInv, CallsOK, CallOK
<1>5. VerdictOK(q)
  BY <1>3 DEF VerdictOK
<1>6. torn => torn'
  BY <1>2
<1>7. ASSUME ~torn'
      PROVE  /\ LoadedOK(q)
             /\ verify.gen = q.gen => \A c \in verify.leaves : Vouched(c, q.seen)
             /\ \A i \in Handlers \ {h} : Loaded(req[i]) /\ req[i].gen = q.gen
                   => q.pool \in req[i].seen /\ req[i].pool \in q.seen
  <2>1. WholeOK
    BY <1>6, <1>7 DEF VerdictInv
  <2>2. q.pool \in {gen, pool} /\ {gen, pool} \subseteq q.seen
    <3>1. ~(q.pool < gen) /\ q.pool \in Nat /\ gen \in Nat /\ (q.pool <= gen \/ q.pool = pool)
      BY <1>1, <1>2, <1>3, <1>4, <1>7, GensNat DEF CallOK, CoreTypes, Requests
    <3>2. {gen, pool} \subseteq q.seen
      BY <1>3, <1>4 DEF CallOK
    <3> QED
      BY <3>1, <3>2
  <2>3. LoadedOK(q)
    BY <1>1, <1>3, <2>2, GensNat DEF LoadedOK, Loaded, CoreTypes
  <2>4. ASSUME verify.gen = q.gen, NEW c \in verify.leaves PROVE Vouched(c, q.seen)
    BY <1>3, <2>1, <2>2, <2>4 DEF WholeOK, MemoOK, Vouched
  <2>5. ASSUME NEW i \in Handlers, Loaded(req[i]), req[i].gen = q.gen
        PROVE  q.pool \in req[i].seen /\ req[i].pool \in q.seen
    <3>1. req[i].pool \in {gen, pool}
      BY <1>3, <2>1, <2>5 DEF WholeOK, LoadedOK
    <3>2. {gen, pool} \subseteq req[i].seen
      BY <2>5 DEF VerdictInv, CallsOK, CallOK, Loaded
    <3> QED
      BY <2>2, <3>1, <3>2
  <2> QED
    BY <2>3, <2>4, <2>5
<1> QED
  BY <1>2, <1>3, <1>4, <1>5, <1>6, <1>7, ReplacedOnly

\* A call looks into the memo, and builds the chain if it finds nothing.
LEMMA LookupStep ==
    ASSUME VerdictInv, NEW h \in Handlers, Lookup(h)
    PROVE  CallsOK' /\ (torn' \/ WholeOK')
<1>1. MapInv /\ Types /\ CoreTypes /\ req[h] \in Requests /\ req[h].leaf \in CAs /\ 0 \in Gens
  BY GensNat DEF VerdictInv, MapInv, Types, Requests
<1>2. UNCHANGED <<pool, gen, verify, torn>> /\ req[h].pc = "lookup" /\ Loaded(req[h])
  BY DEF Lookup, core, bounds, Loaded
<1>3. CallOK(req[h])
  BY DEF VerdictInv, CallsOK
<1>4. ~torn => LoadedOK(req[h]) /\ FindsOK(req[h]) /\ \A i \in Handlers : FindsOK(req[i])
  BY DEF VerdictInv, WholeOK
<1>5. ASSUME req[h].leaf \in Bundles[req[h].pool], req' = [req EXCEPT ![h] = Chained(req[h])]
      PROVE  CallsOK' /\ (torn' \/ WholeOK')
  <2> DEFINE q == Chained(req[h])
  <2>1. /\ q \in Requests /\ q.pc = "insert" /\ q.gen = req[h].gen /\ q.pool = req[h].pool
        /\ q.seen = req[h].seen /\ q.leaf = req[h].leaf /\ req' = [req EXCEPT ![h] = q]
    BY <1>1, <1>5, StepsTyped
  <2> HIDE DEF q
  <2>2. CallOK(q) /\ VerdictOK(q)
    BY <1>2, <1>3, <2>1 DEF CallOK, VerdictOK
  <2>3. ~torn => LoadedOK(q)
    BY <1>2, <1>4, <1>5, <2>1 DEF LoadedOK, Loaded
  <2>4. ASSUME ~torn, NEW i \in Handlers, Loaded(req[i]), req[i].gen = q.gen
        PROVE  q.pool \in req[i].seen /\ req[i].pool \in q.seen
    BY <1>2, <1>4, <2>1, <2>4 DEF FindsOK
  <2>5. ASSUME ~torn, verify.gen = q.gen PROVE \A c \in verify.leaves : Vouched(c, q.seen)
    BY <1>2, <1>4, <2>1, <2>5 DEF FindsOK
  <2> QED
    BY <1>2, <2>1, <2>2, <2>3, <2>4, <2>5, ReplacedOnly
<1>6. ASSUME NEW ok \in BOOLEAN, req' = [req EXCEPT ![h] = Returned(req[h], ok)],
             ~torn => \E g \in req[h].seen : ok = (g # 0 /\ req[h].leaf \in Bundles[g])
      PROVE  CallsOK' /\ (torn' \/ WholeOK')
  <2> DEFINE q == Returned(req[h], ok)
  <2>1. /\ q \in Requests /\ q.pc = "done" /\ q.seen = req[h].seen /\ q.leaf = req[h].leaf
        /\ q.ok = ok /\ req' = [req EXCEPT ![h] = q]
    BY <1>1, <1>6, StepsTyped
  <2> HIDE DEF q
  <2>2. CallOK(q) /\ ~Loaded(q) /\ LoadedOK(q)
    BY <1>2, <1>3, <2>1 DEF CallOK, Loaded, LoadedOK
  <2>3. ~torn => VerdictOK(q)
    BY <1>6, <2>1 DEF VerdictOK
  <2> QED
    BY <1>2, <2>1, <2>2, <2>3, ReplacedOnly
<1>7. ASSUME req[h].leaf \notin Bundles[req[h].pool], req' = [req EXCEPT ![h] = Returned(req[h], FALSE)]
      PROVE  CallsOK' /\ (torn' \/ WholeOK')
  <2>1. req[h].pool \in req[h].seen
    BY <1>2, <1>3 DEF CallOK
  <2>2. FALSE = (req[h].pool # 0 /\ req[h].leaf \in Bundles[req[h].pool]) /\ FALSE \in BOOLEAN
    BY <1>7
  <2> QED
    BY <1>6, <1>7, <2>1, <2>2
<1>8. ASSUME Memoized(h), req' = [req EXCEPT ![h] = Returned(req[h], TRUE)]
      PROVE  CallsOK' /\ (torn' \/ WholeOK')
  <2>1. ~torn => Vouched(req[h].leaf, req[h].seen)
    BY <1>2, <1>4, <1>8 DEF FindsOK, Memoized
  <2>2. ~torn => \E g \in req[h].seen : TRUE = (g # 0 /\ req[h].leaf \in Bundles[g])
    BY <2>1 DEF Vouched
  <2>3. TRUE \in BOOLEAN
    OBVIOUS
  <2> QED
    BY <1>6, <1>8, <2>2, <2>3
<1> QED
  BY <1>1, <1>5, <1>7, <1>8, HandlerStep

\* A chain that was built is memoized under the generation of its call.
LEMMA InsertStep ==
    ASSUME VerdictInv, NEW h \in Handlers, Insert(h)
    PROVE  CallsOK' /\ (torn' \/ WholeOK')
<1>1. MapInv /\ Types /\ CoreTypes /\ req[h] \in Requests /\ req[h].leaf \in CAs /\ 0 \in Gens
  BY GensNat DEF VerdictInv, MapInv, Types, Requests
<1>2. UNCHANGED <<pool, gen, torn>> /\ req[h].pc = "insert" /\ Loaded(req[h])
  BY DEF Insert, Memoize, core, bounds, Loaded
<1>3. CallOK(req[h])
  BY DEF VerdictInv, CallsOK
<1> DEFINE q == Returned(req[h], TRUE)
<1>4. /\ q \in Requests /\ q.pc = "done" /\ q.seen = req[h].seen /\ q.leaf = req[h].leaf
      /\ q.ok = TRUE /\ req' = [req EXCEPT ![h] = q]
  <2>1. TRUE \in BOOLEAN
    OBVIOUS
  <2> QED
    BY <1>1, <2>1, StepsTyped, HandlerStep
<1> HIDE DEF q
<1>5. CallOK(q) /\ ~Loaded(q) /\ LoadedOK(q)
  BY <1>2, <1>3, <1>4 DEF CallOK, Loaded, LoadedOK
<1>6. /\ verify'.gen = req[h].gen
      /\ \A c \in verify'.leaves : c = req[h].leaf \/ (verify.gen = req[h].gen /\ c \in verify.leaves)
  <2> DEFINE kept == IF verify.gen = req[h].gen THEN verify.leaves ELSE {}
  <2>1. PICK drop \in SUBSET kept :
           verify' = [gen |-> req[h].gen, leaves |-> (kept \ drop) \cup {req[h].leaf}]
    BY DEF Insert, Memoize
  <2> QED
    BY <2>1
<1>7. ASSUME ~torn
      PROVE  /\ MemoOK' /\ VerdictOK(q)
             /\ \A i \in Handlers : Loaded(req[i]) /\ verify'.gen = req[i].gen
                   => \A c \in verify'.leaves : Vouched(c, req[i].seen)
  <2>1. WholeOK /\ LoadedOK(req[h])
    BY <1>7 DEF VerdictInv, WholeOK
  <2>2. /\ req[h].leaf \in Bundles[req[h].pool] /\ req[h].pool # 0 /\ req[h].pool \in req[h].seen
        /\ req[h].gen <= gen /\ (req[h].gen = gen => req[h].pool \in {gen, pool})
    BY <1>2, <1>3, <2>1 DEF LoadedOK, CallOK
  <2>3. VerdictOK(q)
    <3>1. TRUE = (req[h].pool # 0 /\ req[h].leaf \in Bundles[req[h].pool])
      BY <2>2
    <3> QED
      BY <1>4, <2>2, <3>1 DEF VerdictOK
  <2>4. ASSUME verify'.gen = gen, NEW c \in verify'.leaves PROVE Vouched(c, {gen, pool})
    <3>1. CASE c = req[h].leaf
      BY <1>6, <2>2, <2>4, <3>1 DEF Vouched
    <3>2. CASE verify.gen = req[h].gen /\ c \in verify.leaves
      BY <1>6, <2>1, <2>4, <3>2 DEF WholeOK, MemoOK
    <3> QED
      BY <1>6, <3>1, <3>2
  <2>5. MemoOK'
    BY <1>2, <1>6, <2>2, <2>4 DEF MemoOK, Vouched
  <2>6. ASSUME NEW i \in Handlers, Loaded(req[i]), verify'.gen = req[i].gen, NEW c \in verify'.leaves
        PROVE  Vouched(c, req[i].seen)
    <3>1. FindsOK(req[i]) /\ req[i].gen = req[h].gen
      BY <1>6, <2>1, <2>6 DEF WholeOK
    <3>2. req[h].pool \in req[i].seen
      BY <1>2, <2>6, <3>1 DEF FindsOK
    <3>3. CASE c = req[h].leaf
      BY <2>2, <3>2, <3>3 DEF Vouched
    <3>4. CASE verify.gen = req[h].gen /\ c \in verify.leaves
      BY <2>6, <3>1, <3>4 DEF FindsOK
    <3> QED
      BY <1>6, <3>3, <3>4
  <2> QED
    BY <2>3, <2>5, <2>6
<1> QED
  BY <1>2, <1>4, <1>5, <1>7, Replaced

\* A newer pool is stored: it is in force during every call under way.
LEMMA StorePoolStep ==
    ASSUME VerdictInv, NEW n \in 1 .. N, StorePool(n)
    PROVE  Paired' /\ CallsOK' /\ (torn' \/ WholeOK')
<1>1. MapInv /\ Types /\ CoreTypes /\ n \in Gens /\ n # 0
  BY BundlesAssumption DEF VerdictInv, MapInv, Gens
<1>2. UNCHANGED <<gen, verify, torn>> /\ pool' = n /\ pool = gen /\ pc' = "gen"
  BY DEF StorePool, VerdictInv, Paired, bounds
<1>3. ASSUME NEW h \in Handlers
      PROVE  /\ req'[h].pc = req[h].pc /\ req'[h].leaf = req[h].leaf /\ req'[h].ok = req[h].ok
             /\ req'[h].pool = req[h].pool /\ req'[h].gen = req[h].gen
             /\ req[h].seen \subseteq req'[h].seen
             /\ req[h].pc = "done" => req'[h] = req[h]
             /\ req[h].pc \in {"gen", "lookup", "insert"} => n \in req'[h].seen
  <2>1. req'[h] = IF Calling(h) THEN Extended(req[h], n) ELSE req[h]
    BY DEF StorePool, Extended
  <2>2. req[h] \in Requests
    BY <1>1 DEF Types
  <2>3. /\ Extended(req[h], n).seen = req[h].seen \cup {n}
        /\ Extended(req[h], n).pc = req[h].pc /\ Extended(req[h], n).leaf = req[h].leaf
        /\ Extended(req[h], n).ok = req[h].ok
        /\ Extended(req[h], n).pool = req[h].pool /\ Extended(req[h], n).gen = req[h].gen
    BY <1>1, <2>2, ExtendedTyped
  <2> QED
    BY <2>1, <2>3 DEF Calling
<1>4. ASSUME NEW h \in Handlers PROVE CallOK(req[h])'
  <2>1. CallOK(req[h])
    BY DEF VerdictInv, CallsOK
  <2>2. gen <= gen
    BY <1>1, GensNat DEF CoreTypes
  <2> QED
    BY <1>1, <1>2, <1>3, <2>1, <2>2 DEF CallOK
<1>5. ASSUME ~torn PROVE WholeOK'
  <2>1. WholeOK
    BY <1>5 DEF VerdictInv
  <2>2. MemoOK'
    BY <1>2, <2>1 DEF WholeOK, MemoOK, Vouched
  <2>3. ASSUME NEW h \in Handlers PROVE LoadedOK(req[h])'
    BY <1>2, <1>3, <2>1 DEF WholeOK, LoadedOK, Loaded
  <2>4. ASSUME NEW h \in Handlers PROVE FindsOK(req[h])'
    <3>1. FindsOK(req[h])
      BY <2>1 DEF WholeOK
    <3> QED
      BY <1>2, <1>3, <3>1 DEF FindsOK, Loaded, Vouched
  <2>5. \A h \in Handlers : VerdictOK(req[h])
    BY <2>1 DEF WholeOK, VerdictInForce, VerdictOK
  <2>6. \A h \in Handlers : VerdictOK(req'[h])
    <3>1. ASSUME NEW h \in Handlers, req[h].pc = "done" PROVE VerdictOK(req'[h])
      BY <1>3, <2>5, <3>1
    <3>2. ASSUME NEW h \in Handlers, req[h].pc # "done" PROVE VerdictOK(req'[h])
      BY <1>3, <3>2 DEF VerdictOK
    <3> QED
      BY <3>1, <3>2
  <2>7. VerdictInForce'
    BY <2>6 DEF VerdictInForce, VerdictOK
  <2> QED
    BY <2>2, <2>3, <2>4, <2>7 DEF WholeOK
<1> QED
  BY <1>2, <1>4, <1>5 DEF Paired, CallsOK

\* Its generation is stored: no call has loaded that generation before.
LEMMA StoreGenStep ==
    ASSUME VerdictInv, StoreGen
    PROVE  Paired' /\ CallsOK' /\ (torn' \/ WholeOK')
<1>1. MapInv /\ Types /\ CoreTypes /\ pool \in Nat /\ gen \in Nat
  BY GensNat DEF VerdictInv, MapInv, CoreTypes
<1>2. UNCHANGED <<pool, verify, req, torn>> /\ gen' = pool /\ pool > gen
  BY <1>1 DEF StoreGen, MapInv, Accepted, bounds
<1>3. \A h \in Handlers : req[h].pool \in Nat /\ req[h].gen \in Nat
  BY <1>1, GensNat DEF Types, Requests
<1>4. ASSUME NEW h \in Handlers PROVE CallOK(req[h])'
  <2>1. CallOK(req[h])
    BY DEF VerdictInv, CallsOK
  <2> QED
    BY <1>1, <1>2, <1>3, <2>1 DEF CallOK
<1>5. ASSUME ~torn PROVE WholeOK'
  <2>1. WholeOK
    BY <1>5 DEF VerdictInv
  <2>2. MemoOK'
    <3>1. verify.gen \in Nat /\ verify.gen <= gen
      BY <1>1, <2>1, GensNat DEF Types, WholeOK, MemoOK
    <3> QED
      BY <1>1, <1>2, <3>1 DEF MemoOK
  <2>3. ASSUME NEW h \in Handlers PROVE LoadedOK(req[h])'
    <3>1. LoadedOK(req[h])
      BY <2>1 DEF WholeOK
    <3> QED
      BY <1>1, <1>2, <1>3, <3>1 DEF LoadedOK, Loaded
  <2>4. ASSUME NEW h \in Handlers PROVE FindsOK(req[h])'
    BY <1>2, <2>1 DEF WholeOK, FindsOK, Loaded, Vouched
  <2>5. VerdictInForce'
    BY <1>2, <2>1 DEF WholeOK, VerdictInForce
  <2> QED
    BY <2>2, <2>3, <2>4, <2>5 DEF WholeOK
<1> QED
  BY <1>2, <1>4, <1>5 DEF Paired, CallsOK

\* The next process has no connections and an empty memo.
LEMMA RestartStep ==
    ASSUME VerdictInv, Restart
    PROVE  Paired' /\ CallsOK' /\ (torn' \/ WholeOK')
<1>1. /\ pool' = 0 /\ gen' = 0 /\ verify' = NoMemo /\ \A h \in Handlers : req'[h] = Closed
  BY DEF Restart
<1>2. /\ verify'.gen = 0 /\ verify'.leaves = {} /\ \A h \in Handlers : req'[h].pc = "closed"
  BY <1>1, ClosedTyped DEF NoMemo
<1>3. MemoOK'
  BY <1>1, <1>2 DEF MemoOK
<1>4. \A h \in Handlers : CallOK(req[h])' /\ LoadedOK(req[h])' /\ FindsOK(req[h])'
  BY <1>2 DEF CallOK, LoadedOK, FindsOK, Loaded
<1>5. VerdictInForce'
  BY <1>2 DEF VerdictInForce
<1> QED
  BY <1>1, <1>3, <1>4, <1>5 DEF Paired, CallsOK, WholeOK

\* The first process, too.
LEMMA VerdictInvInit == Init => VerdictInv
<1> SUFFICES ASSUME Init PROVE VerdictInv
  OBVIOUS
<1>1. /\ pool = 0 /\ gen = 0 /\ verify = NoMemo /\ \A h \in Handlers : req[h] = Closed
  BY DEF Init
<1>2. /\ verify.gen = 0 /\ verify.leaves = {} /\ \A h \in Handlers : req[h].pc = "closed"
  BY <1>1, ClosedTyped DEF NoMemo
<1>3. MemoOK
  BY <1>1, <1>2 DEF MemoOK
<1>4. \A h \in Handlers : CallOK(req[h]) /\ LoadedOK(req[h]) /\ FindsOK(req[h])
  BY <1>2 DEF CallOK, LoadedOK, FindsOK, Loaded
<1>5. VerdictInForce
  BY <1>2 DEF VerdictInForce
<1>6. req \in [Handlers -> Requests] /\ verify \in [gen : Gens, leaves : SUBSET CAs]
  BY <1>1, ClosedTyped, GensNat DEF Init, NoMemo
<1>7. IsFiniteSet(verify.leaves) /\ Cardinality(verify.leaves) <= VerifyCap
  BY <1>2, FS_EmptySet, BoundsAssumption
<1>8. restarts \in 0 .. MaxRestarts /\ losses \in 0 .. MaxLosses
  BY BoundsAssumption DEF Init
<1>9. ready = "no" /\ torn \in BOOLEAN
  BY DEF Init
<1>10. Types
  BY <1>6, <1>7, <1>8, <1>9 DEF Types
<1> QED
  BY <1>1, <1>3, <1>4, <1>5, <1>10, MapInvInit DEF VerdictInv, Paired, CallsOK, WholeOK

\* Every step keeps the invariant.
LEMMA VerdictInvStep == VerdictInv /\ [Next]_vars => VerdictInv'
<1> SUFFICES ASSUME VerdictInv, [Next]_vars PROVE VerdictInv'
  OBVIOUS
<1>a. MapInv' /\ Types'
  BY MapInvStep, TypesStep DEF VerdictInv
<1>b. Paired' /\ CallsOK' /\ (torn' \/ WholeOK') => VerdictInv'
  BY <1>a DEF VerdictInv
<1>1. ASSUME UNCHANGED <<pool, gen, verify, req, torn>>, Paired' PROVE VerdictInv'
  <2>1. CallsOK'
    BY <1>1 DEF VerdictInv, CallsOK, CallOK
  <2>2. torn' \/ WholeOK'
    BY <1>1 DEF VerdictInv, WholeOK, MemoOK, LoadedOK, FindsOK, Loaded, Vouched, VerdictInForce
  <2> QED
    BY <1>1, <1>b, <2>1, <2>2
<1>2. CASE LoseCache \/ FetchFails \/ NotModified \/ Remember \/ WaitReady
           \/ \E g \in 1 .. N : Rejected(g) \/ Contact(g)
  <2>1. UNCHANGED <<pool, gen, verify, req, torn>> /\ (pc' # pc => pc # "gen")
    BY <1>2 DEF LoseCache, FetchFails, NotModified, Remember, WaitReady, Rejected, Contact, core, bounds
  <2>2. Paired'
    BY <2>1 DEF VerdictInv, Paired
  <2> QED
    BY <1>1, <2>1, <2>2
<1>3. CASE UNCHANGED vars
  BY <1>1, <1>3 DEF vars, VerdictInv, Paired
<1>4. CASE StoreGen
  BY <1>4, <1>b, StoreGenStep
<1>5. CASE Restart
  BY <1>5, <1>b, RestartStep
<1>6. ASSUME NEW g \in 1 .. N, StorePool(g) PROVE VerdictInv'
  BY <1>6, <1>b, StorePoolStep
<1>7. ASSUME NEW h \in Handlers,
             \/ LoadPool(h) \/ LoadGen(h) \/ Lookup(h) \/ Insert(h) \/ Close(h)
             \/ \E c \in CAs : Handshake(h, c)
      PROVE  VerdictInv'
  <2>1. Paired'
    BY <1>7, HandlersApart DEF VerdictInv, Paired, core
  <2> QED
    BY <1>7, <1>b, <2>1, IdleStep, LoadPoolStep, LoadGenStep, LookupStep, InsertStep
<1> QED
  BY <1>2, <1>3, <1>4, <1>5, <1>6, <1>7 DEF Next

-----------------------------------------------------------------------------
\* The variables keep their types; in particular the memo never grows over
\* verifyCacheCap, whatever leaves are presented.
THEOREM TypeCorrect == Spec => []TypeOK
<1>1. VerdictInv => TypeOK
  <2> SUFFICES ASSUME VerdictInv PROVE TypeOK
    OBVIOUS
  <2>1. {pool, gen, floor, lastGood} \subseteq Gens /\ disk \in [gen : Gens, fresh : BOOLEAN]
        /\ pc \in {"fetch", "watch", "gen", "cache"}
    BY DEF VerdictInv, MapInv, CoreTypes
  <2>2. verify.gen \in Gens /\ verify.leaves \subseteq CAs /\ Cardinality(verify.leaves) <= VerifyCap
    BY DEF VerdictInv, Types
  <2>3. ASSUME NEW h \in Handlers
        PROVE  /\ req[h].pc \in {"closed", "bare", "open", "gen", "lookup", "insert", "done"}
               /\ req[h].leaf \in CAs
               /\ {req[h].pool, req[h].gen} \cup req[h].seen \subseteq Gens
               /\ req[h].ok \in BOOLEAN
    <3>1. req[h] \in Requests
      BY DEF VerdictInv, Types
    <3>2. req[h].ok \in BOOLEAN
      BY <3>1, Zenon DEF Requests
    <3> QED
      BY <3>1, <3>2 DEF Requests
  <2>4. ready \in {"no", "loaded", "timeout"} /\ torn \in BOOLEAN
        /\ restarts \in 0 .. MaxRestarts /\ losses \in 0 .. MaxLosses
    BY DEF VerdictInv, Types
  <2> QED
    BY <2>1, <2>2, <2>3, <2>4 DEF TypeOK
<1> QED
  BY <1>1, VerdictInvInit, VerdictInvStep, PTL DEF Spec

\* The argument of the comment in VerifyClientCert, for any number of handlers
\* and bundles and any capacity of the memo: as long as no call loads a pool,
\* loses the race against a whole apply and then loads the new generation,
\* every verdict, memoized or not, is that of a CA set which was in force at
\* some moment of the call.
THEOREM VerdictHolds == Spec => []VerdictInForceUnlessTorn
<1>1. VerdictInv => VerdictInForceUnlessTorn
  BY DEF VerdictInv, WholeOK, VerdictInForceUnlessTorn
<1> QED
  BY <1>1, VerdictInvInit, VerdictInvStep, PTL DEF Spec
=============================================================================
