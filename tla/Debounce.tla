------------------------------ MODULE Debounce ------------------------------
(***************************************************************************)
(* The debounced reload (debounce/debounce.go and the reload...Debounced   *)
(* functions of the controller).                                           *)
(*                                                                         *)
(* Callers are watch goroutines.  Each one writes the objects it owns into *)
(* the watched-resource store and then calls Debounce.Call.  The first     *)
(* Call runs the reload synchronously while it holds the debounce's mutex; *)
(* every later one stops the pending timer and arms a new one, whose       *)
(* expiry runs the reload in a goroutine of its own.  A reload ranges over *)
(* the store key by key and then publishes what it computed.  What it      *)
(* publishes is a function of the store, so it is abstracted to the        *)
(* version of every object it was built from.                              *)
(*                                                                         *)
(* Two kinds of reload are modelled, one per behaviour:                    *)
(*   - "ingress" holds no mutex over its pass: passes overlap.  It works   *)
(*     on an object when it reads it, swaps one table in and then asks for *)
(*     the Secret reload.  (The Secret reload is the same without that     *)
(*     last call.)                                                         *)
(*   - "transform" holds transformReloadMu over the whole pass.  It reads  *)
(*     everything, then compiles and stores the global set, then the       *)
(*     registry of the zones.                                              *)
(* The WAF, rate limit and Coraza reloads, which compile live instances in *)
(* place, are in RuleReload; the Service reload is in EndpointRoutes.      *)
(***************************************************************************)
EXTENDS Naturals, FiniteSets

CONSTANTS
    Callers,       \* watch goroutines that call this debounce
    Timers,        \* slots for timer goroutines: bounds the passes in flight
    Keys,          \* objects in the watched stores
    Owner,         \* the caller that writes each key
    MaxVersion,    \* bound on the writes of an object
    Poison,        \* the contents <<key, version>> a reload panics on
    GlobalKeys,    \* the objects of the global set (transform)
    Free           \* the owner of a mutex nobody holds

ASSUME OwnerAssumption   == Owner \in [Keys -> Callers]
ASSUME SlotsAssumption   == Callers \cap Timers = {}
ASSUME VersionAssumption == MaxVersion \in Nat
ASSUME PoisonAssumption  == Poison \subseteq (Keys \X Nat)
ASSUME GlobalAssumption  == GlobalKeys \subseteq Keys

Passes   == Callers \cup Timers
Version  == 0..MaxVersion

ASSUME FreeAssumption    == Free \notin Passes

VARIABLES
    reload,    \* which reload this debounce runs
    objects,   \* sync.Map: the watched objects, by number of writes
    cb,        \* what each watch goroutine is doing with its debounce
    mu,        \* Debounce.mu
    t,         \* Debounce.t: nil, an armed timer, or one stopped or fired
    passMu,    \* transformReloadMu
    pass,      \* the control state of every reload pass
    unread,    \* the keys a pass has still to range over
    snap,      \* what a pass has read so far
    published, \* what the request path reads
    asked,     \* history: the store when the Secret reload was last asked for
    shown      \* history: has the store been published since its last write?

history == <<asked, shown>>
debounceVars == <<reload, objects, cb, mu, t, passMu, pass, unread, snap, published, history>>

Serialized == reload = "transform"

DebounceTypeOK ==
    /\ reload \in {"ingress", "transform"}
    /\ objects \in [Keys -> Version]
    /\ cb \in [Callers -> {"idle", "dirty", "blocked"}]
    /\ mu \in Callers \cup {Free}
    /\ t \in {"nil", "armed", "spent"}
    /\ passMu \in Passes \cup {Free}
    /\ pass \in [Passes -> {"idle", "start", "read", "zones"}]
    /\ unread \in [Passes -> SUBSET Keys]
    /\ snap \in [Passes -> [Keys -> Version]]
    /\ published \in [Keys -> Version]
    /\ asked \in [Keys -> Version]
    /\ shown \in BOOLEAN

\* The controller has listed its resources and run every reload once
\* (firstReload calls the reload functions directly, not through Call).
DebounceInit ==
    /\ reload \in {"ingress", "transform"}
    /\ objects = [k \in Keys |-> 0]
    /\ cb = [c \in Callers |-> "idle"]
    /\ mu = Free
    /\ t = "nil"
    /\ passMu = Free
    /\ pass = [p \in Passes |-> "idle"]
    /\ unread = [p \in Passes |-> {}]
    /\ snap = [p \in Passes |-> objects]
    /\ published = objects
    /\ asked = objects
    /\ shown = TRUE

\* A reload that has yet to start covers every write made so far.
Pending ==
    \/ \E c \in Callers : cb[c] = "dirty"
    \/ t = "armed"
    \/ \E p \in Passes : pass[p] = "start"

\* A pass is under way, up to its last publication.
Reading(p) == pass[p] \in {"read", "zones"}

PassesOver == ~Pending /\ \A p \in Passes : ~Reading(p)

-----------------------------------------------------------------------------
(* The watch goroutines.                                                   *)

\* store.Store / store.Delete of a watch event or of a resync.
StoreWrite(c, k, v) ==
    /\ cb[c] \in {"idle", "dirty"}
    /\ Owner[k] = c
    /\ objects' = [objects EXCEPT ![k] = v]
    /\ cb' = [cb EXCEPT ![c] = "dirty"]
    /\ shown' = FALSE
    /\ UNCHANGED <<reload, mu, t, passMu, pass, unread, snap, published, asked>>

\* Call, when d.t is nil: the reload runs now, under d.mu.
CallFirst(c) ==
    /\ cb[c] = "dirty"
    /\ mu = Free
    /\ t = "nil"
    /\ mu' = c
    /\ pass' = [pass EXCEPT ![c] = "start"]
    /\ cb' = [cb EXCEPT ![c] = "blocked"]
    /\ UNCHANGED <<reload, objects, t, passMu, unread, snap, published, history>>

\* ... and its return: d.t becomes a timer that does nothing.
CallFirstReturn(c) ==
    /\ cb[c] = "blocked"
    /\ pass[c] = "idle"
    /\ t' = "spent"
    /\ mu' = Free
    /\ cb' = [cb EXCEPT ![c] = "idle"]
    /\ UNCHANGED <<reload, objects, passMu, pass, unread, snap, published, history>>

\* Mutation: a call made while a reload runs relies on that reload.
CallArmSkip(c) ==
    /\ cb[c] = "dirty"
    /\ mu = Free
    /\ t # "nil"
    /\ t' = IF \E p \in Passes : Reading(p) THEN t ELSE "armed"
    /\ cb' = [cb EXCEPT ![c] = "idle"]
    /\ UNCHANGED <<reload, objects, mu, passMu, pass, unread, snap, published, history>>

\* Call, afterwards: stop the pending timer, arm a new one.
CallArm(c) ==
    /\ cb[c] = "dirty"
    /\ mu = Free
    /\ t # "nil"
    /\ t' = "armed"
    /\ cb' = [cb EXCEPT ![c] = "idle"]
    /\ UNCHANGED <<reload, objects, mu, passMu, pass, unread, snap, published, history>>

-----------------------------------------------------------------------------
(* The reload passes.                                                      *)

\* time.AfterFunc: the timer expires and the reload gets its own goroutine.
Fire(g) ==
    /\ t = "armed"
    /\ pass[g] = "idle"
    /\ t' = "spent"
    /\ pass' = [pass EXCEPT ![g] = "start"]
    /\ UNCHANGED <<reload, objects, cb, mu, passMu, unread, snap, published, history>>

\* Mutation: no mutex around the pass.
BeginUnlocked(p) ==
    /\ pass[p] = "start"
    /\ pass' = [pass EXCEPT ![p] = "read"]
    /\ unread' = [unread EXCEPT ![p] = Keys]
    /\ UNCHANGED <<reload, objects, cb, mu, t, passMu, snap, published, history>>

\* A pass starts, taking its mutex when it has one.
BeginPass(p) ==
    /\ pass[p] = "start"
    /\ Serialized => passMu = Free
    /\ passMu' = IF Serialized THEN p ELSE passMu
    /\ pass' = [pass EXCEPT ![p] = "read"]
    /\ unread' = [unread EXCEPT ![p] = Keys]
    /\ UNCHANGED <<reload, objects, cb, mu, t, snap, published, history>>

\* Working on object k would panic: as it is read, or, in a transform pass,
\* when the set it is part of is compiled.
PanicsOn(p, k) ==
    \/ /\ reload = "ingress"
       /\ k \in unread[p]
       /\ <<k, objects[k]>> \in Poison
    \/ /\ reload = "transform"
       /\ unread[p] = {}
       /\ pass[p] = IF k \in GlobalKeys THEN "read" ELSE "zones"
       /\ <<k, snap[p][k]>> \in Poison

\* sync.Map.Range: one key at a time, in any order, no snapshot.
ReadKey(p, k) ==
    /\ pass[p] = "read"
    /\ k \in unread[p]
    /\ ~PanicsOn(p, k)
    /\ unread' = [unread EXCEPT ![p] = @ \ {k}]
    /\ snap' = [snap EXCEPT ![p][k] = objects[k]]
    /\ UNCHANGED <<reload, objects, cb, mu, t, passMu, pass, published, history>>

\* Mutation: the recovered panic leaves the mutex locked.
PanicLocked(p, k) ==
    /\ Reading(p)
    /\ PanicsOn(p, k)
    /\ pass' = [pass EXCEPT ![p] = "idle"]
    /\ UNCHANGED <<reload, objects, cb, mu, t, passMu, unread, snap, published, history>>

\* A panic on one object: the deferred recover ends the pass and its deferred
\* Unlock runs.  Nothing is published any more: no table by an ingress pass,
\* no registry by a transform pass, which may have stored the global set.
PanicPass(p, k) ==
    /\ Reading(p)
    /\ PanicsOn(p, k)
    /\ pass' = [pass EXCEPT ![p] = "idle"]
    /\ passMu' = Free
    /\ UNCHANGED <<reload, objects, cb, mu, t, unread, snap, published, history>>

\* Mutation: the table is swapped in before the range is over.
PublishPartial(p) ==
    /\ reload = "ingress"
    /\ pass[p] = "read"
    /\ published' = [k \in Keys \ unread[p] |-> snap[p][k]]
    /\ pass' = [pass EXCEPT ![p] = "idle"]
    /\ asked' = objects
    /\ shown' = (shown \/ snap[p] = objects)
    /\ UNCHANGED <<reload, objects, cb, mu, t, passMu, unread, snap>>

\* Mutation: only the first table is followed by a Secret reload.
PublishAskOnce(p) ==
    /\ reload = "ingress"
    /\ pass[p] = "read"
    /\ unread[p] = {}
    /\ published' = snap[p]
    /\ pass' = [pass EXCEPT ![p] = "idle"]
    /\ asked' = IF p \in Callers THEN objects ELSE asked
    /\ shown' = (shown \/ snap[p] = objects)
    /\ UNCHANGED <<reload, objects, cb, mu, t, passMu, unread, snap>>

\* The swap that ends an ingress pass, and the call of reloadSecret after it.
PublishPass(p) ==
    /\ reload = "ingress"
    /\ pass[p] = "read"
    /\ unread[p] = {}
    /\ published' = snap[p]
    /\ pass' = [pass EXCEPT ![p] = "idle"]
    /\ asked' = objects
    /\ shown' = (shown \/ snap[p] = objects)
    /\ UNCHANGED <<reload, objects, cb, mu, t, passMu, unread, snap>>

\* The part of the published state a transform pass stores now.
Stored(p, part) == [k \in Keys |-> IF k \in part THEN snap[p][k] ELSE published[k]]

\* A transform pass compiles the global set and stores it ...
StoreGlobal(p) ==
    /\ reload = "transform"
    /\ pass[p] = "read"
    /\ unread[p] = {}
    /\ \A k \in GlobalKeys : ~PanicsOn(p, k)
    /\ published' = Stored(p, GlobalKeys)
    /\ pass' = [pass EXCEPT ![p] = "zones"]
    /\ UNCHANGED <<reload, objects, cb, mu, t, passMu, unread, snap, history>>

\* ... and then the zones, whose registry ends the pass.
StoreZones(p) ==
    /\ reload = "transform"
    /\ pass[p] = "zones"
    /\ \A k \in Keys \ GlobalKeys : ~PanicsOn(p, k)
    /\ published' = Stored(p, Keys \ GlobalKeys)
    /\ pass' = [pass EXCEPT ![p] = "idle"]
    /\ passMu' = Free
    /\ UNCHANGED <<reload, objects, cb, mu, t, unread, snap, history>>

-----------------------------------------------------------------------------
(* The whole.                                                              *)

\* A key counts the writes of its object, a delete being one more write: the
\* published table depends on the latest content, whatever it is.
Environment ==
    \E c \in Callers, k \in Keys :
        objects[k] < MaxVersion /\ StoreWrite(c, k, objects[k] + 1)

CallStep ==
    \E c \in Callers : CallFirst(c) \/ CallFirstReturn(c) \/ CallArm(c)

PassStep ==
    \E p \in Passes :
        \/ BeginPass(p) \/ PublishPass(p) \/ StoreGlobal(p) \/ StoreZones(p)
        \/ \E k \in Keys : ReadKey(p, k) \/ PanicPass(p, k)

System == CallStep \/ (\E g \in Timers : Fire(g)) \/ PassStep

\* The cluster has gone quiet and the controller has nothing left to do.
Done ==
    /\ PassesOver
    /\ \A k \in Keys : objects[k] = MaxVersion
    /\ UNCHANGED debounceVars

DebounceNext == Environment \/ System \/ Done

DebounceSpec == DebounceInit /\ [][DebounceNext]_debounceVars

\* The Go scheduler runs every ready goroutine and timers expire; nothing is
\* assumed of the cluster.
DebounceFairSpec == DebounceSpec /\ WF_debounceVars(System)

-----------------------------------------------------------------------------
(* Properties.                                                             *)

\* Some object now in the store is one a reload panics on.
Poisoned == \E k \in Keys : <<k, objects[k]>> \in Poison

\* What is published is what the store describes.  Passes that may overlap
\* promise less: the state of the store has been published since its last
\* write, and only a pass that began before that write and ended after the
\* publication can have replaced it.
UpToDate == published = objects \/ (~Serialized /\ shown)

\* Once no watch goroutine has an unannounced write, no timer is armed and no
\* reload is under way, the request path is up to date: no write of a watch
\* event is forgotten by the debounce or by an overlapping pass, and once the
\* object a pass has panicked on is repaired nothing of the panic is left.
Settled == PassesOver => (Poisoned \/ UpToDate)

\* The published state never goes back to an older version of an object when
\* passes are serialized: a pass that read the store early never overwrites
\* one that read it late.
NoRegress ==
    [][Serialized => \A k \in Keys : published'[k] >= published[k]]_debounceVars

\* When the cluster stops changing the request path ends up serving its last
\* state; it stays there unless an overlapping older pass ends later.
Converges == <>[](Poisoned \/ UpToDate)

\* The certificates depend on the Ingresses too, but only an ingress pass that
\* reaches its end asks for the Secret reload.  Once the controller is quiet
\* it has been asked for after the last write of an Ingress, also when the
\* passes overlapped, ended out of order, or panicked.
SecretsFollow ==
    reload = "ingress" /\ PassesOver => (Poisoned \/ asked = objects)
=============================================================================
