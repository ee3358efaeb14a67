----------------------------- MODULE RuleReload -----------------------------
(***************************************************************************)
(* The rule reloads of the controller: the ConfigMaps of one feature (CEL  *)
(* WAF, rate limits, Coraza, transforms) are compiled into one global set  *)
(* and a registry of zones.  A fingerprint of the documents that an        *)
(* instance was compiled from lets a pass skip an unchanged instance.      *)
(*                                                                         *)
(* A pass is serialized by the feature's reload mutex; a Call that comes   *)
(* while one runs leads to another (module Debounce).  The first three     *)
(* features compile into the live instance of a zone, which requests see   *)
(* at once; transform zones are immutable and appear with the registry.    *)
(*                                                                         *)
(* The data values of a ConfigMap are one document; a document is its own  *)
(* fingerprint (SHA-256 with length prefixes, taken to be injective).      *)
(***************************************************************************)
EXTENDS Naturals

CONSTANTS
    Features,     \* the features whose reload is modelled
    CMs,          \* ConfigMaps, each also the key of its zone
    Own,          \* those in the controller's own namespace
    Valid,        \* documents that compile
    Blank,        \* a blank document: compiles to no rules
    Bad,          \* a document that Parse, SetRules, ... reject
    Boom,         \* a document whose compilation panics
    Absent,       \* no such ConfigMap, zone or fingerprint
    Contents,     \* the ConfigMaps that may be written
    MaxWrites     \* bound on the writes

Documents == Valid \cup {Bad, Boom}
ConfigMap == [role : {"global", "zone", "other"}, others : BOOLEAN, doc : Documents]
GlobalDocs == [CMs -> Documents \cup {Absent}]

ASSUME FeaturesAssumption ==
    Features \subseteq {"waf", "ratelimit", "coraza", "transform"}
ASSUME DocumentsAssumption ==
    /\ Blank \in Valid
    /\ Bad \notin Valid /\ Boom \notin Valid /\ Bad # Boom
    /\ Absent \notin Documents /\ Absent \notin ConfigMap /\ Absent \notin GlobalDocs
ASSUME ContentsAssumption == Contents \subseteq ConfigMap /\ Own \subseteq CMs
ASSUME BoundAssumption    == MaxWrites \in Nat

VARIABLES
    feature,      \* the feature this reload belongs to
    store,        \* watchedConfigMaps of the feature
    due,          \* a Call that no pass has started for
    pc,           \* where the pass is
    left,         \* ConfigMaps to read, or zones to compile
    read,         \* what the pass has read
    globalRules,  \* the documents the global instance was compiled from
    globalFP,     \* its fingerprint
    zones,        \* the registry: the document each live zone was compiled from
    zoneFP,       \* zoneFingerprints
    newZones,     \* the registry the pass builds
    newFP,
    clean,        \* history: the last pass did not panic
    torn,         \* history: zones whose pass panicked after compiling them
    armed,        \* history: zones that have had rules ever since they are zones
    writes        \* number of writes so far

live   == <<globalRules, globalFP, zones, zoneFP>>
locals == <<left, read, newZones, newFP>>
vars   == <<feature, store, due, pc, left, read, globalRules, globalFP, zones,
            zoneFP, newZones, newFP, clean, torn, armed, writes>>

Nothing == [c \in CMs |-> Absent]

TypeOK ==
    /\ feature \in Features
    /\ store \in [CMs -> ConfigMap \cup {Absent}]
    /\ due \in BOOLEAN /\ clean \in BOOLEAN
    /\ pc \in {"idle", "range", "zones"}
    /\ left \subseteq CMs
    /\ read \in [CMs -> ConfigMap \cup {Absent}]
    /\ globalRules \in [CMs -> Valid \cup {Absent}]
    /\ globalFP \in [CMs -> Valid \cup {Absent}] \cup {Absent}
    /\ zones \in [CMs -> Valid \cup {Absent}]
    /\ zoneFP \in [CMs -> Valid \cup {Absent}]
    /\ newZones \in [CMs -> Valid \cup {Absent}]
    /\ newFP \in [CMs -> Valid \cup {Absent}]
    /\ torn \subseteq CMs /\ armed \subseteq CMs
    /\ writes \in 0..MaxWrites

-----------------------------------------------------------------------------
(* Which ConfigMaps are input.                                             *)

\* carriesOtherFeatureLabel: one ConfigMap per feature.
Accepted(cm, role) == cm # Absent /\ cm.role = role /\ ~cm.others

\* A zone may come from any namespace ...
IsZone(S, c) == Accepted(S[c], "zone")

\* ... the global documents from the controller's only.  The map from names
\* to documents stands for their concatenation in the order of the names.
Globals(S) ==
    [c \in CMs |-> IF Accepted(S[c], "global") /\ c \in Own THEN S[c].doc ELSE Absent]

InPlace == feature # "transform"

\* What becomes of the documents D of an instance: one bad document rejects
\* them all.  With a bad and a panicking one either may come first.
Compiles(D) == D \cap {Bad, Boom} = {}
Rejects(D)  == Bad \in D
Panics(D)   == Boom \in D

DocsOf(G) == {G[c] : c \in CMs} \ {Absent}

-----------------------------------------------------------------------------
\* InitWAF and its three siblings: no zones, no fingerprints.  The first
\* reload is due.
Init ==
    /\ feature \in Features
    /\ store = Nothing
    /\ due = TRUE
    /\ pc = "idle" /\ left = {} /\ read = Nothing
    /\ globalRules = Nothing /\ globalFP = Absent
    /\ zones = Nothing /\ zoneFP = Nothing
    /\ newZones = Nothing /\ newFP = Nothing
    /\ clean = TRUE /\ torn = {} /\ armed = {}
    /\ writes = 0

\* A watch event or a resync writes the store and calls the reload.
Write(c, cm) ==
    /\ writes < MaxWrites
    /\ cm # store[c]
    /\ writes' = writes + 1
    /\ store' = [store EXCEPT ![c] = cm]
    /\ due' = TRUE
    /\ armed' = IF Accepted(cm, "zone") /\ cm.doc # Blank THEN armed ELSE armed \ {c}
    /\ UNCHANGED <<feature, pc, locals, live, clean, torn>>

\* Mutation: the mutex is still held after a panic.
BeginLocked ==
    /\ pc = "idle" /\ due /\ clean
    /\ due' = FALSE
    /\ pc' = "range"
    /\ left' = CMs
    /\ read' = Nothing
    /\ UNCHANGED <<feature, store, live, newZones, newFP, clean, torn, armed, writes>>

\* The debounced reload starts and takes the mutex.
Begin ==
    /\ pc = "idle" /\ due
    /\ due' = FALSE
    /\ pc' = "range"
    /\ left' = CMs
    /\ read' = Nothing
    /\ UNCHANGED <<feature, store, live, newZones, newFP, clean, torn, armed, writes>>

\* Range over the store, one ConfigMap at a time.
Range(c) ==
    /\ pc = "range"
    /\ c \in left
    /\ left' = left \ {c}
    /\ read' = [read EXCEPT ![c] = store[c]]
    /\ UNCHANGED <<feature, store, due, pc, live, newZones, newFP, clean, torn, armed, writes>>

StartZones ==
    /\ pc' = "zones"
    /\ left' = {c \in CMs : IsZone(read, c)}
    /\ newZones' = Nothing /\ newFP' = Nothing
    /\ UNCHANGED <<feature, store, due, read, zones, zoneFP, clean, torn, armed, writes>>

ReadDone == pc = "range" /\ left = {}

\* The global documents are those it was compiled from: skip.
GlobalSkip ==
    /\ ReadDone /\ Globals(read) = globalFP
    /\ StartZones
    /\ UNCHANGED <<globalRules, globalFP>>

\* SetRules / SetLimits / SetDirectives of the global instance, or for
\* transforms the swap of its pointer (nil when there is no document).
GlobalSet ==
    /\ ReadDone /\ Globals(read) # globalFP
    /\ Compiles(DocsOf(Globals(read)))
    /\ globalRules' = Globals(read)
    /\ globalFP' = Globals(read)
    /\ StartZones

\* Rejected: keep the previous set and its fingerprint.
GlobalReject ==
    /\ ReadDone /\ Rejects(DocsOf(Globals(read)))
    /\ StartZones
    /\ UNCHANGED <<globalRules, globalFP>>

-----------------------------------------------------------------------------
(* One zone after the other, in the random order of a Go map.              *)

Zone(c, rules, fp) ==
    /\ left' = left \ {c}
    /\ newZones' = [newZones EXCEPT ![c] = rules]
    /\ newFP' = [newFP EXCEPT ![c] = fp]
    /\ UNCHANGED <<feature, store, due, pc, read, globalRules, globalFP, zoneFP,
                   clean, armed, writes>>

Reused(c)    == zones[c] # Absent
Unchanged(c) == Reused(c) /\ read[c].doc = zoneFP[c]

\* Mutation: a zone that is reused is not compiled again.
ZoneSkipReused(c) ==
    /\ pc = "zones" /\ c \in left
    /\ Reused(c)
    /\ Zone(c, zones[c], zoneFP[c])
    /\ UNCHANGED <<zones, torn>>

ZoneSkip(c) ==
    /\ pc = "zones" /\ c \in left
    /\ Unchanged(c)
    /\ Zone(c, zones[c], zoneFP[c])
    /\ UNCHANGED <<zones, torn>>

\* SetRules, SetLimits or SetDirectives on the live instance, or on a new one.
ZoneSetInPlace(c) ==
    /\ pc = "zones" /\ c \in left
    /\ InPlace /\ ~Unchanged(c) /\ Compiles({read[c].doc})
    /\ Zone(c, read[c].doc, read[c].doc)
    /\ zones' = IF Reused(c) THEN [zones EXCEPT ![c] = read[c].doc] ELSE zones
    /\ torn' = torn \ {c}

\* transformrule.Parse makes a new Zone.
ZoneParse(c) ==
    /\ pc = "zones" /\ c \in left
    /\ ~InPlace /\ ~Unchanged(c) /\ Compiles({read[c].doc})
    /\ Zone(c, read[c].doc, read[c].doc)
    /\ UNCHANGED <<zones, torn>>

\* Mutation: a rejected edit leaves a fresh instance in the registry.
ZoneRejectFresh(c) ==
    /\ pc = "zones" /\ c \in left
    /\ ~Unchanged(c) /\ Rejects({read[c].doc})
    /\ Zone(c, IF InPlace THEN Blank ELSE Absent, Absent)
    /\ UNCHANGED <<zones, torn>>

\* Rejected: the live instance stays as it is, with its fingerprint.  A new
\* zone gets an instance without rules, a new transform zone gets none.
ZoneReject(c) ==
    /\ pc = "zones" /\ c \in left
    /\ ~Unchanged(c) /\ Rejects({read[c].doc})
    /\ Zone(c, IF Reused(c) THEN zones[c] ELSE IF InPlace THEN Blank ELSE Absent,
               zoneFP[c])
    /\ UNCHANGED <<zones, torn>>

\* History of a pass that comes to its end.
Published ==
    /\ clean' = TRUE
    /\ torn' = {c \in torn : newZones[c] # Absent}
    /\ armed' = armed \cup {c \in CMs : /\ newZones[c] \notin {Absent, Blank}
                                        /\ IsZone(store, c) /\ store[c].doc # Blank}

\* The registry and the fingerprints are replaced.
Publish ==
    /\ pc = "zones" /\ left = {}
    /\ zones' = newZones
    /\ zoneFP' = newFP
    /\ Published
    /\ pc' = "idle"
    /\ UNCHANGED <<feature, store, due, locals, globalRules, globalFP, writes>>

\* A panic is recovered: the mutex is released, the new registry is lost, and
\* what was compiled in place stays.
Panic ==
    /\ \/ ReadDone /\ Panics(DocsOf(Globals(read)))
       \/ pc = "zones" /\ \E c \in left : Panics({read[c].doc})
    /\ pc' = "idle"
    /\ clean' = FALSE
    /\ torn' = IF pc = "zones" /\ InPlace
               THEN torn \cup {c \in CMs : Reused(c) /\ newFP[c] # Absent /\ newFP[c] # zoneFP[c]}
               ELSE torn
    /\ UNCHANGED <<feature, store, due, locals, live, armed, writes>>

-----------------------------------------------------------------------------
Pass ==
    \/ Begin \/ GlobalSkip \/ GlobalSet \/ GlobalReject \/ Publish \/ Panic
    \/ \E c \in CMs : Range(c) \/ ZoneSkip(c) \/ ZoneSetInPlace(c) \/ ZoneParse(c) \/ ZoneReject(c)

Next == Pass \/ \E c \in CMs, cm \in Contents \cup {Absent} : Write(c, cm)

Spec == Init /\ [][Next]_vars

\* A pass that is due starts, and one that has started goes on.
FairSpec == Spec /\ WF_vars(Pass)

-----------------------------------------------------------------------------
(* Properties.                                                             *)

\* What a full rebuild from the store would serve: every valid zone and the
\* valid global set, no zone that the store does not have, and for a rejected
\* one whatever was there before.
ZoneRebuilt(c) ==
    IF IsZone(store, c)
    THEN store[c].doc \in Valid => zones[c] = store[c].doc
    ELSE zones[c] = Absent

GlobalRebuilt == Compiles(DocsOf(Globals(store))) => globalRules = Globals(store)

Quiet == pc = "idle" /\ ~due /\ clean

\* The comment in reloadWAFDebounced: skipping unchanged fingerprints and
\* reusing instances leaves the registry a full rebuild would give, except
\* for the zones a panicking pass had already compiled.
RebuiltUnlessTorn == Quiet => GlobalRebuilt /\ \A c \in CMs \ torn : ZoneRebuilt(c)

\* A zone that has rules keeps rules as long as its ConfigMap is a zone with a
\* document: no bad edit, panic or concurrent pass disarms it.
BadEditKeepsRules == \A c \in armed : zones[c] \notin {Absent, Blank}

\* When writes stop and no document panics, the rules converge.
RulesConverge ==
    <>[]( (\A c \in CMs : store[c] # Absent => store[c].doc # Boom)
            => GlobalRebuilt /\ \A c \in CMs \ torn : ZoneRebuilt(c) )
=============================================================================
