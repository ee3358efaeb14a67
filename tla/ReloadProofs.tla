---------------------------- MODULE ReloadProofs ----------------------------
(***************************************************************************)
(* Proofs about the controller's reloads, for any number of ConfigMaps,    *)
(* documents and writes: what a pass of RuleReload compiles and publishes, *)
(* and, further down, that Debounce runs the passes when it has to.        *)
(*                                                                         *)
(* RebuiltUnlessTorn is about a controller at rest.  PassInv says what     *)
(* holds within a pass: how instance and fingerprint belong together while *)
(* zones are compiled in place one after another (Fingerprints), and what  *)
(* the new registry holds so far (Building).  Coherent adds that what the  *)
(* pass has read is still in the store, unless another pass is due.        *)
(* BadEditKeepsRules needs ArmedInv: an armed zone was read as a zone with *)
(* rules by the pass that runs, since only the end of a pass arms one.     *)
(***************************************************************************)
EXTENDS RuleReload, Debounce, TLAPS

\* The pass has compiled a live instance whose fingerprint is still the old.
Redone(c) == pc = "zones" /\ InPlace /\ newFP[c] \notin {Absent, zoneFP[c]}

\* A fingerprint is that of the documents the instance was compiled from.
Fingerprints ==
    /\ globalFP \in {Absent, globalRules}
    /\ \A c \in CMs : zones[c] = Absent => zoneFP[c] = Absent
    /\ \A c \in CMs \ torn : zoneFP[c] # Absent /\ ~Redone(c) => zones[c] = zoneFP[c]

\* The new registry holds what the pass has read of a zone that is done.
Built(c) ==
    IF IsZone(read, c)
    THEN read[c].doc \in Valid => /\ newZones[c] # Absent
                                  /\ c \in torn \/ newZones[c] = read[c].doc
    ELSE newZones[c] = Absent

\* What a pass has built when it is among the zones.
Building ==
    pc = "zones" =>
      /\ Compiles(DocsOf(Globals(read))) => globalRules = Globals(read)
      /\ \A c \in left : IsZone(read, c) /\ newFP[c] = Absent
      /\ \A c \in CMs : newZones[c] = Absent => newFP[c] = Absent
      /\ \A c \in CMs \ torn : newFP[c] # Absent => newZones[c] = newFP[c]
      /\ \A c \in CMs \ left : Built(c)

\* What the pass has read is current, or another pass is due.
Coherent ==
    ~due => /\ pc = "range" => \A c \in CMs \ left : read[c] = store[c]
            /\ pc = "zones" => \A c \in CMs : read[c] = store[c]

PassInv == TypeOK /\ Fingerprints /\ Building

\* An armed zone has rules in the registry, in the store, in what the pass has
\* read and in what it has built.
Armed(c) ==
    /\ zones[c] \notin {Absent, Blank}
    /\ IsZone(store, c) /\ store[c].doc # Blank
    /\ (pc = "range" /\ c \notin left) \/ pc = "zones" => IsZone(read, c) /\ read[c].doc # Blank
    /\ pc = "zones" /\ c \notin left => newZones[c] \notin {Absent, Blank}
ArmedInv == \A c \in armed : Armed(c)

-----------------------------------------------------------------------------
\* The document of a zone that was read: valid if it compiles.
LEMMA ZoneDoc ==
    ASSUME TypeOK, NEW c \in CMs
    PROVE  /\ IsZone(read, c) => read[c] \in ConfigMap /\ read[c].doc \in Documents
           /\ IsZone(read, c) /\ Compiles({read[c].doc}) => read[c].doc \in Valid
           /\ IsZone(read, c) /\ Rejects({read[c].doc}) => read[c].doc \notin Valid
  BY DocumentsAssumption DEF TypeOK, IsZone, Accepted, ConfigMap, Documents, Compiles, Rejects

\* The global documents that were read: all valid if they compile.
LEMMA GlobalDoc ==
    ASSUME TypeOK
    PROVE  /\ Globals(read) \in GlobalDocs
           /\ Globals(read) # Absent
           /\ Compiles(DocsOf(Globals(read))) => Globals(read) \in [CMs -> Valid \cup {Absent}]
           /\ Globals(read) \in [CMs -> Valid \cup {Absent}] => Compiles(DocsOf(Globals(read)))
<1>1. \A c \in CMs : Accepted(read[c], "global") => read[c].doc \in Documents
  BY DEF TypeOK, Accepted, ConfigMap
<1>2. Globals(read) \in GlobalDocs
  BY <1>1 DEF Globals, GlobalDocs
<1>3. Compiles(DocsOf(Globals(read))) => \A c \in CMs : Globals(read)[c] \in Valid \cup {Absent}
  BY <1>2 DEF GlobalDocs, Compiles, DocsOf, Documents
<1>4. Globals(read) \in [CMs -> Valid \cup {Absent}] => Compiles(DocsOf(Globals(read)))
  BY DocumentsAssumption DEF Compiles, DocsOf, Documents
<1>5. QED
  BY <1>2, <1>3, <1>4, DocumentsAssumption DEF GlobalDocs, Globals

\* The state of a new controller is well typed.
LEMMA TypeInit == Init => TypeOK
  BY BoundAssumption DEF Init, TypeOK, Nothing


\* A zone that is still to be compiled is one the pass has read.
LEMMA TypeStep == ASSUME PassInv, [Next]_vars PROVE TypeOK'
<1> USE DEF TypeOK, PassInv
<1>1. CASE UNCHANGED vars
  BY <1>1 DEF vars
<1>2. ASSUME NEW c \in CMs, NEW cm \in Contents \cup {Absent}, Write(c, cm) PROVE TypeOK'
  <2>1. cm \in ConfigMap \cup {Absent} /\ writes' \in 0..MaxWrites
    BY <1>2, ContentsAssumption, BoundAssumption DEF Write
  <2>2. QED
    BY <1>2, <2>1 DEF Write, locals, live
<1>3. CASE Begin
  BY <1>3 DEF Begin, live, Nothing
<1>4. CASE GlobalSkip \/ GlobalReject
  BY <1>4 DEF GlobalSkip, GlobalReject, StartZones, Nothing
<1>5. CASE GlobalSet
  BY <1>5, GlobalDoc DEF GlobalSet, StartZones, Nothing
<1>6. CASE Publish
  BY <1>6 DEF Publish, Published, locals
<1>7. CASE Panic
  BY <1>7 DEF Panic, locals, live
<1>8. ASSUME NEW c \in CMs, Range(c) PROVE TypeOK'
  BY <1>8 DEF Range, live
<1>9. ASSUME NEW c \in CMs, ZoneSkip(c) PROVE TypeOK'
  BY <1>9 DEF ZoneSkip, Zone
<1>10. ASSUME NEW c \in CMs, ZoneReject(c) PROVE TypeOK'
  BY <1>10, DocumentsAssumption DEF ZoneReject, Zone
<1>11. ASSUME NEW c \in CMs, ZoneSetInPlace(c) \/ ZoneParse(c) PROVE TypeOK'
  <2>1. read[c].doc \in Valid
    BY <1>11, ZoneDoc DEF ZoneSetInPlace, ZoneParse, Building
  <2>2. QED
    BY <1>11, <2>1 DEF ZoneSetInPlace, ZoneParse, Zone
<1>12. QED
  BY <1>1, <1>2, <1>3, <1>4, <1>5, <1>6, <1>7, <1>8, <1>9, <1>10, <1>11 DEF Next, Pass

\* Every step keeps instance and fingerprint together, but for the zones that
\* a panic has torn.
LEMMA FingerprintStep == ASSUME PassInv, [Next]_vars PROVE Fingerprints'
<1> USE DEF PassInv, Redone, InPlace
<1>1. CASE UNCHANGED vars
  BY <1>1 DEF vars, Fingerprints
<1>2. ASSUME NEW c \in CMs, NEW cm \in Contents \cup {Absent}, Write(c, cm) PROVE Fingerprints'
  BY <1>2 DEF Write, locals, live, Fingerprints
<1>3. CASE Begin
  BY <1>3 DEF Begin, live, Fingerprints
<1>4. CASE GlobalSkip \/ GlobalReject \/ GlobalSet
  <2>1. /\ globalFP' \in {Absent, globalRules'}
        /\ UNCHANGED <<zones, zoneFP, torn>> /\ pc = "range" /\ newFP' = Nothing
    BY <1>4 DEF GlobalSkip, GlobalReject, GlobalSet, StartZones, ReadDone, Fingerprints
  <2>2. QED
    BY <2>1 DEF Fingerprints, Nothing
<1>5. CASE Publish
  <2>1. /\ pc = "zones" /\ pc' = "idle" /\ zones' = newZones /\ zoneFP' = newFP
        /\ torn' = {c \in torn : newZones[c] # Absent} /\ UNCHANGED <<globalRules, globalFP>>
    BY <1>5 DEF Publish, Published
  <2>2. \A c \in CMs \ torn' : newFP[c] # Absent => newZones[c] = newFP[c]
    BY <2>1 DEF Building
  <2>3. QED
    BY <2>1, <2>2 DEF Fingerprints, Building
<1>6. CASE Panic
  <2>1. pc' = "idle" /\ UNCHANGED <<globalRules, globalFP, zones, zoneFP>>
    BY <1>6 DEF Panic, live
  <2>2. torn \subseteq torn' /\ \A c \in CMs : Redone(c) /\ zones[c] # Absent => c \in torn'
    BY <1>6 DEF Panic, Reused
  <2>3. QED
    BY <2>1, <2>2 DEF Fingerprints
<1>7. ASSUME NEW c \in CMs, Range(c) PROVE Fingerprints'
  BY <1>7 DEF Range, live, Fingerprints
<1>8. ASSUME NEW c \in CMs, ZoneSkip(c) \/ ZoneReject(c) PROVE Fingerprints'
  <2>1. /\ pc = "zones" /\ c \in left /\ newFP' = [newFP EXCEPT ![c] = zoneFP[c]]
        /\ UNCHANGED <<pc, feature, globalRules, globalFP, zones, zoneFP, torn>>
    BY <1>8 DEF ZoneSkip, ZoneReject, Zone
  <2>2. ~Redone(c) /\ \A d \in CMs : Redone(d)' <=> d # c /\ Redone(d)
    BY <2>1 DEF Building, TypeOK
  <2>3. QED
    BY <2>1, <2>2 DEF Fingerprints
<1>9. ASSUME NEW c \in CMs, ZoneSetInPlace(c) PROVE Fingerprints'
  <2>1. /\ pc = "zones" /\ c \in left /\ newFP' = [newFP EXCEPT ![c] = read[c].doc]
        /\ UNCHANGED <<pc, feature, globalRules, globalFP, zoneFP>>
        /\ zones' = IF zones[c] # Absent THEN [zones EXCEPT ![c] = read[c].doc] ELSE zones
        /\ torn' = torn \ {c} /\ feature # "transform"
        /\ zones[c] # Absent => read[c].doc # zoneFP[c]
        /\ read[c].doc \in Valid
    BY <1>9, ZoneDoc DEF ZoneSetInPlace, Zone, Unchanged, Reused, Building
  <2>2. zones[c] # Absent => Redone(c)' /\ zones'[c] # Absent
    BY <2>1, DocumentsAssumption DEF TypeOK, Documents
  <2>3. \A d \in CMs \ {c} : (Redone(d)' <=> Redone(d)) /\ zones'[d] = zones[d]
    BY <2>1 DEF TypeOK
  <2>4. QED
    BY <2>1, <2>2, <2>3 DEF Fingerprints
<1>10. ASSUME NEW c \in CMs, ZoneParse(c) PROVE Fingerprints'
  BY <1>10 DEF ZoneParse, Zone, Fingerprints
<1>11. QED
  BY <1>1, <1>2, <1>3, <1>4, <1>5, <1>6, <1>7, <1>8, <1>9, <1>10 DEF Next, Pass

\* A zone that is done, with what the pass puts into the new registry for it.
LEMMA ZoneDone ==
    ASSUME PassInv, NEW c \in CMs, NEW rules, NEW fp,
           pc = "zones", c \in left, Zone(c, rules, fp),
           torn' \in {torn, torn \ {c}},
           rules = Absent => fp = Absent,
           c \notin torn' => (fp # Absent => rules = fp),
           read[c].doc \in Valid => rules # Absent /\ (c \in torn' \/ rules = read[c].doc)
    PROVE  Building'
<1>1. /\ left' = left \ {c} /\ UNCHANGED <<pc, read, globalRules>>
      /\ newZones' = [newZones EXCEPT ![c] = rules] /\ newFP' = [newFP EXCEPT ![c] = fp]
  BY DEF Zone
<1>2. /\ newZones'[c] = rules /\ newFP'[c] = fp
      /\ \A d \in CMs \ {c} : /\ newZones'[d] = newZones[d] /\ newFP'[d] = newFP[d]
                              /\ d \in torn' <=> d \in torn
  BY <1>1 DEF PassInv, TypeOK
<1>3. (Compiles(DocsOf(Globals(read))) => globalRules = Globals(read))'
  BY <1>1 DEF PassInv, Building, Globals
<1>4. \A d \in CMs : IsZone(read, d)' <=> IsZone(read, d)
  BY <1>1 DEF IsZone
<1>5. \A d \in left' : (IsZone(read, d) /\ newFP[d] = Absent)'
  BY <1>1, <1>2, <1>4 DEF PassInv, Building, TypeOK
<1>6. \A d \in CMs \ left' : Built(d)'
  BY <1>1, <1>2, <1>4 DEF PassInv, Building, Built
<1>7. /\ \A d \in CMs : newZones'[d] = Absent => newFP'[d] = Absent
      /\ \A d \in CMs \ torn' : newFP'[d] # Absent => newZones'[d] = newFP'[d]
  BY <1>2 DEF PassInv, Building
<1>8. QED
  BY <1>3, <1>5, <1>6, <1>7 DEF Building

\* Every step of a pass builds on what it has read.
LEMMA BuildingStep == ASSUME PassInv, [Next]_vars PROVE Building'
<1> USE DEF PassInv
<1>1. CASE UNCHANGED vars
  BY <1>1 DEF vars, Building, Globals, IsZone, Built
<1>2. ASSUME NEW c \in CMs, NEW cm \in Contents \cup {Absent}, Write(c, cm) PROVE Building'
  BY <1>2 DEF Write, locals, live, Building, Globals, IsZone, Built
<1>3. CASE Begin \/ Publish \/ Panic
  BY <1>3 DEF Begin, Publish, Panic, Building
<1>4. CASE GlobalSkip \/ GlobalReject \/ GlobalSet
  <2>1. /\ UNCHANGED read /\ newZones' = Nothing /\ newFP' = Nothing
        /\ left' = {c \in CMs : IsZone(read, c)}
    BY <1>4 DEF GlobalSkip, GlobalReject, GlobalSet, StartZones
  <2>2. Compiles(DocsOf(Globals(read))) => globalRules' = Globals(read)
    <3>1. CASE GlobalSkip
      BY <3>1, GlobalDoc DEF GlobalSkip, Fingerprints
    <3>2. CASE GlobalReject
      BY <3>2 DEF GlobalReject, Rejects, Compiles
    <3>3. CASE GlobalSet
      BY <3>3 DEF GlobalSet
    <3>4. QED
      BY <1>4, <3>1, <3>2, <3>3
  <2>3. \A c \in CMs : IsZone(read, c)' <=> IsZone(read, c)
    BY <2>1 DEF IsZone
  <2>4. Globals(read)' = Globals(read)
    BY <2>1 DEF Globals
  <2>5. QED
    BY <2>1, <2>2, <2>3, <2>4 DEF Building, Built, Nothing
<1>5. ASSUME NEW c \in CMs, Range(c) PROVE Building'
  BY <1>5 DEF Range, Building
<1>6. ASSUME NEW c \in CMs, ZoneSkip(c) PROVE Building'
  <2>1. /\ pc = "zones" /\ c \in left /\ Zone(c, zones[c], zoneFP[c]) /\ torn' = torn
        /\ zones[c] # Absent /\ zoneFP[c] = read[c].doc
    BY <1>6 DEF ZoneSkip, Unchanged, Reused
  <2>2. c \notin torn => (zoneFP[c] # Absent => zones[c] = zoneFP[c])
    BY <2>1 DEF Fingerprints, Building, Redone
  <2>3. read[c].doc \in Valid => zoneFP[c] # Absent
    BY <2>1, DocumentsAssumption DEF Documents
  <2>4. QED
    BY <2>1, <2>2, <2>3, ZoneDone
<1>7. ASSUME NEW c \in CMs, ZoneSetInPlace(c) \/ ZoneParse(c) PROVE Building'
  <2>1. /\ pc = "zones" /\ c \in left /\ Zone(c, read[c].doc, read[c].doc)
        /\ torn' \in {torn, torn \ {c}} /\ read[c].doc \in Valid
    BY <1>7, ZoneDoc DEF ZoneSetInPlace, ZoneParse, Building
  <2>2. read[c].doc # Absent
    BY <2>1, DocumentsAssumption DEF Documents
  <2>3. QED
    BY <2>1, <2>2, ZoneDone
<1>8. ASSUME NEW c \in CMs, ZoneReject(c) PROVE Building'
  <2> DEFINE rules == IF Reused(c) THEN zones[c] ELSE IF InPlace THEN Blank ELSE Absent
  <2>1. /\ pc = "zones" /\ c \in left /\ Zone(c, rules, zoneFP[c]) /\ torn' = torn
        /\ read[c].doc \notin Valid
    BY <1>8, ZoneDoc DEF ZoneReject, Building
  <2>2. /\ rules = Absent => zoneFP[c] = Absent
        /\ c \notin torn => (zoneFP[c] # Absent => rules = zoneFP[c])
    BY <2>1 DEF Fingerprints, Building, Redone, Reused
  <2> HIDE DEF rules
  <2>3. QED
    BY <2>1, <2>2, ZoneDone
<1>9. QED
  BY <1>1, <1>2, <1>3, <1>4, <1>5, <1>6, <1>7, <1>8 DEF Next, Pass

\* There is no pass yet.
LEMMA PassInvInit == Init => PassInv
  BY TypeInit DEF Init, PassInv, Fingerprints, Building, Nothing

\* The parts of PassInv are inductive together.
LEMMA PassInvStep == PassInv /\ [Next]_vars => PassInv'
  BY TypeStep, FingerprintStep, BuildingStep DEF PassInv

\* The variables keep their types: only documents that compile get into an
\* instance or a fingerprint.
THEOREM TypeCorrect == Spec => []TypeOK
<1>1. PassInv => TypeOK
  BY DEF PassInv
<1>2. QED
  BY <1>1, PassInvInit, PassInvStep, PTL DEF Spec

-----------------------------------------------------------------------------
\* A write that makes a pass's reading stale makes another pass due.
LEMMA CoherentStep == ASSUME TypeOK, Coherent, [Next]_vars PROVE Coherent'
<1> USE DEF Coherent
<1>1. CASE UNCHANGED vars
  BY <1>1 DEF vars
<1>2. ASSUME NEW c \in CMs, NEW cm \in Contents \cup {Absent}, Write(c, cm) PROVE Coherent'
  BY <1>2 DEF Write
<1>3. CASE Begin \/ Publish \/ Panic
  BY <1>3 DEF Begin, Publish, Panic
<1>4. CASE GlobalSkip \/ GlobalReject \/ GlobalSet
  BY <1>4 DEF GlobalSkip, GlobalReject, GlobalSet, StartZones, ReadDone
<1>5. ASSUME NEW c \in CMs, Range(c) PROVE Coherent'
  BY <1>5 DEF Range, TypeOK
<1>6. ASSUME NEW c \in CMs, ZoneSkip(c) \/ ZoneSetInPlace(c) \/ ZoneParse(c) \/ ZoneReject(c)
      PROVE  Coherent'
  BY <1>6 DEF ZoneSkip, ZoneSetInPlace, ZoneParse, ZoneReject, Zone
<1>7. QED
  BY <1>1, <1>2, <1>3, <1>4, <1>5, <1>6 DEF Next, Pass

\* The end of a pass leaves what a rebuild would, and nothing disturbs it
\* without making a pass due.
LEMMA RebuiltStep ==
    ASSUME PassInv, Coherent, RebuiltUnlessTorn, [Next]_vars PROVE RebuiltUnlessTorn'
<1> USE DEF RebuiltUnlessTorn, Quiet, GlobalRebuilt, ZoneRebuilt
<1>1. CASE UNCHANGED vars
  BY <1>1 DEF vars, IsZone, Globals
<1>2. ASSUME NEW c \in CMs, NEW cm \in Contents \cup {Absent}, Write(c, cm)
      PROVE  RebuiltUnlessTorn'
  BY <1>2 DEF Write
<1>3. CASE Publish
  <2> SUFFICES ASSUME ~due PROVE GlobalRebuilt' /\ \A c \in CMs \ torn' : ZoneRebuilt(c)'
    BY <1>3 DEF Publish
  <2>1. /\ pc = "zones" /\ left = {} /\ UNCHANGED <<store, globalRules>> /\ zones' = newZones
        /\ torn' = {c \in torn : newZones[c] # Absent}
    BY <1>3 DEF Publish, Published
  <2>2. \A c \in CMs : read[c] = store[c]
    BY <2>1 DEF Coherent
  <2>3. /\ Globals(store)' = Globals(read)
        /\ \A c \in CMs : IsZone(store, c)' <=> IsZone(read, c)
    BY <2>1, <2>2 DEF Globals, IsZone
  <2>4. GlobalRebuilt'
    BY <2>1, <2>3 DEF PassInv, Building
  <2>5. ASSUME NEW c \in CMs \ torn' PROVE ZoneRebuilt(c)'
    BY <2>1, <2>2, <2>3 DEF PassInv, Building, Built
  <2>6. QED
    BY <2>4, <2>5
<1>4. CASE Begin \/ Panic
  BY <1>4 DEF Begin, Panic
<1>5. CASE GlobalSkip \/ GlobalReject \/ GlobalSet
  BY <1>5 DEF GlobalSkip, GlobalReject, GlobalSet, StartZones
<1>6. ASSUME NEW c \in CMs, Range(c) PROVE RebuiltUnlessTorn'
  BY <1>6 DEF Range
<1>7. ASSUME NEW c \in CMs, ZoneSkip(c) \/ ZoneSetInPlace(c) \/ ZoneParse(c) \/ ZoneReject(c)
      PROVE  RebuiltUnlessTorn'
  BY <1>7 DEF ZoneSkip, ZoneSetInPlace, ZoneParse, ZoneReject, Zone
<1>8. QED
  BY <1>1, <1>2, <1>3, <1>4, <1>5, <1>6, <1>7 DEF Next, Pass

\* Skipping unchanged fingerprints and compiling into live instances leaves a
\* quiet controller with what a full rebuild would give (reloadWAFDebounced and
\* its siblings), except for the zones a panicking pass had already compiled.
THEOREM RebuiltHolds == Spec => []RebuiltUnlessTorn
<1>1. Init => Coherent /\ RebuiltUnlessTorn
  BY DEF Init, Coherent, RebuiltUnlessTorn, Quiet
<1>2. PassInv /\ Coherent /\ RebuiltUnlessTorn /\ [Next]_vars => Coherent' /\ RebuiltUnlessTorn'
  BY CoherentStep, RebuiltStep DEF PassInv
<1>3. QED
  BY <1>1, <1>2, PassInvInit, PassInvStep, PTL DEF Spec

-----------------------------------------------------------------------------
\* No step of a pass disarms a zone.
LEMMA ArmedStep == ASSUME PassInv, ArmedInv, [Next]_vars PROVE ArmedInv'
<1>0. armed \subseteq CMs
  BY DEF PassInv, TypeOK
<1> USE <1>0 DEF ArmedInv
<1>1. CASE UNCHANGED vars
  BY <1>1 DEF vars, Armed, IsZone
<1>2. ASSUME NEW c \in CMs, NEW cm \in Contents \cup {Absent}, Write(c, cm) PROVE ArmedInv'
  <2>1. /\ store' = [store EXCEPT ![c] = cm]
        /\ armed' = IF Accepted(cm, "zone") /\ cm.doc # Blank THEN armed ELSE armed \ {c}
        /\ UNCHANGED <<pc, left, read, zones, newZones>>
    BY <1>2 DEF Write, locals, live
  <2>2. ASSUME NEW d \in armed' PROVE (IsZone(store, d) /\ store[d].doc # Blank)'
    BY <2>1 DEF Armed, IsZone, PassInv, TypeOK
  <2>3. QED
    BY <2>1, <2>2 DEF Armed, IsZone
<1>3. CASE Begin
  BY <1>3 DEF Begin, live, Armed, IsZone
<1>4. CASE GlobalSkip \/ GlobalReject \/ GlobalSet
  <2>1. /\ pc = "range" /\ left = {} /\ left' = {c \in CMs : IsZone(read, c)}
        /\ UNCHANGED <<store, read, zones, armed>>
    BY <1>4 DEF GlobalSkip, GlobalReject, GlobalSet, StartZones, ReadDone
  <2>2. QED
    BY <2>1 DEF Armed, IsZone
<1>5. CASE Publish
  BY <1>5 DEF Publish, Published, Armed, IsZone
<1>6. CASE Panic
  BY <1>6 DEF Panic, live, Armed, IsZone
<1>7. ASSUME NEW c \in CMs, Range(c) PROVE ArmedInv'
  BY <1>7 DEF Range, live, Armed, IsZone, PassInv, TypeOK
<1>8. ASSUME NEW c \in CMs, NEW rules, NEW fp, pc = "zones", c \in left, Zone(c, rules, fp),
             zones' = zones \/ zones' = [zones EXCEPT ![c] = rules],
             c \in armed => rules \notin {Absent, Blank}
      PROVE  ArmedInv'
  <2>1. /\ UNCHANGED <<pc, read, store, armed>> /\ left' = left \ {c}
        /\ newZones' = [newZones EXCEPT ![c] = rules]
    BY <1>8 DEF Zone
  <2>2. ASSUME NEW d \in armed PROVE Armed(d)'
    BY <1>8, <2>1 DEF Armed, IsZone, PassInv, TypeOK
  <2>3. QED
    BY <2>1, <2>2
<1>9. ASSUME NEW c \in CMs, ZoneSkip(c) PROVE ArmedInv'
  BY <1>8, <1>9 DEF ZoneSkip, Armed
<1>10. ASSUME NEW c \in CMs, ZoneSetInPlace(c) \/ ZoneParse(c) PROVE ArmedInv'
  <2>1. /\ pc = "zones" /\ c \in left /\ Zone(c, read[c].doc, read[c].doc)
        /\ zones' = zones \/ zones' = [zones EXCEPT ![c] = read[c].doc]
        /\ read[c].doc \in Valid
    BY <1>10, ZoneDoc DEF ZoneSetInPlace, ZoneParse, PassInv, Building
  <2>2. c \in armed => read[c].doc \notin {Absent, Blank}
    BY <2>1, DocumentsAssumption DEF Armed, Documents
  <2>3. QED
    BY <1>8, <2>1, <2>2
<1>11. ASSUME NEW c \in CMs, ZoneReject(c) PROVE ArmedInv'
  <2>1. c \in armed => zones[c] \notin {Absent, Blank} /\ Reused(c)
    BY DEF Armed, Reused
  <2> DEFINE rules == IF Reused(c) THEN zones[c] ELSE IF InPlace THEN Blank ELSE Absent
  <2>2. /\ pc = "zones" /\ c \in left /\ Zone(c, rules, zoneFP[c]) /\ zones' = zones
        /\ c \in armed => rules \notin {Absent, Blank}
    BY <1>11, <2>1 DEF ZoneReject
  <2> HIDE DEF rules
  <2>3. QED
    BY <1>8, <2>2
<1>12. QED
  BY <1>1, <1>2, <1>3, <1>4, <1>5, <1>6, <1>7, <1>9, <1>10, <1>11 DEF Next, Pass

\* A rejected or panicking edit never takes the rules from a zone that has had
\* rules ever since it is one (the keep-last-good branch of the zone loops).
THEOREM BadEditHolds == Spec => []BadEditKeepsRules
<1>1. Init => ArmedInv
  BY DEF Init, ArmedInv
<1>2. PassInv /\ ArmedInv /\ [Next]_vars => ArmedInv'
  BY ArmedStep
<1>3. ArmedInv => BadEditKeepsRules
  BY DEF ArmedInv, Armed, BadEditKeepsRules
<1>4. QED
  BY <1>1, <1>2, <1>3, PassInvInit, PassInvStep, PTL DEF Spec

-----------------------------------------------------------------------------
(***************************************************************************)
(* Debounce, for any number of callers, timers and objects.                *)
(*                                                                         *)
(* Settled is not inductive: it says nothing of a pass that is half way    *)
(* through the store.  A fresh pass is one whose reads are all still       *)
(* current.  Covered says that a fresh pass is under way, or one is due,   *)
(* or the state of the store has been published since its last write; it   *)
(* holds however passes overlap.  Serialized passes promise more, and need *)
(* more: they read alone (Alone), every one is fresh unless another is due *)
(* (SnapCurrent), and the global set is in place before the zones          *)
(* (HalfStored).  Ordered adds the lower bound that makes publication      *)
(* monotone.                                                               *)
(***************************************************************************)
\* A serialized pass reads under the mutex; a watch goroutine that runs the
\* first reload itself is blocked in Call, alone, with no timer yet.
Alone ==
    /\ Serialized => \A p \in Passes : Reading(p) => passMu = p
    /\ \A c \in Callers : pass[c] # "idle" => cb[c] = "blocked"
    /\ \A c \in Callers : cb[c] = "blocked" => mu = c /\ t = "nil"

\* What a pass has collected is still in the store.
Fresh(p) == Reading(p) /\ \A k \in Keys \ unread[p] : snap[p][k] = objects[k]

\* Overlapping passes: the last write is published, or will be.
Handled ==
    \/ Poisoned
    \/ shown /\ asked = objects
    \/ \E p \in Passes : Fresh(p)
Covered == ~Serialized => Pending \/ Handled

\* Serialized passes: the one that reads is fresh, or another is due.
SnapCurrent ==
    Serialized /\ ~Pending => \A p \in Passes : Reading(p) => Fresh(p)

\* Only a transform pass stores twice; it has its global set in place before
\* it turns to the zones, and nothing left to read.
HalfStored ==
    \A p \in Passes : pass[p] = "zones" =>
        /\ Serialized
        /\ unread[p] = {}
        /\ \A k \in GlobalKeys : published[k] = snap[p][k]

DebounceInv ==
    DebounceTypeOK /\ Alone /\ Covered /\ SnapCurrent /\ HalfStored /\ Settled

\* Versions flow from the store through a pass to what is published.
Ordered ==
    /\ \A k \in Keys : published[k] <= objects[k]
    /\ \A p \in Passes, k \in Keys : snap[p][k] <= objects[k]
    /\ Serialized => \A p \in Passes : Reading(p) =>
           \A k \in Keys \ unread[p] : published[k] <= snap[p][k]

-----------------------------------------------------------------------------
\* Every step keeps the variables in their types.
LEMMA DebounceTypeStep ==
    ASSUME DebounceTypeOK, [DebounceNext]_debounceVars PROVE DebounceTypeOK'
<1> USE DEF DebounceTypeOK, history
<1>1. CASE Environment
  <2> PICK c \in Callers, k \in Keys : objects[k] < MaxVersion /\ StoreWrite(c, k, objects[k] + 1)
    BY <1>1 DEF Environment
  <2>1. objects[k] + 1 \in Version
    BY VersionAssumption DEF Version
  <2> QED BY <2>1 DEF StoreWrite
<1>2. CASE CallStep
  BY <1>2 DEF CallStep, CallFirst, CallFirstReturn, CallArm, Passes
<1>3. ASSUME NEW g \in Timers, Fire(g) PROVE DebounceTypeOK'
  BY <1>3 DEF Fire, Passes
<1>4. ASSUME NEW p \in Passes, BeginPass(p) PROVE DebounceTypeOK'
  BY <1>4 DEF BeginPass
<1>5. ASSUME NEW p \in Passes, PublishPass(p) PROVE DebounceTypeOK'
  BY <1>5 DEF PublishPass
<1>6. ASSUME NEW p \in Passes, NEW k \in Keys, ReadKey(p, k) PROVE DebounceTypeOK'
  BY <1>6 DEF ReadKey
<1>7. ASSUME NEW p \in Passes, NEW k \in Keys, PanicPass(p, k) PROVE DebounceTypeOK'
  BY <1>7 DEF PanicPass
<1>8. ASSUME NEW p \in Passes, StoreGlobal(p) PROVE DebounceTypeOK'
  BY <1>8 DEF StoreGlobal, Stored
<1>9. ASSUME NEW p \in Passes, StoreZones(p) PROVE DebounceTypeOK'
  BY <1>9 DEF StoreZones, Stored
<1>10. CASE UNCHANGED debounceVars
  BY <1>10 DEF debounceVars
<1> QED
  BY <1>1, <1>2, <1>3, <1>4, <1>5, <1>6, <1>7, <1>8, <1>9, <1>10
  DEF DebounceNext, System, PassStep, Done

\* The variables keep their types: every reload goroutine is one of Passes,
\* and no write goes past the bound.
THEOREM DebounceTypeCorrect == DebounceSpec => []DebounceTypeOK
<1>1. DebounceInit => DebounceTypeOK
  BY VersionAssumption DEF DebounceInit, DebounceTypeOK, Version
<1>2. DebounceTypeOK /\ [DebounceNext]_debounceVars => DebounceTypeOK'
  BY DebounceTypeStep
<1> QED
  BY <1>1, <1>2, PTL DEF DebounceSpec

\* Every step keeps the readers of a serialized debounce alone.
LEMMA AloneStep ==
    ASSUME DebounceTypeOK, Alone, [DebounceNext]_debounceVars PROVE Alone'
<1> USE FreeAssumption, SlotsAssumption DEF DebounceTypeOK, Alone, Reading, Passes, Serialized
<1>1. CASE Environment
  BY <1>1 DEF Environment, StoreWrite
<1>2. ASSUME NEW c \in Callers, CallFirst(c) PROVE Alone'
  BY <1>2 DEF CallFirst
<1>3. ASSUME NEW c \in Callers, CallFirstReturn(c) PROVE Alone'
  BY <1>3 DEF CallFirstReturn
<1>4. ASSUME NEW c \in Callers, CallArm(c) PROVE Alone'
  BY <1>4 DEF CallArm
<1>5. ASSUME NEW g \in Timers, Fire(g) PROVE Alone'
  BY <1>5 DEF Fire
<1>6. ASSUME NEW p \in Passes, BeginPass(p) PROVE Alone'
  BY <1>6 DEF BeginPass
<1>7. ASSUME NEW p \in Passes, PublishPass(p) PROVE Alone'
  BY <1>7 DEF PublishPass
<1>8. ASSUME NEW p \in Passes, NEW k \in Keys, ReadKey(p, k) PROVE Alone'
  BY <1>8 DEF ReadKey
<1>9. ASSUME NEW p \in Passes, NEW k \in Keys, PanicPass(p, k) PROVE Alone'
  BY <1>9 DEF PanicPass
<1>10. ASSUME NEW p \in Passes, StoreGlobal(p) PROVE Alone'
  BY <1>10 DEF StoreGlobal
<1>11. ASSUME NEW p \in Passes, StoreZones(p) PROVE Alone'
  BY <1>11 DEF StoreZones
<1>12. CASE UNCHANGED debounceVars
  BY <1>12 DEF debounceVars
<1> QED
  BY <1>1, <1>2, <1>3, <1>4, <1>5, <1>6, <1>7, <1>8, <1>9, <1>10, <1>11, <1>12
  DEF DebounceNext, System, CallStep, PassStep, Done

\* Every step keeps the last write of overlapping passes covered: a pass that
\* begins is fresh, a fresh pass that ends has published the store or has met
\* an object that is still there to panic on.
LEMMA CoveredStep ==
    ASSUME DebounceTypeOK, Alone, HalfStored, Covered, [DebounceNext]_debounceVars
    PROVE  Covered'
<1> SUFFICES ASSUME ~Serialized, ~Serialized', ~Pending'
             PROVE Handled'
  BY DEF Covered, Serialized, DebounceNext, System, CallStep, PassStep, Done, Environment,
         StoreWrite, CallFirst, CallFirstReturn, CallArm, Fire, BeginPass, ReadKey, PanicPass,
         PublishPass, StoreGlobal, StoreZones, debounceVars
<1> USE DEF DebounceTypeOK, history
<1>1. CASE Environment
  BY <1>1 DEF Environment, StoreWrite, Pending
<1>2. ASSUME NEW c \in Callers, CallFirst(c) PROVE FALSE
  BY <1>2 DEF CallFirst, Pending, Passes
<1>3. ASSUME NEW c \in Callers, CallFirstReturn(c)
      PROVE Handled'
  <2>1. t = "nil" /\ t' = "spent"
    BY <1>3 DEF CallFirstReturn, Alone
  <2>2. ~Pending
    BY <1>3, <2>1 DEF CallFirstReturn, Pending
  <2> QED
    BY <1>3, <2>2 DEF CallFirstReturn, Covered, Handled, Fresh, Reading, Poisoned
<1>4. ASSUME NEW c \in Callers, CallArm(c) PROVE FALSE
  BY <1>4 DEF CallArm, Pending
<1>5. ASSUME NEW g \in Timers, Fire(g) PROVE FALSE
  BY <1>5 DEF Fire, Pending, Passes
<1>6. ASSUME NEW p \in Passes, BeginPass(p) PROVE Handled'
  BY <1>6 DEF BeginPass, Handled, Fresh, Reading
<1>7. ASSUME NEW p \in Passes, PublishPass(p)
      PROVE Handled'
  <2>1. ~Pending
    BY <1>7 DEF PublishPass, Pending
  <2>2. asked' = objects' /\ (shown => shown') /\ (Poisoned => Poisoned')
    BY <1>7 DEF PublishPass, Poisoned
  <2>3. ASSUME NEW q \in Passes, Fresh(q), q # p PROVE Fresh(q)'
    BY <1>7, <2>3 DEF PublishPass, Fresh, Reading
  <2>4. ASSUME Fresh(p) PROVE shown'
    <3>1. snap[p] = objects
      BY <1>7, <2>4 DEF PublishPass, Fresh
    <3> QED BY <3>1, <1>7 DEF PublishPass
  <2> QED
    BY <2>1, <2>2, <2>3, <2>4 DEF Covered, Handled
<1>8. ASSUME NEW p \in Passes, NEW k \in Keys, ReadKey(p, k)
      PROVE Handled'
  <2>1. ~Pending
    BY <1>8 DEF ReadKey, Pending
  <2>2. ASSUME NEW q \in Passes, Fresh(q) PROVE Fresh(q)'
    BY <1>8, <2>2 DEF ReadKey, Fresh, Reading
  <2> QED
    BY <1>8, <2>1, <2>2 DEF ReadKey, Covered, Handled, Poisoned
<1>9. ASSUME NEW p \in Passes, NEW k \in Keys, PanicPass(p, k)
      PROVE Handled'
  <2>1. <<k, objects[k]>> \in Poison
    BY <1>9 DEF PanicPass, PanicsOn, Serialized
  <2> QED
    BY <1>9, <2>1 DEF PanicPass, Handled, Poisoned
<1>10. ASSUME NEW p \in Passes, StoreGlobal(p) \/ StoreZones(p) PROVE FALSE
  BY <1>10 DEF StoreGlobal, StoreZones, Serialized
<1>11. CASE UNCHANGED debounceVars
  BY <1>11 DEF debounceVars, Covered, Handled, Fresh, Pending, Reading, Poisoned
<1> QED
  BY <1>1, <1>2, <1>3, <1>4, <1>5, <1>6, <1>7, <1>8, <1>9, <1>10, <1>11
  DEF DebounceNext, System, CallStep, PassStep, Done

\* Every step keeps a global set in place while its pass is among the zones.
LEMMA HalfStoredStep ==
    ASSUME DebounceTypeOK, Alone, HalfStored, [DebounceNext]_debounceVars
    PROVE  HalfStored'
<1> USE GlobalAssumption DEF DebounceTypeOK, HalfStored, Serialized, history
<1>1. CASE Environment \/ CallStep
  BY <1>1 DEF Environment, StoreWrite, CallStep, CallFirst, CallFirstReturn, CallArm, Passes
<1>2. ASSUME NEW g \in Timers, Fire(g) PROVE HalfStored'
  BY <1>2 DEF Fire, Passes
<1>3. ASSUME NEW p \in Passes, BeginPass(p) PROVE HalfStored'
  BY <1>3 DEF BeginPass
<1>4. ASSUME NEW p \in Passes, PublishPass(p) PROVE HalfStored'
  BY <1>4 DEF PublishPass
<1>5. ASSUME NEW p \in Passes, NEW k \in Keys, ReadKey(p, k) PROVE HalfStored'
  BY <1>5 DEF ReadKey
<1>6. ASSUME NEW p \in Passes, NEW k \in Keys, PanicPass(p, k) PROVE HalfStored'
  BY <1>6 DEF PanicPass
<1>7. ASSUME NEW p \in Passes, StoreGlobal(p) PROVE HalfStored'
  <2>1. \A q \in Passes \ {p} : pass[q] # "zones"
    BY <1>7 DEF StoreGlobal, Alone, Reading
  <2> QED BY <1>7, <2>1 DEF StoreGlobal, Stored
<1>8. ASSUME NEW p \in Passes, StoreZones(p) PROVE HalfStored'
  <2>1. \A q \in Passes \ {p} : pass[q] # "zones"
    BY <1>8 DEF StoreZones, Alone, Reading
  <2> QED BY <1>8, <2>1 DEF StoreZones, Stored
<1>9. CASE UNCHANGED debounceVars
  BY <1>9 DEF debounceVars
<1> QED
  BY <1>1, <1>2, <1>3, <1>4, <1>5, <1>6, <1>7, <1>8, <1>9
  DEF DebounceNext, System, PassStep, Done

\* Every step of a serialized debounce keeps its reader fresh, or another pass
\* due, and leaves the current store published when all is quiet.
LEMMA SerializedStep ==
    ASSUME DebounceInv, Serialized, HalfStored', Alone', [DebounceNext]_debounceVars
    PROVE  (SnapCurrent /\ Settled)'
<1> USE DEF DebounceInv, UpToDate, history
<1>1. CASE Environment
  <2> PICK c \in Callers, k \in Keys : StoreWrite(c, k, objects[k] + 1)
    BY <1>1 DEF Environment
  <2>1. Pending'
    BY DEF StoreWrite, DebounceTypeOK, Pending
  <2> QED BY <2>1 DEF SnapCurrent, Settled, PassesOver
<1>2. ASSUME NEW c \in Callers, CallFirst(c) PROVE (SnapCurrent /\ Settled)'
  <2>1. Pending'
    BY <1>2 DEF CallFirst, DebounceTypeOK, Pending, Passes
  <2> QED BY <2>1 DEF SnapCurrent, Settled, PassesOver
<1>3. ASSUME NEW c \in Callers, CallFirstReturn(c) PROVE (SnapCurrent /\ Settled)'
  <2>1. t = "nil" /\ t' = "spent"
    BY <1>3 DEF CallFirstReturn, Alone
  <2>2. Pending' = Pending
    BY <1>3, <2>1 DEF CallFirstReturn, DebounceTypeOK, Pending
  <2>3. SnapCurrent'
    BY <1>3, <2>2 DEF CallFirstReturn, SnapCurrent, Reading, Fresh, Serialized
  <2>4. Settled'
    BY <1>3, <2>2 DEF CallFirstReturn, Settled, PassesOver, Reading, Poisoned, Serialized
  <2> QED BY <2>3, <2>4
<1>4. ASSUME NEW c \in Callers, CallArm(c) PROVE (SnapCurrent /\ Settled)'
  <2>1. Pending'
    BY <1>4 DEF CallArm, DebounceTypeOK, Pending
  <2> QED BY <2>1 DEF SnapCurrent, Settled, PassesOver
<1>5. ASSUME NEW g \in Timers, Fire(g) PROVE (SnapCurrent /\ Settled)'
  <2>1. Pending'
    BY <1>5 DEF Fire, DebounceTypeOK, Pending, Passes
  <2> QED BY <2>1 DEF SnapCurrent, Settled, PassesOver
<1>6. ASSUME NEW p \in Passes, BeginPass(p) PROVE (SnapCurrent /\ Settled)'
  <2>1. \A q \in Passes : ~Reading(q)
    BY <1>6, FreeAssumption DEF BeginPass, Alone
  <2>2. Fresh(p)' /\ \A q \in Passes \ {p} : ~Reading(q)'
    BY <1>6, <2>1 DEF BeginPass, DebounceTypeOK, Reading, Fresh
  <2> QED BY <2>2 DEF SnapCurrent, Settled, PassesOver, Fresh
<1>7. ASSUME NEW p \in Passes, PublishPass(p) PROVE FALSE
  BY <1>7 DEF PublishPass, Serialized
<1>8. ASSUME NEW p \in Passes, NEW k \in Keys, ReadKey(p, k)
      PROVE (SnapCurrent /\ Settled)'
  <2>1. Pending' = Pending /\ (\A q \in Passes : Reading(q)' = Reading(q)) /\ Reading(p)
    BY <1>8 DEF ReadKey, Pending, Reading
  <2>2. SnapCurrent'
    BY <1>8, <2>1 DEF ReadKey, DebounceTypeOK, SnapCurrent, Fresh, Serialized
  <2> QED BY <2>1, <2>2 DEF Settled, PassesOver
<1>9. ASSUME NEW p \in Passes, NEW k \in Keys, PanicPass(p, k)
      PROVE (SnapCurrent /\ Settled)'
  <2>1. \A q \in Passes : ~Reading(q)'
    BY <1>9 DEF PanicPass, DebounceTypeOK, Alone, Reading
  <2>2. Pending' = Pending
    BY <1>9 DEF PanicPass, DebounceTypeOK, Pending, Reading
  <2>3. ~Pending => Poisoned'
    BY <1>9 DEF PanicPass, PanicsOn, Poisoned, SnapCurrent, Fresh, Serialized
  <2> QED BY <2>1, <2>2, <2>3 DEF SnapCurrent, Settled, PassesOver
<1>10. ASSUME NEW p \in Passes, StoreGlobal(p) PROVE (SnapCurrent /\ Settled)'
  <2>1. Pending' = Pending /\ (\A q \in Passes : Reading(q)' = Reading(q)) /\ Reading(p)
    BY <1>10 DEF StoreGlobal, Pending, Reading, DebounceTypeOK
  <2>2. SnapCurrent'
    BY <1>10, <2>1 DEF StoreGlobal, SnapCurrent, Fresh, Serialized
  <2> QED BY <2>1, <2>2 DEF Settled, PassesOver
<1>11. ASSUME NEW p \in Passes, StoreZones(p) PROVE (SnapCurrent /\ Settled)'
  <2>1. Pending' = Pending
    BY <1>11 DEF StoreZones, DebounceTypeOK, Pending
  <2>2. \A q \in Passes : ~Reading(q)'
    BY <1>11 DEF StoreZones, DebounceTypeOK, Alone, Reading
  <2>3. ~Pending => published' = objects'
    <3> SUFFICES ASSUME ~Pending PROVE published' = objects'
      OBVIOUS
    <3>1. unread[p] = {} /\ \A k \in GlobalKeys : published[k] = snap[p][k]
      BY <1>11 DEF StoreZones, HalfStored
    <3>2. \A k \in Keys : snap[p][k] = objects[k]
      BY <1>11, <3>1 DEF StoreZones, SnapCurrent, Reading, Fresh
    <3> QED
      BY <1>11, <3>1, <3>2, GlobalAssumption DEF StoreZones, Stored, DebounceTypeOK
  <2> QED BY <2>1, <2>2, <2>3 DEF SnapCurrent, Settled, PassesOver
<1>12. CASE UNCHANGED debounceVars
  BY <1>12 DEF debounceVars, SnapCurrent, Fresh, Settled, PassesOver, Pending, Reading, Poisoned,
               Serialized
<1> QED
  BY <1>1, <1>2, <1>3, <1>4, <1>5, <1>6, <1>7, <1>8, <1>9, <1>10, <1>11, <1>12
  DEF DebounceNext, System, CallStep, PassStep, Done

\* The inductive invariant of the debounced reload.
LEMMA DebounceInvariance == DebounceSpec => []DebounceInv
<1>1. DebounceInit => DebounceInv
  <2> SUFFICES ASSUME DebounceInit PROVE DebounceInv
    OBVIOUS
  <2>1. DebounceTypeOK
    BY VersionAssumption DEF DebounceInit, DebounceTypeOK, Version
  <2>2. Alone /\ Covered /\ SnapCurrent /\ HalfStored /\ Settled
    BY DEF DebounceInit, Alone, Covered, Handled, SnapCurrent, HalfStored, Settled, UpToDate, Reading, Passes
  <2> QED BY <2>1, <2>2 DEF DebounceInv
<1>2. DebounceInv /\ [DebounceNext]_debounceVars => DebounceInv'
  <2> SUFFICES ASSUME DebounceInv, [DebounceNext]_debounceVars PROVE DebounceInv'
    OBVIOUS
  <2>1. DebounceTypeOK' /\ Alone' /\ HalfStored' /\ Covered'
    BY DebounceTypeStep, AloneStep, HalfStoredStep, CoveredStep DEF DebounceInv
  <2>2. Serialized' = Serialized
    BY DEF Serialized, DebounceNext, System, CallStep, PassStep, Done, Environment, StoreWrite,
           CallFirst, CallFirstReturn, CallArm, Fire, BeginPass, ReadKey, PanicPass,
           PublishPass, StoreGlobal, StoreZones, debounceVars
  <2>3. CASE Serialized
    BY <2>1, <2>3, SerializedStep DEF DebounceInv
  <2>4. CASE ~Serialized
    <3>1. Settled'
      BY <2>1, <2>2, <2>4 DEF Covered, Handled, Settled, UpToDate, PassesOver, Fresh
    <3> QED BY <2>1, <2>2, <2>4, <3>1 DEF SnapCurrent, DebounceInv
  <2> QED BY <2>3, <2>4
<1> QED
  BY <1>1, <1>2, PTL DEF DebounceSpec

\* No write is lost, whatever the number of watch goroutines and timers: a
\* quiet controller has published the current store since its last write, and
\* serves it when the passes are serialized.
THEOREM SettledHolds == DebounceSpec => []Settled
  BY DebounceInvariance, PTL DEF DebounceInv

\* A quiet controller has asked for the Secret reload after the last write of
\* an Ingress, however its ingress passes overlapped.
THEOREM SecretsFollowHolds == DebounceSpec => []SecretsFollow
<1>1. DebounceInv => SecretsFollow
  BY DEF DebounceInv, Covered, Handled, SecretsFollow, Serialized, PassesOver, Fresh
<1> QED
  BY <1>1, DebounceInvariance, PTL

\* When passes are serialized the request path never goes back to an older
\* version of any object.
THEOREM NoRegressHolds == DebounceSpec => NoRegress
<1> DEFINE J == DebounceTypeOK /\ Alone /\ HalfStored /\ Ordered
           Forward == Serialized => \A k \in Keys : published'[k] >= published[k]
<1>1. DebounceInit => J
  <2> SUFFICES ASSUME DebounceInit PROVE J
    OBVIOUS
  <2>1. DebounceTypeOK
    BY VersionAssumption DEF DebounceInit, DebounceTypeOK, Version
  <2>2. Alone /\ HalfStored
    BY DEF DebounceInit, Alone, HalfStored, Reading, Passes
  <2>3. Ordered
    BY DEF DebounceInit, Ordered, Reading
  <2> QED BY <2>1, <2>2, <2>3
<1>2. J /\ [DebounceNext]_debounceVars => J' /\ Forward
  <2> SUFFICES ASSUME J, DebounceTypeOK', Alone', HalfStored', [DebounceNext]_debounceVars
               PROVE Ordered' /\ Forward
    BY DebounceTypeStep, AloneStep, HalfStoredStep
  <2>0. \A k \in Keys : objects[k] \in Nat /\ published[k] \in Nat
                        /\ \A p \in Passes : snap[p][k] \in Nat
    BY VersionAssumption DEF DebounceTypeOK, Version
  <2> USE DEF DebounceTypeOK, Ordered, Reading, Serialized
  <2>1. CASE Environment
    BY <2>0, <2>1 DEF Environment, StoreWrite
  <2>2. ASSUME NEW c \in Callers, CallFirst(c) \/ CallFirstReturn(c) \/ CallArm(c)
        PROVE Ordered' /\ Forward
    <3>1. /\ UNCHANGED <<reload, objects, unread, snap, published>>
          /\ \A p \in Passes : Reading(p)' => Reading(p)
      BY <2>2 DEF CallFirst, CallFirstReturn, CallArm, Passes
    <3> QED BY <2>0, <3>1
  <2>3. ASSUME NEW g \in Timers, Fire(g) PROVE Ordered' /\ Forward
    BY <2>0, <2>3 DEF Fire, Passes
  <2>4. ASSUME NEW p \in Passes, BeginPass(p) PROVE Ordered' /\ Forward
    BY <2>0, <2>4 DEF BeginPass
  <2>5. ASSUME NEW p \in Passes, PublishPass(p) PROVE Ordered' /\ Forward
    BY <2>0, <2>5 DEF PublishPass
  <2>6. ASSUME NEW p \in Passes, NEW k \in Keys, ReadKey(p, k) PROVE Ordered' /\ Forward
    BY <2>0, <2>6 DEF ReadKey
  <2>7. ASSUME NEW p \in Passes, NEW k \in Keys, PanicPass(p, k) PROVE Ordered' /\ Forward
    BY <2>0, <2>7 DEF PanicPass
  <2>8. ASSUME NEW p \in Passes, StoreGlobal(p) PROVE Ordered' /\ Forward
    <3>1. \A q \in Passes \ {p} : ~Reading(q)
      BY <2>8 DEF StoreGlobal, Alone
    <3>2. \A k \in Keys : published[k] <= snap[p][k]
      BY <2>8 DEF StoreGlobal
    <3> QED BY <2>0, <2>8, <3>1, <3>2 DEF StoreGlobal, Stored
  <2>9. ASSUME NEW p \in Passes, StoreZones(p) PROVE Ordered' /\ Forward
    <3>1. \A q \in Passes \ {p} : ~Reading(q)
      BY <2>9 DEF StoreZones, Alone
    <3>2. \A k \in Keys : published[k] <= snap[p][k]
      BY <2>9 DEF StoreZones, HalfStored
    <3> QED BY <2>0, <2>9, <3>1, <3>2 DEF StoreZones, Stored
  <2>10. CASE UNCHANGED debounceVars
    BY <2>0, <2>10 DEF debounceVars
  <2> QED
    BY <2>1, <2>2, <2>3, <2>4, <2>5, <2>6, <2>7, <2>8, <2>9, <2>10
    DEF DebounceNext, System, CallStep, PassStep, Done
<1> QED
  BY <1>1, <1>2, PTL DEF DebounceSpec, NoRegress
=============================================================================
