---------------------------- MODULE RemintProofs ----------------------------
(***************************************************************************)
(* Proofs about the re-mint coordinator, for any rotation of CAs, any      *)
(* number of replicas and pollers and any limits of the breakers.          *)
(*                                                                         *)
(* That the store is whole when nobody is storing rests on an ordering the *)
(* code never states: a poller can only see a mismatch, and so start a     *)
(* mint, once the mint of main has stored its CA id.  Of the three stores  *)
(* of main only the last can therefore interleave with a coordinated mint. *)
(***************************************************************************)
EXTENDS Remint, TLAPS

StoreType == [cur : Vers, caid : SUBSET CAs, fp : SUBSET CAs]
BootType == [pc : {"fetch", "cur", "caid", "fp", "done"}, leaf : Vers]
MintType == [pc : {"idle", "start", "fetch", "cur", "caid", "fp", "score", "end"},
             trigger : {"proactive", "reactive", "timer"}, target : Targets,
             before : [ca : SUBSET CAs, fp : SUBSET CAs], leaf : Vers, ok : BOOLEAN]
PollType == [pc : {"idle", "ca", "fp", "trigger"}, target : Targets, live : SUBSET CAs]
Breaker(limit) == [count : 0 .. limit, open : BOOLEAN]

\* TypeOK with the fields of every record.
Types ==
    /\ replica \in [Replicas -> 1 .. N]
    /\ store \in StoreType
    /\ boot \in BootType
    /\ mint \in MintType
    /\ lastTarget \in Targets
    /\ reactive \in Breaker(BreakerK)
    /\ proactive \in Breaker(ProactiveJ)
    /\ poll \in [Pollers -> PollType]
    /\ raced \in BOOLEAN
    /\ futile \in 0 .. BreakerK + 1

\* Until main has stored its CA id the store is empty, but for the leaf, and
\* nobody has seen a mismatch.
BeforeBoot ==
    boot.pc \in {"fetch", "cur", "caid"} =>
        /\ mint.pc = "idle" /\ ~raced
        /\ store.cur = (IF boot.pc = "caid" THEN boot.leaf ELSE 0)
        /\ store.caid = {} /\ store.fp = {}
        /\ \A p \in Pollers : poll[p].live = {} /\ poll[p].pc # "trigger"

\* At the last store of main a mint in flight is known to overlap.
AtLastStore ==
    boot.pc = "fp" =>
        /\ mint.pc # "idle" => raced
        /\ raced \/ (store.cur = boot.leaf /\ store.caid = CAID(boot.leaf))

\* What a coordinated mint has stored stays until it has stored the rest.
MidUpdate ==
    /\ mint.pc \in {"caid", "fp"} => store.cur = mint.leaf
    /\ mint.pc = "fp" => store.caid = CAID(mint.leaf)

\* After main, the store is whole between two mints.
AfterBoot == (boot.pc = "done" /\ mint.pc \notin {"caid", "fp"}) => Whole \/ raced

StoreInv == Types /\ BeforeBoot /\ AtLastStore /\ MidUpdate /\ AfterBoot

\* The breaker opens with the last futile mint it allows, and no reactive mint
\* is in flight that began after that.
BreakerInv ==
    /\ futile <= reactive.count
    /\ futile = BreakerK => reactive.open
    /\ (mint.pc \notin {"idle", "end"} /\ mint.trigger = "reactive") => futile < BreakerK

-----------------------------------------------------------------------------
\* Versions are numbers and 0 is none of them; a version that a replica serves
\* can be held by the store.
LEMMA VersNat == N \in Nat /\ 0 \in Vers /\ Vers \subseteq Nat /\ 1 .. N \subseteq Vers
  BY VersionsAssumption DEF Vers

\* The CA id and the fingerprint of a version are sets of known CAs.
LEMMA TargetTyped ==
    ASSUME NEW v \in Vers
    PROVE  /\ CAID(v) \in SUBSET CAs /\ SignerFP(v) \in SUBSET CAs
           /\ Target(v) \in Targets
<1>1. v # 0 => v \in 1 .. N
  BY VersNat DEF Vers
<1>2. CAID(v) \in SUBSET CAs
  BY <1>1 DEF CAID, CAs
<1>3. SignerFP(v) \in SUBSET CAs
  BY <1>1, VersionsAssumption DEF SignerFP, CAs
<1> QED
  BY <1>2, <1>3 DEF Targets

\* A target is a CA id and a fingerprint.
LEMMA TargetFields == Targets \subseteq [ca : SUBSET CAs, fp : SUBSET CAs]
<1> SUFFICES ASSUME NEW v \in Vers PROVE Target(v) \in [ca : SUBSET CAs, fp : SUBSET CAs]
  BY DEF Targets
<1> QED
  BY TargetTyped DEF Target

\* No version: no CA id, no fingerprint.
LEMMA NothingKnown == CAID(0) = {} /\ SignerFP(0) = {}
  BY DEF CAID, SignerFP

\* The records at rest.
LEMMA RestTyped == NoMint \in MintType /\ Idle \in PollType
<1>1. Target(0) \in Targets
  BY TargetTyped, VersNat
<1>2. Target(0) \in [ca : SUBSET CAs, fp : SUBSET CAs]
  BY <1>1, TargetFields
<1>3. 0 \in Vers
  BY VersNat
<1>4. NoMint \in MintType
  BY <1>1, <1>2, <1>3 DEF NoMint, MintType
<1>5. Idle \in PollType
  BY <1>1 DEF Idle, PollType
<1> QED
  BY <1>4, <1>5

\* One more futile mint leaves a breaker a breaker.
LEMMA FutileTyped ==
    ASSUME NEW limit \in Nat \ {0}, NEW b \in Breaker(limit)
    PROVE  Futile(b, limit) \in Breaker(limit)
  BY DEF Futile, Breaker

\* A trigger starts a mint or changes nothing of it.
LEMMA TriggerTyped ==
    ASSUME Types, NEW t \in {"proactive", "reactive", "timer"}, Trigger(t)
    PROVE  mint' \in MintType /\ raced' \in BOOLEAN
<1>1. [NoMint EXCEPT !.pc = "start", !.trigger = t] \in MintType
  BY RestTyped DEF MintType
<1> QED
  BY <1>1 DEF Trigger, Types

\* One of the three stores of an update leaves a store.
LEMMA UpdateTyped ==
    ASSUME Types, NEW pc, NEW v \in Vers, UpdateStep(pc, v)
    PROVE  store' \in StoreType
<1>1. [store EXCEPT !.cur = v] \in StoreType
  BY DEF Types, StoreType
<1>2. [store EXCEPT !.caid = CAID(v)] \in StoreType
  BY TargetTyped DEF Types, StoreType
<1>3. [store EXCEPT !.fp = SignerFP(v)] \in StoreType
  BY TargetTyped DEF Types, StoreType
<1> QED
  BY <1>1, <1>2, <1>3 DEF UpdateStep, StoreCur, StoreCAID, StoreFP

-----------------------------------------------------------------------------
\* The process starts with well-formed state.
LEMMA TypesInit == Init => Types
<1> SUFFICES ASSUME Init PROVE Types
  OBVIOUS
<1> USE VersNat, TargetTyped, RestTyped, BreakerAssumption DEF Init
<1>1. replica \in [Replicas -> 1 .. N]
  BY VersionsAssumption
<1>2. store \in StoreType /\ boot \in BootType
  BY DEF StoreType, BootType
<1>3. reactive \in Breaker(BreakerK) /\ proactive \in Breaker(ProactiveJ)
  BY DEF Breaker
<1>4. poll \in [Pollers -> PollType]
  OBVIOUS
<1>5. mint \in MintType /\ lastTarget \in Targets /\ raced \in BOOLEAN
  OBVIOUS
<1>6. futile \in 0 .. BreakerK + 1
  OBVIOUS
<1> QED
  BY <1>1, <1>2, <1>3, <1>4, <1>5, <1>6 DEF Types

\* Every step keeps the state well-formed.
LEMMA TypesStep == Types /\ [Next]_vars => Types'
<1> SUFFICES ASSUME Types, [Next]_vars PROVE Types'
  OBVIOUS
<1> USE VersNat, RestTyped, BreakerAssumption
<1>1. CASE CooldownReactive
  <2>1. [reactive EXCEPT !.open = FALSE] \in Breaker(BreakerK)
    BY Zenon DEF Types, Breaker
  <2> QED
    BY <1>1, <2>1 DEF CooldownReactive, Types
<1>2. CASE CooldownProactive
  <2>1. [proactive EXCEPT !.open = FALSE] \in Breaker(ProactiveJ)
    BY Zenon DEF Types, Breaker
  <2> QED
    BY <1>2, <2>1 DEF CooldownProactive, Types
<1>3. CASE BootFetch
  <2>1. boot' \in BootType
    BY <1>3 DEF BootFetch, Types, BootType
  <2> QED
    BY <1>3, <2>1 DEF BootFetch, Types, breakers
<1>4. CASE BootUpdate
  <2>1. boot.leaf \in Vers
    BY DEF Types, BootType
  <2>2. store' \in StoreType
    BY <1>4, <2>1, UpdateTyped DEF BootUpdate
  <2>3. boot' \in BootType
    BY <1>4 DEF BootUpdate, AfterUpdate, Types, BootType
  <2> QED
    BY <1>4, <2>2, <2>3 DEF BootUpdate, Types, breakers
<1>5. CASE CoreRejects
  BY <1>5, TriggerTyped DEF CoreRejects, Types, breakers
<1>6. CASE MaybeRenew
  BY <1>6, TriggerTyped DEF MaybeRenew, Types, breakers
<1>7. CASE Start
  <2>1. [ca |-> store.caid, fp |-> store.fp] \in [ca : SUBSET CAs, fp : SUBSET CAs]
    BY DEF Types, StoreType
  <2>2. mint' \in MintType
    BY <1>7, <2>1 DEF Start, Types, MintType
  <2> QED
    BY <1>7, <2>2 DEF Start, Types, breakers
<1>8. CASE FetchFails
  <2>1. mint' \in MintType
    BY <1>8 DEF FetchFails, Types, MintType
  <2> QED
    BY <1>8, <2>1 DEF FetchFails, Types, breakers
<1>9. CASE MintPanics
  <2>1. mint' \in MintType
    BY <1>9 DEF MintPanics, MintType
  <2> QED
    BY <1>9, <2>1 DEF MintPanics, Types, breakers
<1>10. CASE MintUpdate
  <2>1. mint.leaf \in Vers
    BY DEF Types, MintType
  <2>2. store' \in StoreType
    BY <1>10, <2>1, UpdateTyped DEF MintUpdate
  <2>3. mint' \in MintType
    <3>1. mint \in MintType /\ AfterUpdate[mint.pc] \in {"caid", "fp", "score"}
      BY <1>10 DEF MintUpdate, AfterUpdate, Types
    <3>2. ASSUME NEW v \in Vers
          PROVE  [mint EXCEPT !.pc = AfterUpdate[@], !.leaf = v] \in MintType
      BY <3>1 DEF MintType
    <3> QED
      BY <1>10, <2>1, <3>2 DEF MintUpdate
  <2>4. raced' \in BOOLEAN
    BY <1>10 DEF MintUpdate
  <2> QED
    BY <1>10, <2>2, <2>3, <2>4 DEF MintUpdate, Types, breakers
<1>11. CASE Score
  <2>1. mint' \in MintType
    <3>1. mint.ok \in BOOLEAN
      BY DEF Types, MintType
    <3> QED
      BY <1>11, <3>1 DEF Score, MintType
  <2>2. Cleared \in Breaker(BreakerK) /\ Cleared \in Breaker(ProactiveJ)
    BY DEF Cleared, Breaker
  <2>3. reactive' \in Breaker(BreakerK)
    BY <1>11, <2>2, FutileTyped DEF Score, Types
  <2>4. proactive' \in Breaker(ProactiveJ)
    BY <1>11, <2>2, FutileTyped DEF Score, Types
  <2>5. futile' \in 0 .. BreakerK + 1
    BY <1>11 DEF Score, Types
  <2> QED
    BY <1>11, <2>1, <2>3, <2>4, <2>5 DEF Score, Types
<1>12. CASE EndMint
  BY <1>12 DEF EndMint, Types, breakers
<1>13. ASSUME NEW r \in Replicas, Advance(r)
       PROVE  Types'
  BY <1>13 DEF Advance, Types, breakers
<1>14. ASSUME NEW r \in Replicas, FetchOK(r)
       PROVE  Types'
  <2>1. replica[r] \in Vers
    BY DEF Types
  <2>2. mint' \in MintType
    BY <1>14, <2>1 DEF FetchOK, Types, MintType
  <2> QED
    BY <1>14, <2>2 DEF FetchOK, Types, breakers
<1>15. ASSUME NEW p \in Pollers, LoadCA(p)
       PROVE  Types'
  <2>1. store.caid \in SUBSET CAs /\ poll[p] \in PollType
    BY DEF Types, StoreType
  <2>2. [[poll[p] EXCEPT !.live = store.caid] EXCEPT !.pc = "fp"] \in PollType
    BY <2>1 DEF PollType
  <2>3. poll' \in [Pollers -> PollType]
    BY <1>15, <2>2 DEF LoadCA, Types
  <2> QED
    BY <1>15, <2>3 DEF LoadCA, Types, breakers
<1>16. ASSUME NEW p \in Pollers, SetTarget(p)
       PROVE  Types'
  <2>1. poll[p].target \in Targets
    BY DEF Types, PollType
  <2>2. [Idle EXCEPT !.pc = "trigger"] \in PollType
    BY DEF PollType
  <2>3. poll' \in [Pollers -> PollType]
    BY <1>16, <2>2 DEF SetTarget, Types
  <2> QED
    BY <1>16, <2>1, <2>3 DEF SetTarget, Types, breakers
<1>17. ASSUME NEW p \in Pollers, Observed(p)
       PROVE  Types'
  <2>1. poll' \in [Pollers -> PollType]
    BY <1>17 DEF Observed, Types
  <2> QED
    BY <1>17, <2>1, TriggerTyped DEF Observed, Types, breakers
<1>18. ASSUME NEW p \in Pollers, NEW r \in Replicas, Poll(p, r)
       PROVE  Types'
  <2>1. Target(replica[r]) \in Targets
    BY TargetTyped DEF Types
  <2>2. [Idle EXCEPT !.pc = "ca", !.target = Target(replica[r])] \in PollType
    BY <2>1 DEF PollType
  <2>3. poll' \in [Pollers -> PollType]
    BY <1>18, <2>2 DEF Poll, Types
  <2> QED
    BY <1>18, <2>3 DEF Poll, Types, breakers
<1>19. CASE UNCHANGED vars
  BY <1>19 DEF vars, breakers, Types
<1> QED
  BY <1>1, <1>2, <1>3, <1>4, <1>5, <1>6, <1>7, <1>8, <1>9, <1>10, <1>11, <1>12,
     <1>13, <1>14, <1>15, <1>16, <1>17, <1>18, <1>19 DEF Next

-----------------------------------------------------------------------------
(* The store.                                                              *)

\* A mismatch needs something the store knows.
LEMMA MismatchKnows ==
    ASSUME NEW p \in Pollers, store.fp = {}, poll[p].live = {}
    PROVE  ~Mismatch(p)
  BY DEF Mismatch

\* A trigger before the last store of main would break BeforeBoot; one at the
\* last store of main is recorded, and one after it does not touch the store.
LEMMA TriggerStore ==
    ASSUME StoreInv, NEW t, Trigger(t), boot.pc \in {"fp", "done"},
           UNCHANGED <<store, boot>>
    PROVE  BeforeBoot' /\ AtLastStore' /\ MidUpdate' /\ AfterBoot'
<1>1. CASE mint' = mint /\ raced' = raced
  BY <1>1 DEF StoreInv, BeforeBoot, AtLastStore, MidUpdate, AfterBoot, Whole
<1>2. CASE mint.pc = "idle" /\ mint'.pc = "start" /\ raced' = (raced \/ boot.pc # "done")
  BY <1>2 DEF StoreInv, BeforeBoot, AtLastStore, MidUpdate, AfterBoot, Whole
<1>3. [NoMint EXCEPT !.pc = "start", !.trigger = t].pc = "start"
  BY DEF NoMint
<1> QED
  BY <1>1, <1>2, <1>3 DEF Trigger, StoreInv, Types

\* A step that leaves the store to others, and the mint where it stores nothing.
LEMMA StoreApart ==
    ASSUME StoreInv, UNCHANGED <<store, boot, raced>>,
           mint.pc # "idle", mint'.pc \notin {"caid", "fp"}, mint.pc \notin {"caid", "fp"}
    PROVE  BeforeBoot' /\ AtLastStore' /\ MidUpdate' /\ AfterBoot'
  BY DEF StoreInv, BeforeBoot, AtLastStore, MidUpdate, AfterBoot, Whole

\* A step that changes none of what StoreInv speaks of but the polls.
LEMMA OnlyPolls ==
    ASSUME StoreInv, UNCHANGED <<store, boot, mint, raced>>,
           boot.pc \in {"fetch", "cur", "caid"} =>
               \A p \in Pollers : poll'[p].live = {} /\ poll'[p].pc # "trigger"
    PROVE  BeforeBoot' /\ AtLastStore' /\ MidUpdate' /\ AfterBoot'
  BY DEF StoreInv, BeforeBoot, AtLastStore, MidUpdate, AfterBoot, Whole

\* The store is empty when the process starts.
LEMMA StoreInvInit == Init => StoreInv
<1> SUFFICES ASSUME Init PROVE StoreInv
  OBVIOUS
<1>1. Types
  BY TypesInit
<1>2. BeforeBoot /\ AtLastStore /\ MidUpdate /\ AfterBoot
  BY DEF Init, BeforeBoot, AtLastStore, MidUpdate, AfterBoot, NoMint, Idle
<1> QED
  BY <1>1, <1>2 DEF StoreInv

\* Every step keeps what is known of the store.
LEMMA StoreInvStep == StoreInv /\ [Next]_vars => StoreInv'
<1> SUFFICES ASSUME StoreInv, [Next]_vars
             PROVE  BeforeBoot' /\ AtLastStore' /\ MidUpdate' /\ AfterBoot'
  BY TypesStep DEF StoreInv
<1>1. CASE CooldownReactive
  BY <1>1, OnlyPolls DEF CooldownReactive, StoreInv, BeforeBoot
<1>2. CASE CooldownProactive
  BY <1>2, OnlyPolls DEF CooldownProactive, StoreInv, BeforeBoot
<1>3. CASE BootFetch
  BY <1>3, NothingKnown
     DEF BootFetch, StoreInv, BeforeBoot, AtLastStore, MidUpdate, AfterBoot, Whole
<1>4. CASE BootUpdate
  <2> USE DEF BootUpdate, UpdateStep
  <2>0. boot \in BootType /\ store \in StoreType
    BY DEF StoreInv, Types
  <2>1. CASE boot.pc = "cur"
    <3>1. boot'.pc = "caid" /\ boot'.leaf = boot.leaf
      BY <1>4, <2>0, <2>1 DEF AfterUpdate, BootType
    <3>2. store'.cur = boot.leaf /\ store'.caid = store.caid /\ store'.fp = store.fp
      BY <1>4, <2>0, <2>1 DEF StoreCur, StoreType
    <3> QED
      BY <1>4, <2>1, <3>1, <3>2
         DEF StoreInv, BeforeBoot, AtLastStore, MidUpdate, AfterBoot
  <2>2. CASE boot.pc = "caid"
    <3>1. boot'.pc = "fp" /\ boot'.leaf = boot.leaf
      BY <1>4, <2>0, <2>2 DEF AfterUpdate, BootType
    <3>2. store'.cur = store.cur /\ store'.caid = CAID(boot.leaf)
      BY <1>4, <2>0, <2>2 DEF StoreCAID, StoreType
    <3> QED
      BY <1>4, <2>2, <3>1, <3>2
         DEF StoreInv, BeforeBoot, AtLastStore, MidUpdate, AfterBoot
  <2>3. CASE boot.pc = "fp"
    <3>1. boot'.pc = "done"
      BY <1>4, <2>3
    <3>2. store'.cur = store.cur /\ store'.caid = store.caid /\ store'.fp = SignerFP(boot.leaf)
      BY <1>4, <2>0, <2>3 DEF StoreFP, StoreType
    <3>3. mint' = mint /\ raced' = raced
      BY <1>4
    <3> QED
      BY <2>3, <3>1, <3>2, <3>3
         DEF StoreInv, BeforeBoot, AtLastStore, MidUpdate, AfterBoot, Whole
  <2> QED
    BY <1>4, <2>1, <2>2, <2>3
<1>5. CASE CoreRejects
  BY <1>5, TriggerStore DEF CoreRejects
<1>6. CASE MaybeRenew
  BY <1>6, TriggerStore DEF MaybeRenew
<1>7. CASE Start
  BY <1>7, StoreApart DEF Start, StoreInv, Types, MintType
<1>8. CASE FetchFails
  BY <1>8, StoreApart DEF FetchFails, StoreInv, Types, MintType
<1>9. CASE MintPanics
  BY <1>9, StoreApart DEF MintPanics, NoMint
<1>10. CASE MintUpdate
  <2> USE DEF MintUpdate, UpdateStep
  <2>0. mint \in MintType /\ store \in StoreType /\ boot \in BootType
    BY DEF StoreInv, Types
  <2>1. boot.pc \in {"fp", "done"} /\ boot' = boot
    BY <1>10, <2>0 DEF StoreInv, BeforeBoot, BootType
  <2>2. CASE mint.pc = "cur"
    <3>1. mint'.pc = "caid" /\ mint'.leaf = mint.leaf
      BY <1>10, <2>0, <2>2 DEF AfterUpdate, MintType
    <3>2. store'.cur = mint.leaf
      BY <1>10, <2>0, <2>2 DEF StoreCur, StoreType
    <3> QED
      BY <1>10, <2>1, <2>2, <3>1, <3>2
         DEF StoreInv, BeforeBoot, AtLastStore, MidUpdate, AfterBoot
  <2>3. CASE mint.pc = "caid"
    <3>1. mint'.pc = "fp" /\ mint'.leaf = mint.leaf
      BY <1>10, <2>0, <2>3 DEF AfterUpdate, MintType
    <3>2. store'.cur = store.cur /\ store'.caid = CAID(mint.leaf)
      BY <1>10, <2>0, <2>3 DEF StoreCAID, StoreType
    <3> QED
      BY <1>10, <2>1, <2>3, <3>1, <3>2
         DEF StoreInv, BeforeBoot, AtLastStore, MidUpdate, AfterBoot
  <2>4. CASE mint.pc = "fp"
    <3>1. mint'.pc = "score"
      BY <1>10, <2>0, <2>4 DEF AfterUpdate, MintType
    <3>2. store'.cur = store.cur /\ store'.caid = store.caid /\ store'.fp = SignerFP(mint.leaf)
      BY <1>10, <2>0, <2>4 DEF StoreFP, StoreType
    <3> QED
      BY <1>10, <2>1, <2>4, <3>1, <3>2
         DEF StoreInv, BeforeBoot, AtLastStore, MidUpdate, AfterBoot, Whole
  <2> QED
    BY <1>10, <2>2, <2>3, <2>4
<1>11. CASE Score
  BY <1>11, StoreApart DEF Score, NoMint
<1>12. CASE EndMint
  <2>1. mint'.pc = "idle" /\ mint.pc = "end" /\ UNCHANGED <<store, boot, raced>>
    BY <1>12 DEF EndMint, NoMint
  <2> QED
    BY <2>1 DEF StoreInv, BeforeBoot, AtLastStore, MidUpdate, AfterBoot, Whole
<1>13. ASSUME NEW r \in Replicas, Advance(r)
       PROVE  BeforeBoot' /\ AtLastStore' /\ MidUpdate' /\ AfterBoot'
  BY <1>13, OnlyPolls DEF Advance, StoreInv, BeforeBoot
<1>14. ASSUME NEW r \in Replicas, FetchOK(r)
       PROVE  BeforeBoot' /\ AtLastStore' /\ MidUpdate' /\ AfterBoot'
  BY <1>14, StoreApart DEF FetchOK, StoreInv, Types, MintType
<1>15. ASSUME NEW p \in Pollers, LoadCA(p)
       PROVE  BeforeBoot' /\ AtLastStore' /\ MidUpdate' /\ AfterBoot'
  <2>1. boot.pc \in {"fetch", "cur", "caid"} =>
            \A q \in Pollers : poll'[q].live = {} /\ poll'[q].pc # "trigger"
    BY <1>15 DEF LoadCA, StoreInv, BeforeBoot, Types, PollType
  <2> QED
    BY <1>15, <2>1, OnlyPolls DEF LoadCA
<1>16. ASSUME NEW p \in Pollers, SetTarget(p)
       PROVE  BeforeBoot' /\ AtLastStore' /\ MidUpdate' /\ AfterBoot'
  <2>1. Idle.live = {} /\ Idle.pc # "trigger"
    BY DEF Idle
  <2>2. boot.pc \in {"fetch", "cur", "caid"} =>
            \A q \in Pollers : poll'[q].live = {} /\ poll'[q].pc # "trigger"
    BY <1>16, <2>1, MismatchKnows DEF SetTarget, StoreInv, BeforeBoot, Types
  <2> QED
    BY <1>16, <2>2, OnlyPolls DEF SetTarget
<1>17. ASSUME NEW p \in Pollers, Observed(p)
       PROVE  BeforeBoot' /\ AtLastStore' /\ MidUpdate' /\ AfterBoot'
  <2>1. boot.pc \in {"fp", "done"}
    BY <1>17 DEF Observed, StoreInv, BeforeBoot, Types, BootType
  <2> QED
    BY <1>17, <2>1, TriggerStore DEF Observed
<1>18. ASSUME NEW p \in Pollers, NEW r \in Replicas, Poll(p, r)
       PROVE  BeforeBoot' /\ AtLastStore' /\ MidUpdate' /\ AfterBoot'
  <2>1. [Idle EXCEPT !.pc = "ca", !.target = Target(replica[r])].live = {}
        /\ [Idle EXCEPT !.pc = "ca", !.target = Target(replica[r])].pc = "ca"
    BY DEF Idle
  <2>2. boot.pc \in {"fetch", "cur", "caid"} =>
            \A q \in Pollers : poll'[q].live = {} /\ poll'[q].pc # "trigger"
    BY <1>18, <2>1 DEF Poll, StoreInv, BeforeBoot, Types
  <2> QED
    BY <1>18, <2>2, OnlyPolls DEF Poll
<1>19. CASE UNCHANGED vars
  BY <1>19, OnlyPolls DEF vars, StoreInv, BeforeBoot
<1> QED
  BY <1>1, <1>2, <1>3, <1>4, <1>5, <1>6, <1>7, <1>8, <1>9, <1>10, <1>11, <1>12,
     <1>13, <1>14, <1>15, <1>16, <1>17, <1>18, <1>19 DEF Next

-----------------------------------------------------------------------------
(* The reactive breaker.                                                   *)

\* A trigger does not start a reactive mint once the breaker is open.
LEMMA TriggerBreaker ==
    ASSUME Types, BreakerInv, NEW t \in {"proactive", "reactive", "timer"}, Trigger(t),
           UNCHANGED <<reactive, futile>>
    PROVE  BreakerInv'
<1>1. CASE mint' = mint
  BY <1>1 DEF BreakerInv
<1>2. CASE mint'.trigger = t /\ ~(t = "reactive" /\ reactive.open)
  <2>1. mint'.trigger = "reactive" => futile < BreakerK
    BY <1>2, BreakerAssumption DEF BreakerInv, Types, Breaker
  <2> QED
    BY <2>1 DEF BreakerInv
<1>3. [NoMint EXCEPT !.pc = "start", !.trigger = t].trigger = t
  BY DEF NoMint
<1> QED
  BY <1>1, <1>2, <1>3 DEF Trigger

\* A step that leaves the breaker alone and starts no reactive mint.
LEMMA BreakerApart ==
    ASSUME BreakerInv, UNCHANGED <<reactive, futile>>,
           (mint'.pc \notin {"idle", "end"} /\ mint'.trigger = "reactive")
               => (mint.pc \notin {"idle", "end"} /\ mint.trigger = "reactive")
    PROVE  BreakerInv'
  BY DEF BreakerInv

\* Every step keeps the accounts of the breaker.
LEMMA BreakerInvStep == Types /\ BreakerInv /\ [Next]_vars => BreakerInv'
<1> SUFFICES ASSUME Types, BreakerInv, [Next]_vars PROVE BreakerInv'
  OBVIOUS
<1> USE BreakerAssumption
<1>0. mint \in MintType
  BY DEF Types
<1>1. CASE CooldownReactive
  <2>1. reactive'.count = reactive.count /\ reactive.count \in Nat
    BY <1>1 DEF CooldownReactive, Types, Breaker
  <2> QED
    BY <1>1, <2>1 DEF CooldownReactive, BreakerInv
<1>2. CASE CooldownProactive
  BY <1>2, BreakerApart DEF CooldownProactive
<1>3. CASE BootFetch
  BY <1>3, BreakerApart DEF BootFetch, breakers
<1>4. CASE BootUpdate
  BY <1>4, BreakerApart DEF BootUpdate, breakers
<1>5. CASE CoreRejects
  BY <1>5, TriggerBreaker DEF CoreRejects, breakers
<1>6. CASE MaybeRenew
  BY <1>6, TriggerBreaker DEF MaybeRenew, breakers
<1>7. CASE Start
  BY <1>0, <1>7, BreakerApart DEF Start, breakers, MintType
<1>8. CASE FetchFails
  BY <1>0, <1>8, BreakerApart DEF FetchFails, breakers, MintType
<1>9. CASE MintPanics
  BY <1>9, BreakerApart DEF MintPanics, breakers, NoMint
<1>10. CASE MintUpdate
  BY <1>0, <1>10, BreakerApart DEF MintUpdate, breakers, MintType
<1>11. CASE Score
  <2>1. mint'.pc = "end"
    BY <1>11 DEF Score, NoMint
  <2>2. reactive.count \in 0 .. BreakerK /\ futile \in Nat
    BY DEF Types, Breaker
  <2>3. CASE reactive' = reactive /\ futile' = futile
    BY <2>1, <2>3 DEF BreakerInv
  <2>4. CASE reactive' = Cleared /\ futile' = 0
    BY <2>1, <2>4 DEF BreakerInv, Cleared
  <2>5. CASE mint.trigger = "reactive" /\ reactive' = Futile(reactive, BreakerK) /\ futile' = futile + 1
    <3>1. futile < BreakerK
      BY <1>11, <2>5 DEF Score, BreakerInv
    <3>2. reactive'.count = IF reactive.count < BreakerK THEN reactive.count + 1 ELSE BreakerK
      BY <2>5 DEF Futile
    <3>3. reactive'.count = BreakerK => reactive'.open
      BY <2>5 DEF Futile
    <3>4. futile <= reactive.count
      BY DEF BreakerInv
    <3>5. futile' <= reactive'.count
      BY <2>2, <2>5, <3>1, <3>2, <3>4
    <3>6. futile' = BreakerK => reactive'.count = BreakerK
      BY <2>2, <2>5, <3>2, <3>4
    <3> QED
      BY <2>1, <3>3, <3>5, <3>6 DEF BreakerInv
  <2>6. mint.trigger = "reactive" => futile <= BreakerK
    BY <1>11, <2>2 DEF Score, BreakerInv
  <2> QED
    BY <1>11, <2>3, <2>4, <2>5, <2>6 DEF Score
<1>12. CASE EndMint
  BY <1>12, BreakerApart DEF EndMint, breakers, NoMint
<1>13. ASSUME NEW r \in Replicas, Advance(r)
       PROVE  BreakerInv'
  BY <1>13, BreakerApart DEF Advance, breakers
<1>14. ASSUME NEW r \in Replicas, FetchOK(r)
       PROVE  BreakerInv'
  BY <1>0, <1>14, BreakerApart DEF FetchOK, breakers, MintType
<1>15. ASSUME NEW p \in Pollers,
              LoadCA(p) \/ SetTarget(p) \/ (\E r \in Replicas : Poll(p, r))
       PROVE  BreakerInv'
  BY <1>15, BreakerApart DEF LoadCA, SetTarget, Poll, breakers
<1>16. ASSUME NEW p \in Pollers, Observed(p)
       PROVE  BreakerInv'
  BY <1>16, TriggerBreaker DEF Observed, breakers
<1>17. CASE UNCHANGED vars
  BY <1>17, BreakerApart DEF vars, breakers
<1> QED
  BY <1>1, <1>2, <1>3, <1>4, <1>5, <1>6, <1>7, <1>8, <1>9, <1>10, <1>11, <1>12,
     <1>13, <1>14, <1>15, <1>16, <1>17 DEF Next

\* No mint has been futile and none is in flight when the process starts.
LEMMA BreakerInvInit == Init => BreakerInv
  BY BreakerAssumption DEF Init, BreakerInv, NoMint

-----------------------------------------------------------------------------
\* The state is well-formed: the store holds a leaf of some version, and the
\* counters of the breakers stay within their limits.
THEOREM TypeCorrect == Spec => []TypeOK
<1>1. Types => TypeOK
  <2> SUFFICES ASSUME Types PROVE TypeOK
    OBVIOUS
  <2>1. mint.before \in [ca : SUBSET CAs, fp : SUBSET CAs]
    BY DEF Types, MintType
  <2>2. {mint.before.ca, mint.before.fp} \subseteq SUBSET CAs
    BY <2>1
  <2>3. store.cur \in Vers /\ store.caid \in SUBSET CAs /\ store.fp \in SUBSET CAs
    BY DEF Types, StoreType
  <2>4. /\ mint.pc \in {"idle", "start", "fetch", "cur", "caid", "fp", "score", "end"}
        /\ mint.trigger \in {"proactive", "reactive", "timer"}
        /\ mint.target \in Targets /\ mint.leaf \in Vers /\ mint.ok \in BOOLEAN
    BY DEF Types, MintType
  <2>5. \A p \in Pollers : poll[p].pc \in {"idle", "ca", "fp", "trigger"} /\ poll[p].target \in Targets
    BY DEF Types, PollType
  <2> QED
    BY <2>2, <2>3, <2>4, <2>5 DEF Types, TypeOK, BootType, Breaker
<1> QED
  BY <1>1, TypesInit, TypesStep, PTL DEF Spec

\* Certificate, CA id and fingerprint of the store describe one leaf whenever
\* no mint is storing, unless a coordinated mint overlapped that of main: the
\* three stores of Update are never seen half done by the next mint.
THEOREM StoreWholeHolds == Spec => []StoreWholeAtRest
<1>1. StoreInv => StoreWholeAtRest
  BY NothingKnown DEF StoreInv, BeforeBoot, AfterBoot, StoreWholeAtRest, Whole
<1> QED
  BY <1>1, StoreInvInit, StoreInvStep, PTL DEF Spec

\* A core that rejects every leaf causes at most BreakerK mints without effect
\* until a cooldown passes or the leaf changes, however triggers, mints and
\* cooldowns interleave.
THEOREM FutileBounded == Spec => []FutileMintsBounded
<1>1. Types /\ BreakerInv => FutileMintsBounded
  BY BreakerAssumption DEF Types, BreakerInv, FutileMintsBounded, Breaker
<1>2. Init => Types /\ BreakerInv
  BY TypesInit, BreakerInvInit
<1>3. (Types /\ BreakerInv) /\ [Next]_vars => (Types /\ BreakerInv)'
  BY TypesStep, BreakerInvStep
<1> QED
  BY <1>1, <1>2, <1>3, PTL DEF Spec
=============================================================================
