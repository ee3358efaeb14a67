------------------------------- MODULE Remint -------------------------------
(***************************************************************************)
(* The client certificate of an edge and its re-mint coordinator           *)
(* (edge/remint.go, edge/clientcert.go, edge/refresh.go and the wiring in  *)
(* cmd/edge-proxy/main.go).  Pollers learn the CA id and the signer of the *)
(* control plane from the replica that happens to answer, compare them     *)
(* with the leaf in the store and trigger a mint; the core's rejections    *)
(* and a timer trigger mints, too.  At most one mint of the coordinator is *)
(* in flight, and two circuit breakers stop mints that achieve nothing.    *)
(*                                                                         *)
(* Of the control plane only its signer is here: replica r serves version  *)
(* replica[r] of the CA Secret, a set of CAs (the CA id) and the CA that   *)
(* signs (the fingerprint), and a reload may take it over several versions *)
(* at once; a replica without a signer is one that fails to answer.        *)
(* Jitter, backoff and cooldown are only time.                             *)
(***************************************************************************)
EXTENDS Naturals, FiniteSets

CONSTANTS Versions,    \* sequence of [bundle, active], the states of a rotation
          Replicas,    \* replicas of the control plane
          Pollers,     \* loops that observe the control plane
          BreakerK, ProactiveJ

N == Cardinality(DOMAIN Versions)
Vers == 0 .. N

ASSUME VersionsAssumption == N \in Nat \ {0} /\ \A v \in 1 .. N : Versions[v].active \in Versions[v].bundle
ASSUME BreakerAssumption == {BreakerK, ProactiveJ} \subseteq Nat \ {0}

VARIABLES
    replica,     \* version each replica serves
    store,       \* ClientCertStore: cur (named by its version), caid, signerFP
    boot,        \* the mint that main runs before the loops
    mint,        \* the goroutine of the mint in flight; "idle": inFlight is false
    lastTarget,  \* lastTarget and lastTargetFP
    reactive,    \* reactiveNoFlip and whether now is before reactiveBreakerEnd
    proactive,   \* proactiveNoConverge and its breaker
    poll,        \* an Observe of each poller
    raced,       \* history: the last mint overlapped the mint of main
    futile       \* history: reactive mints without effect since the last cooldown or change

vars == <<replica, store, boot, mint, lastTarget, reactive, proactive, poll, raced, futile>>
breakers == <<reactive, proactive, futile>>

\* The CA id and the signer fingerprint of a version; {} is the empty string.
CAID(v) == IF v = 0 THEN {} ELSE Versions[v].bundle
SignerFP(v) == IF v = 0 THEN {} ELSE {Versions[v].active}
Target(v) == [ca |-> CAID(v), fp |-> SignerFP(v)]
CAs == UNION {Versions[v].bundle : v \in 1 .. N}
Targets == {Target(v) : v \in Vers}

NoMint == [pc |-> "idle", trigger |-> "timer", target |-> Target(0), before |-> Target(0), leaf |-> 0, ok |-> FALSE]
Idle == [pc |-> "idle", target |-> Target(0), live |-> {}]

TypeOK ==
    /\ replica \in [Replicas -> 1 .. N]
    /\ store.cur \in Vers /\ {store.caid, store.fp} \subseteq SUBSET CAs
    /\ raced \in BOOLEAN
    /\ boot.pc \in {"fetch", "cur", "caid", "fp", "done"} /\ boot.leaf \in Vers
    /\ mint.pc \in {"idle", "start", "fetch", "cur", "caid", "fp", "score", "end"}
    /\ mint.trigger \in {"proactive", "reactive", "timer"}
    /\ mint.target \in Targets /\ {mint.before.ca, mint.before.fp} \subseteq SUBSET CAs
    /\ mint.leaf \in Vers /\ mint.ok \in BOOLEAN
    /\ lastTarget \in Targets
    /\ reactive \in [count : 0 .. BreakerK, open : BOOLEAN]
    /\ proactive \in [count : 0 .. ProactiveJ, open : BOOLEAN]
    /\ \A p \in Pollers : poll[p].pc \in {"idle", "ca", "fp", "trigger"} /\ poll[p].target \in Targets
    /\ futile \in 0 .. BreakerK + 1

Init ==
    /\ replica = [r \in Replicas |-> 1]
    /\ store = [cur |-> 0, caid |-> {}, fp |-> {}]
    /\ boot = [pc |-> "fetch", leaf |-> 0]
    /\ mint = NoMint
    /\ lastTarget = Target(0)
    /\ reactive = [count |-> 0, open |-> FALSE]
    /\ proactive = [count |-> 0, open |-> FALSE]
    /\ poll = [p \in Pollers |-> Idle]
    /\ raced = FALSE /\ futile = 0

-----------------------------------------------------------------------------
\* SignerReloader: a burst of changes of the CA Secret ends in one reload.
Advance(r) ==
    /\ replica[r] < N
    /\ \E v \in replica[r] + 1 .. N : replica' = [replica EXCEPT ![r] = v]
    /\ UNCHANGED <<store, boot, mint, lastTarget, breakers, poll, raced>>

\* Time: a cooldown ends.
CooldownReactive ==
    /\ reactive.open /\ reactive' = [reactive EXCEPT !.open = FALSE]
    /\ futile' = 0
    /\ UNCHANGED <<replica, store, boot, mint, lastTarget, proactive, poll, raced>>

CooldownProactive ==
    /\ proactive.open /\ proactive' = [proactive EXCEPT !.open = FALSE]
    /\ UNCHANGED <<replica, store, boot, mint, lastTarget, reactive, futile, poll, raced>>

-----------------------------------------------------------------------------
\* Mutant: the fingerprint is kept once it is known.
StoreFPOnce(v) == store' = [store EXCEPT !.fp = IF @ = {} THEN SignerFP(v) ELSE @]
\* Update: the certificate, the CA id and the fingerprint of its issuer are
\* stored one after the other.
StoreCur(v) == store' = [store EXCEPT !.cur = v]
StoreCAID(v) == store' = [store EXCEPT !.caid = CAID(v)]
StoreFP(v) == store' = [store EXCEPT !.fp = SignerFP(v)]

\* Update's three stores, as the steps of whoever holds a new leaf v at pc.
UpdateStep(pc, v) ==
    \/ pc = "cur" /\ StoreCur(v)
    \/ pc = "caid" /\ StoreCAID(v)
    \/ pc = "fp" /\ StoreFP(v)
AfterUpdate == [cur |-> "caid", caid |-> "fp", fp |-> "score"]

\* main mints once, directly, before it starts the timer loop and serves.
BootFetch ==
    /\ boot.pc = "fetch"
    /\ \/ \E r \in Replicas : boot' = [pc |-> "cur", leaf |-> replica[r]]
       \/ boot' = [pc |-> "done", leaf |-> 0]
    /\ UNCHANGED <<replica, store, mint, lastTarget, breakers, poll, raced>>

BootUpdate ==
    /\ boot.pc \in {"cur", "caid", "fp"}
    /\ UpdateStep(boot.pc, boot.leaf)
    /\ boot' = IF boot.pc = "fp" THEN [pc |-> "done", leaf |-> 0] ELSE [boot EXCEPT !.pc = AfterUpdate[@]]
    /\ UNCHANGED <<replica, mint, lastTarget, breakers, poll, raced>>

-----------------------------------------------------------------------------
(* Triggers.                                                               *)

\* Mutant: the reactive breaker is not looked at.
TriggerUnbraked(t) ==
    /\ mint' = IF mint.pc = "idle" /\ (t = "proactive" => ~proactive.open)
               THEN [NoMint EXCEPT !.pc = "start", !.trigger = t] ELSE mint
    /\ raced' = (raced \/ (mint.pc = "idle" /\ boot.pc # "done"))

\* A trigger that meets a mint in flight or its open breaker is dropped.
Trigger(t) ==
    LET dropped == \/ mint.pc # "idle"
                   \/ t = "reactive" /\ reactive.open
                   \/ t = "proactive" /\ proactive.open
    IN /\ mint' = IF dropped THEN mint ELSE [NoMint EXCEPT !.pc = "start", !.trigger = t]
       /\ raced' = (raced \/ (~dropped /\ boot.pc # "done"))

\* The core rejects the leaf in a handshake, also because it lags behind.
CoreRejects ==
    /\ boot.pc = "done" /\ store.cur # 0
    /\ Trigger("reactive")
    /\ UNCHANGED <<replica, store, boot, lastTarget, breakers, poll>>

\* The timer loop: no leaf is held yet, or the leaf is within its renewal
\* window, which is a matter of time.
MaybeRenew ==
    /\ boot.pc = "done"
    /\ Trigger("timer")
    /\ UNCHANGED <<replica, store, boot, lastTarget, breakers, poll>>

-----------------------------------------------------------------------------
(* Observe, one loop at a time: the answer of a replica, the two loads of  *)
(* the store, the target, the trigger.                                     *)

\* A poll is answered with a target; one without a CA id is not observed.
Poll(p, r) ==
    /\ poll[p].pc = "idle"
    /\ poll' = [poll EXCEPT ![p] = [Idle EXCEPT !.pc = "ca", !.target = Target(replica[r])]]
    /\ UNCHANGED <<replica, store, boot, mint, lastTarget, breakers, raced>>

LoadCA(p) ==
    /\ poll[p].pc = "ca"
    /\ poll' = [poll EXCEPT ![p].live = store.caid, ![p].pc = "fp"]
    /\ UNCHANGED <<replica, store, boot, mint, lastTarget, breakers, raced>>

\* Mutant: only the CA id is compared.
MismatchCA(p) == poll[p].live # {} /\ poll[p].target.ca # poll[p].live
\* The leaf differs from the target on an axis where both are known.
Mismatch(p) ==
    \/ poll[p].live # {} /\ poll[p].target.ca # poll[p].live
    \/ store.fp # {} /\ poll[p].target.fp # store.fp

\* The fingerprint is loaded, the target set under the lock and compared.
SetTarget(p) ==
    /\ poll[p].pc = "fp"
    /\ lastTarget' = poll[p].target
    /\ poll' = [poll EXCEPT ![p] = IF Mismatch(p) THEN [Idle EXCEPT !.pc = "trigger"] ELSE Idle]
    /\ UNCHANGED <<replica, store, boot, mint, breakers, raced>>

Observed(p) ==
    /\ poll[p].pc = "trigger"
    /\ Trigger("proactive")
    /\ poll' = [poll EXCEPT ![p] = Idle]
    /\ UNCHANGED <<replica, store, boot, lastTarget, breakers>>

-----------------------------------------------------------------------------
(* runOnce, the goroutine of the mint in flight.                           *)

\* The yardsticks are taken before the jitter.
Start ==
    /\ mint.pc = "start"
    /\ mint' = [mint EXCEPT !.pc = "fetch", !.target = IF mint.trigger = "proactive" THEN lastTarget ELSE @,
                            !.before = [ca |-> store.caid, fp |-> store.fp]]
    /\ UNCHANGED <<replica, store, boot, lastTarget, breakers, poll, raced>>

\* Whichever replica answers signs with the signer it has.
FetchOK(r) ==
    /\ mint.pc = "fetch"
    /\ mint' = [mint EXCEPT !.pc = "cur", !.leaf = replica[r], !.ok = TRUE]
    /\ UNCHANGED <<replica, store, boot, lastTarget, breakers, poll, raced>>

\* The fetch fails, or the control plane sheds load with a Retry-After.
FetchFails ==
    /\ mint.pc = "fetch"
    /\ mint' = [mint EXCEPT !.pc = "score"]
    /\ UNCHANGED <<replica, store, boot, lastTarget, breakers, poll, raced>>

\* A panic before the stores is recovered; only inFlight is cleared.
MintPanics ==
    /\ mint.pc = "fetch"
    /\ mint' = [NoMint EXCEPT !.pc = "end"]
    /\ UNCHANGED <<replica, store, boot, lastTarget, breakers, poll, raced>>

MintUpdate ==
    /\ mint.pc \in {"cur", "caid", "fp"}
    /\ UpdateStep(mint.pc, mint.leaf)
    /\ mint' = [mint EXCEPT !.pc = AfterUpdate[@], !.leaf = IF mint.pc = "fp" THEN 0 ELSE @]
    /\ raced' = (raced /\ ~(mint.pc = "fp" /\ boot.pc = "done"))
    /\ UNCHANGED <<replica, boot, lastTarget, breakers, poll>>

\* One more mint without effect, counted up to the limit that opens b.
Futile(b, limit) ==
    LET count == IF b.count < limit THEN b.count + 1 ELSE limit
    IN [count |-> count, open |-> b.open \/ count = limit]

Cleared == [count |-> 0, open |-> FALSE]

\* ok: the reactive breaker looks for a change of the leaf, the proactive one
\* for the target that was taken at the start.  Not ok: backoff, no evidence.
Score ==
    /\ mint.pc = "score"
    /\ LET after == [ca |-> store.caid, fp |-> store.fp]
           flipped == after # mint.before
           reached == mint.target.ca # {} /\ after.ca = mint.target.ca
                      /\ (mint.target.fp = {} \/ after.fp = mint.target.fp)
       IN /\ reactive' = IF ~mint.ok THEN reactive
                         ELSE IF flipped THEN Cleared
                         ELSE IF mint.trigger = "reactive" THEN Futile(reactive, BreakerK) ELSE reactive
          /\ futile' = IF ~mint.ok THEN futile
                       ELSE IF flipped THEN 0
                       ELSE IF mint.trigger = "reactive" /\ futile <= BreakerK THEN futile + 1 ELSE futile
          /\ proactive' = IF ~mint.ok \/ mint.trigger # "proactive" THEN proactive
                          ELSE IF reached THEN Cleared ELSE Futile(proactive, ProactiveJ)
    /\ mint' = [NoMint EXCEPT !.pc = "end", !.ok = mint.ok]
    /\ UNCHANGED <<replica, store, boot, lastTarget, poll, raced>>

\* After the backoff of a failed mint, slept in flight, the deferred function
\* clears inFlight, however the mint ended.
EndMint ==
    /\ mint.pc = "end"
    /\ mint' = NoMint
    /\ UNCHANGED <<replica, store, boot, lastTarget, breakers, poll, raced>>

-----------------------------------------------------------------------------
Next ==
    \/ CooldownReactive \/ CooldownProactive
    \/ BootFetch \/ BootUpdate \/ CoreRejects \/ MaybeRenew
    \/ Start \/ FetchFails \/ MintPanics \/ MintUpdate \/ Score \/ EndMint
    \/ \E r \in Replicas : Advance(r) \/ FetchOK(r)
    \/ \E p \in Pollers :
          \/ LoadCA(p) \/ SetTarget(p) \/ Observed(p)
          \/ \E r \in Replicas : Poll(p, r)

\* Every loop goes on and every mint in flight makes its steps; cooldowns end
\* and rollouts reach every replica; a mint that is tried again and again is
\* answered at last.
Fairness ==
    /\ WF_vars(BootFetch) /\ WF_vars(BootUpdate) /\ WF_vars(store.cur = 0 /\ MaybeRenew)
    /\ WF_vars(Start) /\ WF_vars(MintUpdate) /\ WF_vars(Score) /\ WF_vars(EndMint)
    /\ WF_vars(FetchFails) /\ SF_vars(\E r \in Replicas : FetchOK(r))
    /\ WF_vars(CooldownReactive) /\ WF_vars(CooldownProactive)
    /\ \A r \in Replicas : WF_vars(Advance(r))
    /\ \A p \in Pollers :
          /\ WF_vars(\E r \in Replicas : Poll(p, r))
          /\ WF_vars(LoadCA(p)) /\ WF_vars(SetTarget(p)) /\ WF_vars(Observed(p))

Spec == Init /\ [][Next]_vars /\ Fairness

-----------------------------------------------------------------------------
Whole == store.caid = CAID(store.cur) /\ store.fp = SignerFP(store.cur)

\* When no mint is storing, certificate, CA id and fingerprint describe one
\* leaf: what the edge reports to the revocation gate is what it presents.
\* Only the unguarded mint of main can overlap a coordinated one.
StoreWholeAtRest ==
    (boot.pc \in {"fetch", "cur", "done"} /\ mint.pc \notin {"caid", "fp"}) => Whole \/ raced

\* The reactive breaker bounds the mints that a rejecting core can cause: at
\* most BreakerK without effect until a cooldown passes or the leaf changes.
FutileMintsBounded == futile <= BreakerK

\* Dropped triggers, stale yardsticks, lagging replicas, failed mints, panics
\* and open breakers do not keep an edge from the final signer: once the
\* rollout is over it holds, and reports, a leaf of the last version.
EdgeConverges == <>[](raced \/ (Target(store.cur) = Target(N) /\ Whole))
=============================================================================
