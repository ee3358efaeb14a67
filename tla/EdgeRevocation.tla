--------------------------- MODULE EdgeRevocation ---------------------------
(***************************************************************************)
(* Severing an edge by rotating the edge CA.  Composed here are the CA     *)
(* Secret and the jobs that write it (edgecp/ca.go), the signers of the    *)
(* control-plane replicas (edgecp/signerreload.go, server.go, issuance.go, *)
(* authz.go), the revoke tool with its two convergence gates               *)
(* (cmd/edge-controlplane/revoke.go, edgecp/converge), and, coarsely, the  *)
(* cores and the edges (their own modules are TrustManager and Remint).    *)
(*                                                                         *)
(* log is the history of the Secret: log[v] is its content at resource     *)
(* version v, so v is also the generation of the bundle and of the signer  *)
(* built from it.  A leaf is the CA set of its chain and its signer.       *)
(*                                                                         *)
(* Edges are processes, and an edge_id may be shared by several of them.   *)
(* The gates see one series per edge_id, whichever of them it is from.     *)
(* Blockers that only make the tool wait longer (heartbeats, failed        *)
(* re-mints, targets observed, counts) are left out of the gates.          *)
(***************************************************************************)
EXTENDS Naturals, Sequences, FiniteSets

CONSTANTS CAs,        \* CAs that can be generated; bounds the rotations
          Replicas, Cores,
          Edges,      \* processes of the edges
          Ids,        \* their edge_ids, one for each token of the registry
          Jobs,       \* bootstrap and rotation Jobs
          LastEdit,   \* bound: other hands edit no version after this one
          MaxMints,   \* bound on the mints under way at a time
          Age(_)      \* bound on the orders in which the samples of a read are
                      \* taken: oldest first, any order among the same age

ASSUME BoundsAssumption == LastEdit \in Nat /\ MaxMints \in Nat
\* Pods of the control plane, cores and edge_ids are different reporters, and
\* the tool is no Job.
ASSUME NamesAssumption ==
    /\ Replicas \cap Cores = {} /\ Replicas \cap Ids = {} /\ Cores \cap Ids = {}
    /\ "tool" \notin Jobs

VARIABLES
    log,       \* contents of the CA Secret, one per resource version
    job,       \* the operation for which a writer has read the current Secret
    adopted,   \* CAs that EnsureCA has returned to a bootstrap Job
    registry,  \* edge_ids disabled in the registry file
    replica,   \* signerState, authz and issuance ledger of each replica
    core,      \* generation of the bundle each core trusts, 0: none yet
    edge,      \* edge_id and leaf of each edge and the mint under way
    lost,      \* what ledgers held when their replica restarted
    tool,      \* the revoke tool: its step, edge_id, registry and bundle
    done,      \* who flipped to which CA, and the edge_ids reported as severed
    gate       \* its convergence reads

vars == <<log, job, adopted, registry, replica, core, edge, lost, tool, done, gate>>
fleet == <<replica, core, edge, lost>>

-----------------------------------------------------------------------------
(* The CA Secret.                                                          *)

Virgin == [crt |-> <<>>, staged |-> FALSE, phase |-> "none", active |-> "old", guard |-> FALSE]
Secret == log[Len(log)]
CertsOf(v) == {log[v].crt[i] : i \in DOMAIN log[v].crt}
Generated == UNION {CertsOf(v) : v \in DOMAIN log}

\* The active key and its certificate: OLD is first, NEW is last.
Signer(v) == IF log[v].active = "new" THEN log[v].crt[Len(log[v].crt)] ELSE log[v].crt[1]
\* What the chain of a leaf shows: the bundle and its issuer.
Leaf(v) == [cas |-> CertsOf(v), by |-> {Signer(v)}]
NoLeaf == [cas |-> {}, by |-> {}]
Leaves == {NoLeaf} \cup [cas : SUBSET CAs, by : {{c} : c \in CAs}]

\* The state a rotation produces; RotateCA on it is a no-op.
Overlapping(s) == s.phase = "overlap" /\ Len(s.crt) = 2 /\ s.staged

\* Mutant: a second bootstrap ignores the generation guard.
EnsureWritesUnguarded(s) == s.crt = <<>>
\* EnsureCA generates only into a virgin stub: data is adopted, and empty
\* data under the generation guard is an error.
EnsureWrites(s) == s.crt = <<>> /\ ~s.guard

\* RotateCA needs a single CA, and one to generate.
RotateWrites(s) == Len(s.crt) = 1 /\ CAs \ Generated # {}

\* SetActiveNew and TrimCA for the pinned NEW certificate.
FlipWrites(s, new) == s.active = "old" /\ Overlapping(s) /\ s.crt[2] = new
FlipDone(s, new) == s.active = "new" /\ s.crt # <<>> /\ s.crt[Len(s.crt)] = new
TrimWrites(s, new) == s.active = "new" /\ Overlapping(s) /\ s.crt[2] = new
TrimDone(s, new) == s.phase = "trimmed" /\ s.crt = <<new>>

Ensured(s, c) == [s EXCEPT !.crt = <<c>>, !.guard = TRUE]
Rotated(s, c) == [s EXCEPT !.crt = Append(@, c), !.staged = TRUE, !.phase = "overlap", !.active = "old"]
Flipped(s) == [s EXCEPT !.active = "new"]
Trimmed(s) == [s EXCEPT !.crt = <<s.crt[2]>>, !.staged = FALSE, !.phase = "trimmed", !.active = "old"]

\* A writer reads the Secret and finds that op has something to write ...
Get(w, op) == job' = [job EXCEPT ![w] = op]

\* ... and its write s carries the resource version it has read.  Everybody
\* who had read before it meets a conflict and reads again; that attempt
\* changes nothing, so the others lose their reads at once.
CAS(s) ==
    /\ log' = Append(log, s)
    /\ job' = [w \in DOMAIN job |-> "none"]

-----------------------------------------------------------------------------
Reporters == Replicas \cup Cores \cup Ids
\* No stable read yet, and nobody scraped for the one to come.
Quiet == [n |-> 0, todo |-> Reporters, gens |-> {}, authz |-> {}]
NoMint == [leaf |-> NoLeaf, old |-> FALSE]
Off == [pc |-> "off", id |-> "none", authz |-> {}, bundle |-> <<>>]
NewCA == tool.bundle[2]

TypeOK ==
    /\ \A v \in DOMAIN log :
          /\ log[v].crt \in UNION {[1 .. n -> CAs] : n \in 0 .. 2}
          /\ log[v].phase \in {"none", "overlap", "trimmed"} /\ log[v].active \in {"old", "new"}
          /\ {log[v].staged, log[v].guard} \subseteq BOOLEAN
    /\ job \in [Jobs \cup {"tool"} -> {"none", "ensure", "rotate", "flip", "trim"}]
    /\ adopted \subseteq CAs /\ registry \subseteq Ids
    /\ \A r \in Replicas :
          /\ replica[r].gen \in 0 .. Len(log)
          /\ replica[r].authz \subseteq Ids /\ replica[r].issued \subseteq Ids \X CAs
    /\ core \in [Cores -> 0 .. Len(log)]
    /\ \A e \in Edges :
          /\ edge[e].id \in Ids /\ edge[e].leaf \in Leaves
          /\ edge[e].mint.leaf \in Leaves /\ edge[e].mint.old \in BOOLEAN
    /\ lost \subseteq Ids \X CAs
    /\ tool.pc \in {"off", "rotate", "A", "flip", "B", "trim"} /\ tool.bundle \in {<<>>} \cup (CAs \X CAs)
    /\ (tool.pc # "off" => tool.id \in Ids) /\ tool.authz \subseteq Ids
    /\ done.flips \subseteq Ids \X CAs /\ done.severed \subseteq Ids
    /\ gate.n \in 0 .. 1 /\ gate.todo \subseteq Reporters
    /\ gate.gens \subseteq DOMAIN log /\ gate.authz \subseteq SUBSET Ids

Init ==
    /\ log = <<Virgin>>
    /\ job = [w \in Jobs \cup {"tool"} |-> "none"]
    /\ adopted = {} /\ registry = {}
    /\ replica = [r \in Replicas |-> [gen |-> 0, authz |-> {}, issued |-> {}]]
    /\ core = [k \in Cores |-> 0]
    /\ edge \in [Edges -> [id : Ids, leaf : {NoLeaf}, mint : {NoMint}]]
    /\ lost = {}
    /\ tool = Off /\ done = [flips |-> {}, severed |-> {}]
    /\ gate = Quiet

-----------------------------------------------------------------------------
(* Jobs.                                                                   *)

\* A bootstrap Job reads the Secret: it adopts the CA, or goes on to write.
EnsureGet(j) ==
    /\ job[j] = "none"
    /\ \/ /\ Secret.crt # <<>> /\ adopted' = adopted \cup {Secret.crt[1]} /\ UNCHANGED job
       \/ EnsureWrites(Secret) /\ Get(j, "ensure") /\ UNCHANGED adopted
    /\ UNCHANGED <<log, registry, fleet, tool, done, gate>>

EnsureUpdate(j, c) ==
    /\ job[j] = "ensure" /\ c \notin Generated
    /\ CAS(Ensured(Secret, c))
    /\ adopted' = adopted \cup {c}
    /\ UNCHANGED <<registry, fleet, tool, done, gate>>

\* A rotation Job, run next to the tool by somebody else.
RotateGet(j) ==
    /\ job[j] = "none" /\ RotateWrites(Secret)
    /\ Get(j, "rotate")
    /\ UNCHANGED <<log, adopted, registry, fleet, tool, done, gate>>

RotateUpdate(j, c) ==
    /\ job[j] = "rotate" /\ c \notin Generated
    /\ CAS(Rotated(Secret, c))
    /\ UNCHANGED <<adopted, registry, fleet, tool, done, gate>>

\* Other hands: an annotation is edited, or the data is pruned while the
\* guard stays; both make a new resource version.  (To edit the stub before
\* there is a CA would only shift the versions.)
Edit ==
    /\ Secret.crt # <<>> /\ Len(log) <= LastEdit
    /\ \/ CAS(Secret)
       \/ Len(Secret.crt) = 1 /\ CAS([Secret EXCEPT !.crt = <<>>])
    /\ UNCHANGED <<adopted, registry, fleet, tool, done, gate>>

-----------------------------------------------------------------------------
(* Control-plane replicas.                                                 *)

\* The monotonic floor of SetSigner.
SetSigner(r, v) ==
    replica' = IF v <= replica[r].gen THEN replica ELSE [replica EXCEPT ![r].gen = v]

\* reload lists the Secret, the first time as it is, later possibly an older
\* version, and installs a signer that differs in CA set or active key.
Reload(r, v) ==
    /\ log[v].crt # <<>>
    /\ IF replica[r].gen = 0 THEN v = Len(log) ELSE Leaf(v) # Leaf(replica[r].gen)
    /\ SetSigner(r, v)
    /\ UNCHANGED <<log, job, adopted, registry, core, edge, lost, tool, done, gate>>

\* The operator disables a token.
Blacklist(i) ==
    /\ i \notin registry /\ registry' = registry \cup {i}
    /\ UNCHANGED <<log, job, adopted, fleet, tool, done, gate>>

\* A replica that starts reads the registry and, before it serves, the Secret
\* (if that fails, it is as if it started later); its ledger is empty.
Loaded == IF Secret.crt = <<>> THEN 0 ELSE Len(log)
RestartReplica(r) ==
    /\ replica' = [replica EXCEPT ![r] = [gen |-> Loaded, authz |-> registry, issued |-> {}]]
    /\ lost' = lost \cup replica[r].issued
    /\ UNCHANGED <<log, job, adopted, registry, core, edge, tool, done, gate>>

\* What the ledger notes of a leaf.  The gate asks only for the key that waits
\* behind OLD, which signs under active = new; other entries are left out.
Entry(i, v) == IF log[v].active = "new" THEN {<<i, Signer(v)>>} ELSE {}

\* handleEdgeCert: the token must be known, the signer is taken when the
\* request arrives, the ledger counts; the answer reaches the edge, or is
\* lost, within the edge's timeout.
MintBegins(e, r) ==
    /\ edge[e].mint = NoMint /\ Cardinality({f \in Edges : edge[f].mint # NoMint}) < MaxMints
    /\ replica[r].gen # 0 /\ edge[e].id \notin replica[r].authz
    /\ edge' = [edge EXCEPT ![e].mint = [leaf |-> Leaf(replica[r].gen), old |-> FALSE]]
    /\ replica' = [replica EXCEPT ![r].issued = @ \cup Entry(edge[e].id, replica[r].gen)]
    /\ UNCHANGED <<log, job, adopted, registry, core, lost, tool, done, gate>>

MintEnds(e) ==
    /\ edge[e].mint # NoMint
    /\ edge' \in {[edge EXCEPT ![e] = [@ EXCEPT !.leaf = edge[e].mint.leaf, !.mint = NoMint]],
                  [edge EXCEPT ![e].mint = NoMint]}
    /\ UNCHANGED <<log, job, adopted, registry, replica, core, lost, tool, done, gate>>

\* A core applies a newer bundle of any replica.  If it starts again without
\* a persisted floor, it applies whatever the first replica has.
Apply(k, r) ==
    /\ replica[r].gen > core[k]
    /\ core' = [core EXCEPT ![k] = replica[r].gen]
    /\ UNCHANGED <<log, job, adopted, registry, replica, edge, lost, tool, done, gate>>

RestartCore(k, r) ==
    /\ core' = [core EXCEPT ![k] = replica[r].gen]
    /\ UNCHANGED <<log, job, adopted, registry, replica, edge, lost, tool, done, gate>>

-----------------------------------------------------------------------------
(* The revoke tool.                                                        *)

\* Preflight: the token is present and disabled in the registry, of which
\* every replica must have the same state at gate B.  (A run for which
\* RotateCA has nothing to do would end at once.)
ToolStart(i) ==
    /\ tool = Off /\ i \in registry /\ (Overlapping(Secret) \/ RotateWrites(Secret))
    /\ tool' = [pc |-> "rotate", id |-> i, authz |-> registry, bundle |-> <<>>]
    /\ UNCHANGED <<log, job, adopted, registry, fleet, done, gate>>

\* An error, the deadline of a gate or a crash: nothing is undone, and a
\* re-run, also for another edge_id, begins with the preflight.
ToolExits ==
    /\ tool # Off /\ tool' = Off /\ gate' = Quiet
    /\ job' = [job EXCEPT !["tool"] = "none"]
    /\ UNCHANGED <<log, adopted, registry, fleet, done>>

\* A step of the rotation reads the Secret: it is done already, or writes.
ToolGet(pc, finished, writes, then) ==
    /\ tool.pc = pc /\ job["tool"] = "none"
    /\ \/ finished /\ tool' = then /\ UNCHANGED job
       \/ writes /\ Get("tool", pc) /\ UNCHANGED tool
    /\ UNCHANGED <<log, adopted, registry, fleet, gate>>

ToolUpdate(pc, s, then) ==
    /\ tool.pc = pc /\ job["tool"] = pc
    /\ CAS(s)
    /\ tool' = then
    /\ UNCHANGED <<adopted, registry, fleet, gate>>

ToolRotate ==
    /\ \/ ToolGet("rotate", Overlapping(Secret), RotateWrites(Secret),
                  [tool EXCEPT !.pc = "A", !.bundle = Secret.crt])
       \/ \E c \in CAs \ Generated :
             ToolUpdate("rotate", Rotated(Secret, c), [tool EXCEPT !.pc = "A", !.bundle = Append(Secret.crt, c)])
    /\ UNCHANGED done

ToolFlip ==
    \/ /\ ToolGet("flip", FlipDone(Secret, NewCA), FlipWrites(Secret, NewCA), [tool EXCEPT !.pc = "B"])
       /\ UNCHANGED done
    \/ /\ ToolUpdate("flip", Flipped(Secret), [tool EXCEPT !.pc = "B"])
       /\ done' = [done EXCEPT !.flips = @ \cup {<<tool.id, NewCA>>}]

\* The last step: the run reports its edge as severed.
Reported == [done EXCEPT !.severed = @ \cup {tool.id}]
ToolTrim ==
    \/ /\ ToolGet("trim", TrimDone(Secret, NewCA), TrimWrites(Secret, NewCA), Off)
       /\ done' = IF TrimDone(Secret, NewCA) THEN Reported ELSE done
    \/ ToolUpdate("trim", Trimmed(Secret), Off) /\ done' = Reported

-----------------------------------------------------------------------------
(* Its gates.  The queries of a read are evaluated at one instant, on      *)
(* scrapes of different ages: reporters are seen one after the other while *)
(* the fleet moves on.                                                     *)

\* Mutant: replicas may differ in the registry they have loaded.
AuthzAgreesNever(r) == TRUE
\* The authz-split blocker, in force at both gates.
AuthzAgrees(r) == gate.authz \subseteq {replica[r].authz}

ReplicaConverged(r) ==
    LET x == replica[r] IN
    /\ x.gen # 0 /\ log[x.gen].crt = tool.bundle
    /\ gate.gens \subseteq {x.gen} /\ AuthzAgrees(r)
    /\ tool.pc = "B" => Signer(x.gen) = NewCA /\ x.authz = tool.authz /\ <<tool.id, NewCA>> \notin x.issued

CoreConverged(k) == core[k] # 0 /\ log[core[k]].crt = tool.bundle

\* An edge_id is expected while some replica has its token enabled.  Of the
\* processes that share it the last sample wins, query by query; the revoked
\* one, and one that is disabled and runs no more, is passed over.
Live(i) == {edge[e].leaf : e \in {f \in Edges : edge[f].id = i /\ edge[f].leaf # NoLeaf}}
EdgeConverged(i) ==
    \/ (i = tool.id \/ Live(i) = {}) /\ \A r \in Replicas : i \in replica[r].authz
    \/ /\ \E l \in Live(i) : l.cas = {tool.bundle[1], NewCA}
       /\ tool.pc = "B" => \E l \in Live(i) : l.by = {NewCA}

\* Mutant: the second read may follow the first at once.
WindowSkipped == TRUE
\* checkCadence: the reads are apart by a refresh interval, longer than the
\* edge's timeout, so that a mint under way at the first has ended.
Window == \A e \in Edges : ~edge[e].mint.old

Scrape(x) ==
    /\ tool.pc \in {"A", "B"} /\ x \in gate.todo /\ (\A y \in gate.todo : Age(y) <= Age(x)) /\ (gate.n = 1 => Window)
    /\ \/ /\ x \in Replicas /\ ReplicaConverged(x)
          /\ gate' = [gate EXCEPT !.todo = @ \ {x}, !.gens = {replica[x].gen}, !.authz = {replica[x].authz}]
       \/ /\ (x \in Cores /\ CoreConverged(x)) \/ (x \in Ids /\ EdgeConverged(x))
          /\ gate' = [gate EXCEPT !.todo = @ \ {x}]
    /\ UNCHANGED <<log, job, adopted, registry, fleet, tool, done>>

\* Gate A, without a pinned signer, leads to the flip, gate B to the trim.
GateOpen == [tool EXCEPT !.pc = IF @ = "A" THEN "flip" ELSE "trim"]

\* The read ends with the probe, which one of the replicas answers with 401;
\* the second read in a row opens the gate.
Probe ==
    /\ tool.pc \in {"A", "B"} /\ gate.todo = {} /\ \E r \in Replicas : tool.id \in replica[r].authz
    /\ IF gate.n = 0
       THEN /\ gate' = [Quiet EXCEPT !.n = 1]
            /\ edge' = [e \in Edges |-> [edge[e] EXCEPT !.mint.old = (edge[e].mint # NoMint)]]
            /\ UNCHANGED tool
       ELSE /\ gate' = Quiet /\ tool' = GateOpen
            /\ UNCHANGED edge
    /\ UNCHANGED <<log, job, adopted, registry, replica, core, lost, done>>

\* A blocker or a failed query: the reads start again.
ReadFails ==
    /\ gate # Quiet /\ gate' = Quiet
    /\ UNCHANGED <<log, job, adopted, registry, fleet, tool, done>>

Next ==
    \/ \E j \in Jobs : EnsureGet(j) \/ RotateGet(j) \/ (\E c \in CAs : EnsureUpdate(j, c) \/ RotateUpdate(j, c))
    \/ Edit \/ (\E i \in Ids : Blacklist(i) \/ ToolStart(i))
    \/ \E r \in Replicas : RestartReplica(r) \/ (\E v \in DOMAIN log : Reload(r, v))
    \/ \E e \in Edges : MintEnds(e) \/ (\E r \in Replicas : MintBegins(e, r))
    \/ \E k \in Cores : \E r \in Replicas : RestartCore(k, r) \/ Apply(k, r)
    \/ ToolExits \/ ToolRotate \/ ToolFlip \/ ToolTrim
    \/ \E x \in Reporters : Scrape(x)
    \/ Probe \/ ReadFails

Spec == Init /\ [][Next]_vars

-----------------------------------------------------------------------------
(* Properties.                                                             *)

\* An edge that stays, and is the only process with its edge_id.
Stays(e) == edge[e].id \notin registry /\ \A f \in Edges : edge[f].id = edge[e].id => f = e

\* The gates of runRevoke sever no edge that stays and has an edge_id of its
\* own: at no moment of a rotation, whatever restarts, is retried or crashes,
\* does a core hold a bundle without the CA that signed its leaf.
FleetNeverSevered ==
    \A k \in Cores, e \in Edges :
        Stays(e) /\ core[k] # 0 /\ edge[e].leaf # NoLeaf => edge[e].leaf.by \subseteq CertsOf(core[k])

\* Once the tool has reported an edge as severed, no CA of the bundle has
\* signed a leaf for it that any issuance ledger (issuance.go) shows.  What a
\* ledger forgot in a restart it may have signed, but only if its run found
\* the key flipped already, by a run for another edge.
RevokedStaysOut ==
    \A i \in done.severed, c \in CertsOf(Len(log)) :
        /\ \A r \in Replicas : <<i, c>> \notin replica[r].issued
        /\ <<i, c>> \in lost => <<i, c>> \notin done.flips

\* EnsureCA: until a rotation, all bootstrap Jobs return the same CA, also if
\* they race or if the data of the Secret is pruned after the first.
BootstrapAgrees == Secret.phase = "none" => Cardinality(adopted) <= 1
=============================================================================
