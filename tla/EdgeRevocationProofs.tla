------------------------ MODULE EdgeRevocationProofs ------------------------
(***************************************************************************)
(* Proofs about EdgeRevocation.  What everything rests on is the history   *)
(* of the Secret (LogInv): contents follow each other only as the writers  *)
(* allow, so that a signer, once replaced, does not come back, and neither *)
(* does an overlap.  A replica that has once been seen with the overlap,   *)
(* or signing with NEW, therefore stays there whatever it reloads, however *)
(* late; if it restarts, it begins with the Secret as it is.               *)
(*                                                                         *)
(* The fleet is then in one of three states (FleetInv): nothing has been   *)
(* generated; one CA signs everywhere and every core trusts it; or, after  *)
(* the flip, everybody holds both CAs.  Gate A is what leads from the      *)
(* second to the third, gate B what leads back, with NEW.  Both need their *)
(* two reads: what is seen of cores and edges in the second is only final  *)
(* because all replicas were seen before it, and mints under way at its    *)
(* beginning have ended (ToolInv).                                         *)
(*                                                                         *)
(* All of this is said of the edges that stay and have an edge_id of their *)
(* own; of the others the gates may see another process.                   *)
(*                                                                         *)
(* The edge of a run is kept from NEW by the probe and the agreement of    *)
(* the replicas on the registry: all refuse the token before this run      *)
(* flips, and a restart reads no smaller registry (RevokedInv).  Where the *)
(* key was flipped before, only the issuance ledgers speak for it: what    *)
(* they show at gate B they still show when OLD is dropped.                *)
(***************************************************************************)
EXTENDS EdgeRevocation, SequenceTheorems, FiniteSetTheorems, TLAPS

SecretTypes ==
    [crt : Seq(CAs), staged : BOOLEAN, phase : {"none", "overlap", "trimmed"},
     active : {"old", "new"}, guard : BOOLEAN]
Pairs == Ids \X CAs
ReplicaTypes == [gen : Nat, authz : SUBSET Ids, issued : SUBSET Pairs]
MintTypes == [leaf : Leaves, old : BOOLEAN]
EdgeTypes == [id : Ids, leaf : Leaves, mint : MintTypes]
ToolRecord ==
    [pc : {"off", "rotate", "A", "flip", "B", "trim"}, id : Ids \cup {"none"}, authz : SUBSET Ids, bundle : Seq(CAs)]
DoneRecord == [flips : SUBSET Pairs, severed : SUBSET Ids]
GateRecord == [n : {0, 1}, todo : SUBSET Reporters, gens : SUBSET Nat, authz : SUBSET SUBSET Ids]

Types ==
    /\ log \in Seq(SecretTypes) /\ Len(log) > 0
    /\ job \in [Jobs \cup {"tool"} -> {"none", "ensure", "rotate", "flip", "trim"}]
    /\ adopted \subseteq CAs /\ registry \subseteq Ids
    /\ replica \in [Replicas -> ReplicaTypes]
    /\ core \in [Cores -> Nat]
    /\ edge \in [Edges -> EdgeTypes]
    /\ lost \subseteq Pairs
    /\ tool \in ToolRecord /\ done \in DoneRecord
    /\ gate \in GateRecord

\* Generations are versions of the Secret with a CA.
Versions == 1 .. Len(log)
Filled(v) == log[v].crt # <<>>
GensOK ==
    /\ \A r \in Replicas : replica[r].gen # 0 => replica[r].gen \in Versions /\ Filled(replica[r].gen)
    /\ \A k \in Cores : core[k] # 0 => core[k] \in Versions
    /\ gate.gens \subseteq Versions

\* What can be said of the content of the Secret at any version: two CAs are
\* an overlap, only an overlap has the new key active, and whatever has been
\* generated is guarded.
SecretOK(s) ==
    /\ Len(s.crt) <= 2
    /\ Len(s.crt) = 2 <=> Overlapping(s)
    /\ s.phase = "overlap" => Len(s.crt) = 2
    /\ s.active = "new" => Len(s.crt) = 2
    /\ Len(s.crt) = 2 => s.crt[1] # s.crt[2]
    /\ s.crt # <<>> \/ s.phase # "none" => s.guard

\* A signer, once replaced, does not come back, nor does an overlap; and the
\* key that an overlap has in store has never signed.
SignerRuns ==
    Secret.crt # <<>> =>
        \A v, w \in Versions : v <= w /\ Filled(v) /\ Filled(w) /\ Signer(v) = Signer(Len(log))
            => Signer(w) = Signer(Len(log))
OverlapRuns ==
    Len(Secret.crt) = 2 =>
        \A v, w \in Versions : v <= w /\ log[v].crt = Secret.crt /\ Filled(w)
            => log[w].crt = Secret.crt
NewUnused ==
    Len(Secret.crt) = 2 /\ Secret.active = "old" =>
        \A v \in Versions : Filled(v) => Signer(v) # Secret.crt[2]

LogInv ==
    /\ \A v \in Versions : SecretOK(log[v])
    /\ SignerRuns /\ OverlapRuns /\ NewUnused

\* Whoever has read the Secret for an operation finds it as it has read it.
JobInv ==
    /\ \A w \in Jobs \cup {"tool"} :
          /\ job[w] = "ensure" => EnsureWrites(Secret)
          /\ job[w] = "rotate" => RotateWrites(Secret)
    /\ \A j \in Jobs : job[j] \in {"none", "ensure", "rotate"}
    /\ job["tool"] \in {"none", tool.pc}
    /\ job["tool"] = "flip" => FlipWrites(Secret, NewCA)
    /\ job["tool"] = "trim" => TrimWrites(Secret, NewCA)

-----------------------------------------------------------------------------
\* Nothing has been generated yet.
Unborn ==
    /\ \A v \in Versions : ~Filled(v)
    /\ \A r \in Replicas : replica[r].gen = 0
    /\ \A k \in Cores : core[k] = 0
    /\ \A e \in Edges : edge[e].leaf = NoLeaf /\ edge[e].mint.leaf = NoLeaf
    /\ adopted = {}

\* CA c signs, now and at every replica, also after whatever it may reload;
\* it has signed what the edges have and get, and every core trusts it.
Signs(c, v) == \A w \in v .. Len(log) : Filled(w) => Signer(w) = c
SettledOn(c) ==
    /\ Secret.crt # <<>> => Signer(Len(log)) = c
    /\ \A r \in Replicas : replica[r].gen # 0 => Filled(replica[r].gen) /\ Signs(c, replica[r].gen)
    /\ \A k \in Cores : core[k] # 0 => c \in CertsOf(core[k])
    /\ \A e \in Edges : Stays(e) => edge[e].leaf.by \subseteq {c} /\ edge[e].mint.leaf.by \subseteq {c}

\* Everybody holds the bundle of both CAs, and either may have signed.
Holds(v) == v # 0 => log[v].crt = Secret.crt
Handover ==
    /\ \A r \in Replicas : Holds(replica[r].gen)
    /\ \A k \in Cores : Holds(core[k])
    /\ \A e \in Edges : Stays(e) => /\ edge[e].leaf.by \subseteq CertsOf(Len(log))
                                    /\ edge[e].mint.leaf.by \subseteq CertsOf(Len(log))

FleetInv ==
    /\ ~Secret.guard => Unborn
    /\ Secret.guard /\ Secret.active = "old" => \E c \in CAs : SettledOn(c)
    /\ Secret.active = "new" => Handover

\* What the reads of gate A have seen stays true: a replica seen with the
\* bundle never has an older one, and since the second read begins with all
\* of them past it, neither has a core that is seen in it.
GateA ==
    /\ \A r \in Replicas : gate.n = 1 \/ r \notin gate.todo => Holds(replica[r].gen)
    /\ \A k \in Cores : gate.n = 1 /\ k \notin gate.todo => Holds(core[k])

\* At gate B, of the replicas that sign with NEW and, as every mint begun
\* before the second read has ended when an edge is seen in it, of the edges.
SignsNew(v) == v # 0 => Signer(v) = NewCA
ByNew(l) == l.by \subseteq {NewCA}
NotShown(r) == <<tool.id, NewCA>> \notin replica[r].issued
GateB ==
    /\ \A r \in Replicas : gate.n = 1 \/ r \notin gate.todo => SignsNew(replica[r].gen) /\ NotShown(r)
    /\ gate.n = 1 => \A e \in Edges : Stays(e) =>
          /\ edge[e].mint.old \/ ByNew(edge[e].mint.leaf)
          /\ edge[e].id \notin gate.todo => ByNew(edge[e].leaf) /\ ~edge[e].mint.old

ToolInv ==
    /\ tool.pc \in {"off", "rotate"} => tool.bundle = <<>>
    /\ tool.pc \notin {"off", "rotate"} => Overlapping(Secret) /\ tool.bundle = Secret.crt
    /\ tool.pc \in {"B", "trim"} => Secret.active = "new"
    /\ tool.pc = "A" => GateA
    /\ tool.pc = "flip" => /\ \A r \in Replicas : Holds(replica[r].gen)
                           /\ \A k \in Cores : Holds(core[k])
    /\ tool.pc = "B" => GateB
    /\ tool.pc = "trim" => /\ \A r \in Replicas : SignsNew(replica[r].gen) /\ NotShown(r)
                           /\ \A e \in Edges : Stays(e) => ByNew(edge[e].leaf) /\ ByNew(edge[e].mint.leaf)
    /\ tool.pc \notin {"A", "B"} => gate = Quiet

-----------------------------------------------------------------------------
\* The token of an edge is refused everywhere, and a restart does not change it.
Blocked(i) == i \in registry /\ \A r \in Replicas : i \in replica[r].authz

\* The probe of the first read was answered by a replica that refuses the
\* token; since the replicas seen in the second agree, all of them do.
Refused == \E a \in gate.authz : tool.id \in a
AuthzRead ==
    /\ gate.authz = {} => Replicas \subseteq gate.todo
    /\ Refused => /\ \A a \in gate.authz : tool.id \in a
                  /\ \A r \in Replicas \ gate.todo : tool.id \in replica[r].authz
    /\ gate.n = 1 => \E r \in Replicas : tool.id \in replica[r].authz /\ (r \notin gate.todo => Refused)

RegistryInv ==
    /\ \A r \in Replicas : replica[r].authz \subseteq registry
    /\ tool.pc # "off" => tool.id \in registry
    /\ tool.pc \in {"A", "B"} => AuthzRead
    /\ tool.pc \in {"flip", "B", "trim"} => Blocked(tool.id)
    /\ \A i \in done.severed : Blocked(i)
    /\ \A p \in done.flips : Blocked(p[1])

\* Leaves that were noted in a ledger.  A key that has never been active has
\* no entry, and the edge of the run that has flipped to it gets none.
Noted == lost \cup UNION {replica[r].issued : r \in Replicas}
LedgerInv ==
    /\ \A p \in Noted : p[2] \in Generated
    /\ Len(Secret.crt) = 2 /\ Secret.active = "old" => \A i \in Ids : <<i, Secret.crt[2]>> \notin Noted
    /\ done.flips \cap Noted = {}
    /\ \A i \in done.severed, c \in CertsOf(Len(log)), r \in Replicas : <<i, c>> \notin replica[r].issued

RevokedInv == RegistryInv /\ LedgerInv

\* Until a rotation, bootstrap Jobs have been given the only CA.
AdoptedInv ==
    Secret.phase = "none" /\ Secret.guard =>
        \E c \in CAs : adopted \subseteq {c} /\ (Secret.crt # <<>> => Secret.crt[1] = c)

IInv == Types /\ GensOK /\ LogInv /\ JobInv /\ FleetInv /\ ToolInv /\ RevokedInv /\ AdoptedInv
-----------------------------------------------------------------------------
(* The Secret and its history.                                             *)

\* The certificates and the signer of a content of the Secret.
Certs(s) == {s.crt[i] : i \in DOMAIN s.crt}
SignerIn(s) == IF s.active = "new" THEN s.crt[Len(s.crt)] ELSE s.crt[1]
Pruned(s) == [s EXCEPT !.crt = <<>>]

\* What a bundle of at most two certificates holds.
LEMMA CertsCases ==
    ASSUME NEW s \in SecretTypes
    PROVE  /\ s.crt \in Seq(CAs) /\ Len(s.crt) \in Nat /\ Certs(s) \subseteq CAs
           /\ Len(s.crt) = 0 <=> s.crt = <<>>
           /\ s.crt = <<>> => Certs(s) = {}
           /\ s.crt # <<>> => s.crt[1] \in CAs /\ SignerIn(s) \in CAs /\ SignerIn(s) \in Certs(s)
           /\ Len(s.crt) = 1 => Certs(s) = {s.crt[1]} /\ SignerIn(s) = s.crt[1]
           /\ Len(s.crt) = 2 => Certs(s) = {s.crt[1], s.crt[2]} /\ s.crt[2] \in CAs
<1> DEFINE q == s.crt
<1>1. q \in Seq(CAs)
  BY DEF SecretTypes
<1>2. Len(q) \in Nat /\ DOMAIN q = 1 .. Len(q) /\ \A i \in 1 .. Len(q) : q[i] \in CAs
  BY <1>1
<1>3. Len(q) = 0 <=> q = <<>>
  BY <1>1, EmptySeq
<1>4. Certs(s) = {q[i] : i \in 1 .. Len(q)} /\ SignerIn(s) = IF s.active = "new" THEN q[Len(q)] ELSE q[1]
  BY <1>2 DEF Certs, SignerIn
<1> HIDE DEF q
<1>5. Certs(s) \subseteq CAs
  BY <1>2, <1>4
<1>6. q = <<>> => Certs(s) = {}
  BY <1>2, <1>3, <1>4
<1>7. q # <<>> => 1 \in 1 .. Len(q) /\ Len(q) \in 1 .. Len(q)
  BY <1>2, <1>3
<1>8. q # <<>> => q[1] \in CAs /\ SignerIn(s) \in CAs /\ SignerIn(s) \in Certs(s)
  BY <1>2, <1>4, <1>7
<1>9. Len(q) = 1 => Certs(s) = {q[1]} /\ SignerIn(s) = q[1]
  <2>1. Len(q) = 1 => 1 .. Len(q) = {1}
    OBVIOUS
  <2> QED
    BY <1>4, <2>1
<1>10. Len(q) = 2 => Certs(s) = {q[1], q[2]} /\ q[2] \in CAs
  <2>1. Len(q) = 2 => 1 .. Len(q) = {1, 2}
    OBVIOUS
  <2> QED
    BY <1>2, <1>4, <2>1
<1> QED
  BY <1>1, <1>2, <1>3, <1>5, <1>6, <1>8, <1>9, <1>10 DEF q

\* A second certificate.
LEMMA AppendTwo ==
    ASSUME NEW q \in Seq(CAs), NEW c \in CAs, Len(q) = 1
    PROVE  Append(q, c) \in Seq(CAs) /\ Len(Append(q, c)) = 2
           /\ Append(q, c)[1] = q[1] /\ Append(q, c)[2] = c
<1>1. /\ Append(q, c) \in Seq(CAs) /\ Len(Append(q, c)) = Len(q) + 1
      /\ (\A i \in 1 .. Len(q) : Append(q, c)[i] = q[i]) /\ Append(q, c)[Len(q) + 1] = c
  BY AppendProperties
<1>2. 1 \in 1 .. Len(q) /\ Len(q) + 1 = 2
  OBVIOUS
<1> QED
  BY <1>1, <1>2

\* EnsureCA generates.
LEMMA EnsuredForm ==
    ASSUME NEW s \in SecretTypes, NEW c \in CAs
    PROVE  /\ Ensured(s, c) \in SecretTypes /\ Len(Ensured(s, c).crt) = 1 /\ Ensured(s, c).crt[1] = c
           /\ Ensured(s, c).guard = TRUE /\ Ensured(s, c).phase = s.phase /\ Ensured(s, c).active = s.active
<1>1. <<c>> \in Seq(CAs) /\ Len(<<c>>) = 1 /\ <<c>>[1] = c /\ TRUE \in BOOLEAN
  OBVIOUS
<1>2. /\ Ensured(s, c).crt = <<c>>
      /\ Ensured(s, c).guard = TRUE /\ Ensured(s, c).phase = s.phase /\ Ensured(s, c).active = s.active
  BY Zenon DEF SecretTypes, Ensured
<1>3. Ensured(s, c) \in SecretTypes
  BY <1>1, Zenon DEF SecretTypes, Ensured
<1> QED
  BY <1>1, <1>2, <1>3

\* RotateCA adds a CA.
LEMMA RotatedForm ==
    ASSUME NEW s \in SecretTypes, NEW c \in CAs, Len(s.crt) = 1
    PROVE  /\ Rotated(s, c) \in SecretTypes /\ Len(Rotated(s, c).crt) = 2
           /\ Rotated(s, c).crt[1] = s.crt[1] /\ Rotated(s, c).crt[2] = c
           /\ Rotated(s, c).phase = "overlap" /\ Rotated(s, c).active = "old"
           /\ Rotated(s, c).staged = TRUE /\ Rotated(s, c).guard = s.guard
<1>1. s.crt \in Seq(CAs) /\ TRUE \in BOOLEAN
  BY DEF SecretTypes
<1>2. /\ Rotated(s, c).phase = "overlap" /\ Rotated(s, c).active = "old"
      /\ Rotated(s, c).staged = TRUE /\ Rotated(s, c).guard = s.guard /\ Rotated(s, c).crt = Append(s.crt, c)
  BY Zenon DEF SecretTypes, Rotated
<1>3. Append(s.crt, c) \in Seq(CAs) /\ Len(Append(s.crt, c)) = 2
      /\ Append(s.crt, c)[1] = s.crt[1] /\ Append(s.crt, c)[2] = c
  BY <1>1, AppendTwo
<1>4. Rotated(s, c) \in SecretTypes
  BY <1>1, <1>3, Zenon DEF SecretTypes, Rotated
<1> QED
  BY <1>2, <1>3, <1>4

\* What it returns to the tool.
LEMMA RotatedBundle ==
    ASSUME NEW s \in SecretTypes, NEW c \in CAs
    PROVE  Rotated(s, c).crt = Append(s.crt, c)
  BY Zenon DEF SecretTypes, Rotated

\* SetActiveNew changes nothing but the active key.
LEMMA FlippedForm ==
    ASSUME NEW s \in SecretTypes
    PROVE  /\ Flipped(s) \in SecretTypes /\ Flipped(s).crt = s.crt /\ Flipped(s).active = "new"
           /\ Flipped(s).phase = s.phase /\ Flipped(s).guard = s.guard /\ Flipped(s).staged = s.staged
  BY Zenon DEF SecretTypes, Flipped

\* TrimCA leaves NEW.
LEMMA TrimmedForm ==
    ASSUME NEW s \in SecretTypes, Len(s.crt) = 2
    PROVE  /\ Trimmed(s) \in SecretTypes /\ Len(Trimmed(s).crt) = 1 /\ Trimmed(s).crt[1] = s.crt[2]
           /\ Trimmed(s).phase = "trimmed" /\ Trimmed(s).active = "old" /\ Trimmed(s).guard = s.guard
<1>1. s.crt \in Seq(CAs) /\ FALSE \in BOOLEAN
  BY DEF SecretTypes
<1>2. /\ Trimmed(s).phase = "trimmed" /\ Trimmed(s).active = "old" /\ Trimmed(s).guard = s.guard
      /\ Trimmed(s).crt = <<s.crt[2]>>
  BY Zenon DEF SecretTypes, Trimmed
<1>3. s.crt[2] \in CAs
  BY <1>1
<1>4. <<s.crt[2]>> \in Seq(CAs) /\ Len(<<s.crt[2]>>) = 1 /\ <<s.crt[2]>>[1] = s.crt[2]
  BY <1>3
<1>5. Trimmed(s) \in SecretTypes
  BY <1>1, <1>4, Zenon DEF SecretTypes, Trimmed
<1> QED
  BY <1>2, <1>4, <1>5

\* The data is pruned, the annotations stay.
LEMMA PrunedForm ==
    ASSUME NEW s \in SecretTypes
    PROVE  /\ Pruned(s) \in SecretTypes /\ Pruned(s).crt = <<>> /\ Pruned(s).phase = s.phase
           /\ Pruned(s).active = s.active /\ Pruned(s).guard = s.guard
<1>1. <<>> \in Seq(CAs)
  OBVIOUS
<1> QED
  BY <1>1, Zenon DEF SecretTypes, Pruned

\* What is read of the log.
LEMMA LogTypes ==
    ASSUME Types
    PROVE  /\ Len(log) \in Nat /\ Len(log) \in Versions /\ Secret \in SecretTypes /\ DOMAIN log = Versions
           /\ \A v \in Versions : log[v] \in SecretTypes
           /\ \A v : CertsOf(v) = Certs(log[v]) /\ Signer(v) = SignerIn(log[v])
<1>1. Len(log) \in Nat /\ DOMAIN log = 1 .. Len(log) /\ \A v \in 1 .. Len(log) : log[v] \in SecretTypes
  BY DEF Types
<1>2. Len(log) \in 1 .. Len(log)
  BY <1>1 DEF Types
<1> QED
  BY <1>1, <1>2 DEF Versions, Secret, CertsOf, Certs, Signer, SignerIn

\* A write adds a version and leaves the others.
LEMMA LogGrows ==
    ASSUME Types, NEW s \in SecretTypes, CAS(s)
    PROVE  /\ log' \in Seq(SecretTypes) /\ Len(log') = Len(log) + 1 /\ Secret' = s
           /\ Len(log) \in Nat /\ Len(log) > 0
           /\ Versions' = Versions \cup {Len(log) + 1} /\ Len(log) + 1 \notin Versions
           /\ log'[Len(log) + 1] = s /\ \A v \in Versions : log'[v] = log[v]
<1>1. log \in Seq(SecretTypes) /\ Len(log) \in Nat /\ Len(log) > 0
  BY DEF Types
<1>2. log' = Append(log, s)
  BY DEF CAS
<1>3. /\ log' \in Seq(SecretTypes) /\ Len(log') = Len(log) + 1
      /\ log'[Len(log) + 1] = s /\ \A v \in 1 .. Len(log) : log'[v] = log[v]
  BY <1>1, <1>2, AppendProperties
<1>4. 1 .. (Len(log) + 1) = (1 .. Len(log)) \cup {Len(log) + 1} /\ Len(log) + 1 \notin 1 .. Len(log)
  BY <1>1
<1> QED
  BY <1>1, <1>3, <1>4 DEF Versions, Secret

\* The writes of the Secret.
Written(s) ==
    \/ \E c \in CAs \ Generated : EnsureWrites(Secret) /\ s = Ensured(Secret, c)
    \/ \E c \in CAs \ Generated : RotateWrites(Secret) /\ s = Rotated(Secret, c)
    \/ FlipWrites(Secret, NewCA) /\ tool.pc = "flip" /\ s = Flipped(Secret)
    \/ TrimWrites(Secret, NewCA) /\ tool.pc = "trim" /\ s = Trimmed(Secret)
    \/ s = Secret
    \/ Len(Secret.crt) = 1 /\ s = Pruned(Secret)

\* What the tool knows after its writes.
Widened(b) == [tool EXCEPT !.pc = "A", !.bundle = b]
FlipNoted == [done EXCEPT !.flips = @ \cup {<<tool.id, NewCA>>}]

\* Such a write, with what it tells the tool and the bootstrap Jobs.
WriteStep(s) ==
    /\ CAS(s) /\ UNCHANGED <<registry, fleet, gate>>
    /\ \/ \E c \in CAs \ Generated :
             /\ EnsureWrites(Secret) /\ s = Ensured(Secret, c)
             /\ adopted' = adopted \cup {c} /\ tool' = tool /\ done' = done
       \/ \E c \in CAs \ Generated :
             /\ RotateWrites(Secret) /\ s = Rotated(Secret, c) /\ adopted' = adopted /\ done' = done
             /\ \/ tool' = tool
                \/ tool.pc = "rotate" /\ tool' = Widened(Append(Secret.crt, c))
       \/ /\ FlipWrites(Secret, NewCA) /\ tool.pc = "flip" /\ s = Flipped(Secret)
          /\ adopted' = adopted /\ tool' = [tool EXCEPT !.pc = "B"] /\ done' = FlipNoted
       \/ /\ TrimWrites(Secret, NewCA) /\ tool.pc = "trim" /\ s = Trimmed(Secret)
          /\ adopted' = adopted /\ tool' = Off /\ done' = Reported
       \/ /\ s = Secret \/ (Len(Secret.crt) = 1 /\ s = Pruned(Secret))
          /\ adopted' = adopted /\ tool' = tool /\ done' = done

LEMMA WriteStepWrites ==
    ASSUME NEW s, WriteStep(s)
    PROVE  Written(s) /\ CAS(s)
  BY DEF WriteStep, Written

\* Every change of the Secret is one of them.
LEMMA WritesOnly ==
    ASSUME JobInv, Types, Next
    PROVE  \/ log' = log
           \/ \E s : WriteStep(s)
<1> USE DEF JobInv
<1>1. ASSUME NEW j \in Jobs, NEW c \in CAs, EnsureUpdate(j, c)
      PROVE  \E s : WriteStep(s)
  BY <1>1 DEF EnsureUpdate, WriteStep
<1>2. ASSUME NEW j \in Jobs, NEW c \in CAs, RotateUpdate(j, c)
      PROVE  \E s : WriteStep(s)
  BY <1>2 DEF RotateUpdate, WriteStep
<1>3. CASE Edit
  <2>1. /\ UNCHANGED <<registry, fleet, gate>> /\ adopted' = adopted /\ tool' = tool /\ done' = done
        /\ CAS(Secret) \/ (Len(Secret.crt) = 1 /\ CAS(Pruned(Secret)))
    BY <1>3 DEF Edit, Pruned
  <2>2. WriteStep(Secret) \/ WriteStep(Pruned(Secret))
    BY <2>1 DEF WriteStep
  <2> QED
    BY <2>2
<1>4. CASE ToolRotate
  BY <1>4 DEF ToolRotate, ToolGet, ToolUpdate, WriteStep, Widened
<1>5. CASE ToolFlip
  BY <1>5 DEF ToolFlip, ToolGet, ToolUpdate, WriteStep, FlipNoted
<1>6. CASE ToolTrim
  BY <1>6 DEF ToolTrim, ToolGet, ToolUpdate, WriteStep
<1>7. CASE \/ \E j \in Jobs : EnsureGet(j) \/ RotateGet(j)
           \/ (\E i \in Ids : Blacklist(i) \/ ToolStart(i)) \/ ToolExits \/ Probe \/ ReadFails \/ \E x \in Reporters : Scrape(x)
  BY <1>7 DEF EnsureGet, RotateGet, Blacklist, ToolStart, ToolExits, Probe, ReadFails, Scrape
<1>8. CASE \/ \E r \in Replicas : RestartReplica(r) \/ (\E v \in DOMAIN log : Reload(r, v))
           \/ \E e \in Edges : MintEnds(e) \/ (\E r \in Replicas : MintBegins(e, r))
           \/ \E k \in Cores : \E r \in Replicas : RestartCore(k, r) \/ Apply(k, r)
  BY <1>8 DEF RestartReplica, Reload, MintEnds, MintBegins, RestartCore, Apply
<1> QED
  BY <1>1, <1>2, <1>3, <1>4, <1>5, <1>6, <1>7, <1>8 DEF Next

-----------------------------------------------------------------------------
(* The Secret step by step.                                                *)

\* A generated certificate is in some version.
LEMMA NotGenerated ==
    ASSUME Types, NEW c, c \notin Generated
    PROVE  \A v \in Versions : c \notin Certs(log[v]) /\ (Filled(v) => SignerIn(log[v]) # c)
<1>1. \A v \in Versions : CertsOf(v) \subseteq Generated
  BY LogTypes DEF Generated
<1> QED
  BY <1>1, LogTypes, CertsCases DEF Filled

\* What a write makes of the Secret.
LEMMA WriteForms ==
    ASSUME Types, LogInv, NEW s, Written(s)
    PROVE  /\ s \in SecretTypes /\ SecretOK(s)
           /\ Secret.guard => s.guard
           /\ s.crt # <<>> /\ Secret.crt # <<>> /\ ~(tool.pc = "flip" /\ s = Flipped(Secret))
                 => SignerIn(s) = SignerIn(Secret)
<1>0. Secret \in SecretTypes /\ SecretOK(Secret) /\ Secret.crt \in Seq(CAs)
  BY LogTypes, CertsCases DEF LogInv, Secret
<1>1. ASSUME NEW c \in CAs \ Generated, EnsureWrites(Secret), s = Ensured(Secret, c)
      PROVE  s \in SecretTypes /\ SecretOK(s) /\ s.guard /\ Secret.crt = <<>>
  <2>1. /\ s \in SecretTypes /\ Len(s.crt) = 1 /\ s.guard /\ s.active = Secret.active
        /\ s.phase = Secret.phase
    BY <1>0, <1>1, EnsuredForm
  <2>2. Secret.crt = <<>> /\ Len(Secret.crt) = 0
    BY <1>0, <1>1, CertsCases DEF EnsureWrites
  <2> QED
    BY <1>0, <2>1, <2>2 DEF SecretOK, Overlapping
<1>2. ASSUME NEW c \in CAs \ Generated, RotateWrites(Secret), s = Rotated(Secret, c)
      PROVE  s \in SecretTypes /\ SecretOK(s) /\ s.guard /\ SignerIn(s) = SignerIn(Secret)
  <2>1. /\ s \in SecretTypes /\ Len(s.crt) = 2 /\ s.guard = Secret.guard /\ s.active = "old"
        /\ s.phase = "overlap" /\ s.staged = TRUE /\ s.crt[1] = Secret.crt[1] /\ s.crt[2] = c
    <3>1. c \in CAs /\ Len(Secret.crt) = 1
      BY <1>2 DEF RotateWrites
    <3>2. /\ Rotated(Secret, c) \in SecretTypes /\ Len(Rotated(Secret, c).crt) = 2
          /\ Rotated(Secret, c).crt[1] = Secret.crt[1] /\ Rotated(Secret, c).crt[2] = c
          /\ Rotated(Secret, c).phase = "overlap" /\ Rotated(Secret, c).active = "old"
          /\ Rotated(Secret, c).staged = TRUE /\ Rotated(Secret, c).guard = Secret.guard
      BY <1>0, <3>1, RotatedForm
    <3> QED
      BY <1>2, <3>2, Zenon
  <2>2. Secret.crt[1] \in Certs(Secret) /\ Secret.crt # <<>> /\ SignerIn(Secret) = Secret.crt[1]
    BY <1>0, <1>2, CertsCases DEF RotateWrites
  <2>3. c \notin Certs(Secret)
    BY <1>2, NotGenerated, LogTypes DEF Secret
  <2> QED
    BY <1>0, <2>1, <2>2, <2>3 DEF SecretOK, Overlapping, SignerIn
<1>3. ASSUME FlipWrites(Secret, NewCA), s = Flipped(Secret)
      PROVE  s \in SecretTypes /\ SecretOK(s) /\ (Secret.guard => s.guard)
  <2>1. /\ s \in SecretTypes /\ s.crt = Secret.crt /\ s.guard = Secret.guard /\ s.active = "new"
        /\ s.phase = Secret.phase /\ s.staged = Secret.staged
    BY <1>0, <1>3, FlippedForm
  <2> QED
    BY <1>0, <1>3, <2>1 DEF FlipWrites, SecretOK, Overlapping
<1>4. ASSUME TrimWrites(Secret, NewCA), s = Trimmed(Secret)
      PROVE  s \in SecretTypes /\ SecretOK(s) /\ (Secret.guard => s.guard) /\ SignerIn(s) = SignerIn(Secret)
  <2>1. Len(Secret.crt) = 2 /\ Secret.active = "new" /\ Secret.crt # <<>>
    BY <1>0, <1>4, CertsCases DEF TrimWrites, Overlapping
  <2>3. /\ s \in SecretTypes /\ Len(s.crt) = 1 /\ s.guard = Secret.guard /\ s.active = "old"
        /\ s.phase = "trimmed" /\ s.crt[1] = Secret.crt[2]
    BY <1>0, <1>4, <2>1, TrimmedForm
  <2> QED
    BY <1>0, <2>1, <2>3 DEF SecretOK, Overlapping, SignerIn
<1>5. ASSUME Len(Secret.crt) = 1, s = Pruned(Secret)
      PROVE  s \in SecretTypes /\ SecretOK(s) /\ (Secret.guard => s.guard) /\ s.crt = <<>>
  <2>2. /\ s \in SecretTypes /\ s.crt = <<>> /\ Len(s.crt) = 0 /\ s.guard = Secret.guard
        /\ s.active = Secret.active /\ s.phase = Secret.phase
    BY <1>0, <1>5, PrunedForm, CertsCases
  <2>3. Secret.active # "new" /\ Secret.phase # "overlap" /\ Secret.crt # <<>>
    BY <1>0, <1>5, CertsCases DEF SecretOK
  <2> QED
    BY <1>0, <2>2, <2>3 DEF SecretOK, Overlapping
<1> QED
  BY <1>0, <1>1, <1>2, <1>3, <1>4, <1>5 DEF Written

\* A write keeps the runs of signers and overlaps: what it brings back was
\* there last, or has never been.
LEMMA LogInvWrite ==
    ASSUME Types, LogInv, NEW s, Written(s), CAS(s)
    PROVE  LogInv'
<1> DEFINE L == Len(log)
<1>1. s \in SecretTypes /\ SecretOK(s)
  BY WriteForms
<1>2. /\ Len(log') = L + 1 /\ Secret' = s /\ L \in Nat /\ L > 0 /\ Versions' = Versions \cup {L + 1}
      /\ log'[L + 1] = s /\ \A v \in Versions : log'[v] = log[v]
  BY <1>1, LogGrows
<1>3. /\ L \in Versions /\ Secret = log[L] /\ Secret \in SecretTypes /\ SecretOK(Secret)
      /\ \A v \in Versions : log[v] \in SecretTypes /\ v <= L
  BY <1>2, LogTypes DEF Secret, LogInv, Versions
<1>4. \A v : Signer(v) = SignerIn(log[v]) /\ Signer(v)' = SignerIn(log'[v])
  BY DEF Signer, SignerIn
<1> HIDE DEF L
<1>5. \A v \in Versions' : SecretOK(log'[v])
  BY <1>1, <1>2 DEF LogInv
<1>6. SignerRuns'
  <2> SUFFICES ASSUME s.crt # <<>>, NEW v \in Versions', NEW w \in Versions', v <= w,
                      log'[v].crt # <<>>, log'[w].crt # <<>>, SignerIn(log'[v]) = SignerIn(s)
               PROVE  SignerIn(log'[w]) = SignerIn(s)
    BY <1>2, <1>4 DEF SignerRuns, Filled
  <2>1. CASE w = L + 1
    BY <1>2, <2>1
  <2>2. CASE w \in Versions
    <3>1. v \in Versions /\ log'[v] = log[v] /\ log'[w] = log[w]
      BY <1>2, <1>3, <2>2 DEF Versions
    <3>2. CASE SignerIn(s) = SignerIn(Secret) /\ Secret.crt # <<>>
      BY <1>3, <1>4, <2>2, <3>1, <3>2 DEF LogInv, SignerRuns, Filled, Secret
    <3>3. CASE s = Flipped(Secret) /\ FlipWrites(Secret, NewCA)
      <4>1. Secret.active = "old" /\ Len(Secret.crt) = 2 /\ SignerIn(s) = Secret.crt[2]
        <5>1. Secret.active = "old" /\ Len(Secret.crt) = 2 /\ Secret.crt # <<>>
          BY <1>3, <3>3, CertsCases DEF FlipWrites, Overlapping
        <5>3. s.crt = Secret.crt /\ s.active = "new"
          BY <1>3, <3>3, FlippedForm
        <5> QED
          BY <5>1, <5>3 DEF SignerIn
      <4> QED
        BY <1>4, <3>1, <4>1 DEF LogInv, NewUnused, Filled
    <3>4. CASE \E c \in CAs \ Generated : EnsureWrites(Secret) /\ s = Ensured(Secret, c)
      <4>1. PICK c \in CAs \ Generated : EnsureWrites(Secret) /\ s = Ensured(Secret, c)
        BY <3>4
      <4>2. SignerIn(s) = c
        <5>1. c \in CAs
          BY <4>1
        <5>2. Len(s.crt) = 1 /\ s.crt[1] = c
          BY <1>3, <4>1, <5>1, EnsuredForm, Zenon
        <5> QED
          BY <1>1, <5>2, CertsCases
      <4> QED
        BY <3>1, <4>1, <4>2, NotGenerated DEF Filled
    <3>5. \/ SignerIn(s) = SignerIn(Secret) /\ Secret.crt # <<>>
          \/ s = Flipped(Secret) /\ FlipWrites(Secret, NewCA)
          \/ \E c \in CAs \ Generated : EnsureWrites(Secret) /\ s = Ensured(Secret, c)
      <4>1. CASE Secret.crt # <<>> /\ ~(s = Flipped(Secret))
        BY <4>1, WriteForms
      <4>2. CASE Secret.crt = <<>>
        <5>1. Len(Secret.crt) = 0 /\ Pruned(Secret).crt = <<>>
          BY <1>3, <4>2, CertsCases, PrunedForm
        <5> QED
          BY <4>2, <5>1 DEF Written, RotateWrites, FlipWrites, TrimWrites, Overlapping
      <4>3. CASE s = Flipped(Secret) /\ ~FlipWrites(Secret, NewCA) /\ Secret.crt # <<>>
        <5>1. ~(tool.pc = "flip" /\ FlipWrites(Secret, NewCA))
          BY <4>3
        <5>3. s.active = "new"
          BY <1>3, <4>3, FlippedForm
        <5>4. s = Secret
          <6>1. ASSUME NEW d \in CAs, EnsureWrites(Secret), s = Ensured(Secret, d) PROVE FALSE
            BY <4>3, <6>1 DEF EnsureWrites
          <6>2. ASSUME NEW d \in CAs, RotateWrites(Secret), s = Rotated(Secret, d) PROVE FALSE
            BY <1>3, <5>3, <6>2, RotatedForm DEF RotateWrites
          <6>3. ASSUME TrimWrites(Secret, NewCA), s = Trimmed(Secret) PROVE FALSE
            BY <1>3, <5>3, <6>3, TrimmedForm DEF TrimWrites, Overlapping
          <6>4. ASSUME s = Pruned(Secret), Len(Secret.crt) = 1 PROVE FALSE
            BY <1>1, <1>3, <5>3, <6>4, PrunedForm DEF SecretOK
          <6> QED
            BY <5>1, <6>1, <6>2, <6>3, <6>4 DEF Written
        <5> QED
          BY <4>3, <5>4
      <4> QED
        BY <4>1, <4>2, <4>3
    <3> QED
      BY <3>2, <3>3, <3>4, <3>5
  <2> QED
    BY <1>2, <2>1, <2>2
<1>7. OverlapRuns' /\ NewUnused'
  <2>1. CASE s.crt = Secret.crt
    <3>1. OverlapRuns'
      <4> SUFFICES ASSUME Len(s.crt) = 2, NEW v \in Versions', NEW w \in Versions', v <= w,
                          log'[v].crt = s.crt, log'[w].crt # <<>>
                   PROVE  log'[w].crt = s.crt
        BY <1>2 DEF OverlapRuns, Filled
      <4>1. CASE w = L + 1
        BY <1>2, <4>1
      <4>2. CASE w \in Versions
        <5>1. v \in Versions /\ log'[v] = log[v] /\ log'[w] = log[w]
          BY <1>2, <1>3, <4>2 DEF Versions
        <5> QED
          BY <2>1, <4>2, <5>1 DEF LogInv, OverlapRuns, Filled
      <4> QED
        BY <1>2, <4>1, <4>2
    <3>2. NewUnused'
      <4> SUFFICES ASSUME Len(s.crt) = 2, s.active = "old", NEW v \in Versions', log'[v].crt # <<>>
                   PROVE  SignerIn(log'[v]) # s.crt[2]
        BY <1>2, <1>4 DEF NewUnused, Filled
      <4>1. CASE v = L + 1
        BY <1>1, <1>2, <4>1 DEF SignerIn, SecretOK
      <4>2. CASE v \in Versions
        <5>1. Secret.active = "old"
          <6>1. s # Flipped(Secret)
            BY <1>3, FlippedForm
          <6>2. ASSUME NEW d \in CAs, EnsureWrites(Secret), s = Ensured(Secret, d) PROVE FALSE
            BY <1>3, <2>1, <6>2, CertsCases DEF EnsureWrites
          <6>3. ASSUME RotateWrites(Secret) \/ Len(Secret.crt) = 1 PROVE FALSE
            BY <2>1, <6>3 DEF RotateWrites
          <6>4. ASSUME TrimWrites(Secret, NewCA), s = Trimmed(Secret) PROVE FALSE
            <7>1. Len(Secret.crt) = 2
              BY <6>4 DEF TrimWrites, Overlapping
            <7> QED
              BY <1>3, <6>4, <7>1, TrimmedForm
          <6> QED
            BY <6>1, <6>2, <6>3, <6>4 DEF Written
        <5> QED
          BY <1>2, <1>4, <2>1, <4>2, <5>1 DEF LogInv, NewUnused, Filled
      <4> QED
        BY <1>2, <4>1, <4>2
    <3> QED
      BY <3>1, <3>2
  <2>2. CASE s.crt # Secret.crt /\ Len(s.crt) = 2
    <3>1. PICK c \in CAs \ Generated : RotateWrites(Secret) /\ s = Rotated(Secret, c)
      <4>1. ASSUME NEW d \in CAs, s = Ensured(Secret, d) PROVE FALSE
        <5>1. Len(s.crt) = 1
          BY <1>3, <4>1, EnsuredForm, Zenon
        <5> QED
          BY <2>2, <5>1
      <4>3. s # Flipped(Secret) /\ s # Pruned(Secret)
        BY <1>1, <1>3, <2>2, FlippedForm, PrunedForm, CertsCases
      <4>4. ASSUME TrimWrites(Secret, NewCA), s = Trimmed(Secret) PROVE FALSE
        BY <1>3, <2>2, <4>4, TrimmedForm DEF TrimWrites, Overlapping
      <4> QED
        BY <2>2, <4>1, <4>3, <4>4 DEF Written
    <3>2. s.crt[2] = c /\ s.active = "old" /\ c \in Certs(s)
      <4>1. c \in CAs /\ Len(Secret.crt) = 1
        BY <3>1 DEF RotateWrites
      <4>2. s.crt[2] = c /\ s.active = "old"
        BY <1>3, <3>1, <4>1, RotatedForm, Zenon
      <4> QED
        BY <1>1, <2>2, <4>2, CertsCases
    <3>3. \A v \in Versions : log'[v].crt # s.crt /\ (log'[v].crt # <<>> => SignerIn(log'[v]) # c)
      <4>1. \A v \in Versions : c \notin Certs(log[v])
        BY <3>1, NotGenerated
      <4>2. \A v \in Versions : log[v].crt # s.crt
        BY <3>2, <4>1 DEF Certs
      <4> QED
        BY <1>2, <3>1, <4>2, NotGenerated DEF Filled
    <3>4. OverlapRuns'
      <4> SUFFICES ASSUME NEW v \in Versions', NEW w \in Versions', v <= w, log'[v].crt = s.crt
                   PROVE  log'[w].crt = s.crt
        BY <1>2 DEF OverlapRuns, Filled
      <4>1. v = L + 1
        BY <1>2, <3>3
      <4>2. w = L + 1
        BY <1>2, <1>3, <4>1 DEF Versions
      <4> QED
        BY <1>2, <4>2
    <3>5. NewUnused'
      BY <1>1, <1>2, <1>4, <2>2, <3>2, <3>3 DEF NewUnused, Filled, SignerIn, SecretOK
    <3> QED
      BY <3>4, <3>5
  <2>3. CASE Len(s.crt) # 2
    BY <1>2, <2>3 DEF OverlapRuns, NewUnused
  <2> QED
    BY <2>1, <2>2, <2>3
<1> QED
  BY <1>5, <1>6, <1>7 DEF LogInv

-----------------------------------------------------------------------------
(* Types.                                                                  *)

\* A leaf shows a signer of the bundle it is minted from.
LEMMA LeafTyped ==
    ASSUME Types, NEW v \in Versions, Filled(v)
    PROVE  /\ Leaf(v) \in Leaves /\ Leaf(v).by = {Signer(v)}
           /\ Signer(v) \in CAs /\ Signer(v) \in CertsOf(v)
<1>1. /\ Signer(v) \in CAs /\ Signer(v) \in CertsOf(v) /\ CertsOf(v) \subseteq CAs
  BY LogTypes, CertsCases DEF Filled
<1> QED
  BY <1>1 DEF Leaf, Leaves

\* A replica that has a signer has it from a version of the Secret with a CA.
LEMMA ReplicaGen ==
    ASSUME Types, GensOK, NEW r \in Replicas, replica[r].gen # 0
    PROVE  /\ replica[r].gen \in Versions /\ Filled(replica[r].gen)
           /\ Leaf(replica[r].gen) \in Leaves /\ Leaf(replica[r].gen).by = {Signer(replica[r].gen)}
           /\ Signer(replica[r].gen) \in CAs /\ Signer(replica[r].gen) \in CertsOf(replica[r].gen)
  BY LeafTyped DEF GensOK

\* No leaf and no mint are typed.
LEMMA NoLeafTyped ==
    NoLeaf \in Leaves /\ NoLeaf.by = {} /\ NoLeaf.cas = {}
    /\ NoMint \in MintTypes /\ NoMint.leaf = NoLeaf /\ NoMint.old = FALSE
  BY DEF NoLeaf, Leaves, NoMint, MintTypes

\* Nobody has been seen in a quiet gate.
LEMMA QuietTyped ==
    /\ Quiet \in GateRecord
    /\ Quiet.n = 0 /\ Quiet.todo = Reporters /\ Quiet.gens = {} /\ Quiet.authz = {}
    /\ [Quiet EXCEPT !.n = 1] \in GateRecord
    /\ [Quiet EXCEPT !.n = 1].n = 1 /\ [Quiet EXCEPT !.n = 1].todo = Reporters
    /\ [Quiet EXCEPT !.n = 1].gens = {} /\ [Quiet EXCEPT !.n = 1].authz = {}
  BY DEF Quiet, GateRecord

\* The variables of the fleet, and the gate, by the steps that change them.
LEMMA FleetTypes ==
    ASSUME Types, GensOK, [Next]_vars, log' = log
    PROVE  /\ replica' \in [Replicas -> ReplicaTypes] /\ core' \in [Cores -> Nat]
           /\ edge' \in [Edges -> EdgeTypes] /\ lost' \subseteq Pairs
           /\ registry' \subseteq Ids
           /\ \A r \in Replicas : replica'[r].gen # 0 =>
                 replica'[r].gen \in Versions /\ Filled(replica'[r].gen)
           /\ \A k \in Cores : core'[k] # 0 => core'[k] \in Versions
<1> DEFINE Goal == /\ replica' \in [Replicas -> ReplicaTypes] /\ core' \in [Cores -> Nat]
                   /\ edge' \in [Edges -> EdgeTypes] /\ lost' \subseteq Pairs
                   /\ registry' \subseteq Ids
                   /\ \A r \in Replicas : replica'[r].gen # 0 =>
                         replica'[r].gen \in Versions /\ Filled(replica'[r].gen)
                   /\ \A k \in Cores : core'[k] # 0 => core'[k] \in Versions
<1>0. /\ replica \in [Replicas -> ReplicaTypes] /\ core \in [Cores -> Nat]
      /\ edge \in [Edges -> EdgeTypes] /\ lost \subseteq Pairs /\ registry \subseteq Ids
      /\ \A r \in Replicas : replica[r].gen # 0 =>
            replica[r].gen \in Versions /\ Filled(replica[r].gen)
      /\ \A k \in Cores : core[k] # 0 => core[k] \in Versions
  BY DEF Types, GensOK
<1>a. Versions \subseteq Nat
  BY LogTypes DEF Versions
<1>1. CASE UNCHANGED <<replica, core, edge, lost, registry>>
  BY <1>0, <1>1
<1>2. ASSUME NEW r \in Replicas, NEW v \in DOMAIN log, Reload(r, v) PROVE Goal
  <2>1. v \in Versions /\ Filled(v) /\ v \in Nat
    BY <1>2, <1>a, LogTypes DEF Reload, Filled
  <2>2. UNCHANGED <<core, edge, lost, registry>>
    BY <1>2 DEF Reload
  <2>3. replica' = replica \/ replica' = [replica EXCEPT ![r].gen = v]
    BY <1>2 DEF Reload, SetSigner
  <2>4. [replica EXCEPT ![r].gen = v] \in [Replicas -> ReplicaTypes]
    BY <1>0, <2>1, Zenon DEF ReplicaTypes
  <2>5. \A q \in Replicas : replica'[q].gen \in {replica[q].gen, v}
    BY <1>0, <2>3 DEF ReplicaTypes
  <2> QED
    BY <1>0, <2>1, <2>2, <2>3, <2>4, <2>5
<1>3. ASSUME NEW r \in Replicas, RestartReplica(r) PROVE Goal
  <2>1. Loaded \in Nat /\ (Loaded # 0 => Loaded \in Versions /\ Filled(Loaded))
    BY <1>a, LogTypes DEF Loaded, Filled, Secret
  <2>2. [gen |-> Loaded, authz |-> registry, issued |-> {}] \in ReplicaTypes
    BY <1>0, <2>1 DEF ReplicaTypes
  <2>3. replica' \in [Replicas -> ReplicaTypes] /\ UNCHANGED <<core, edge, registry>>
    BY <1>0, <1>3, <2>2 DEF RestartReplica
  <2>4. \A q \in Replicas : replica'[q].gen \in {replica[q].gen, Loaded}
    BY <1>0, <1>3 DEF RestartReplica
  <2>5. lost' \subseteq Pairs
    BY <1>0, <1>3 DEF RestartReplica, ReplicaTypes
  <2> QED
    BY <1>0, <2>1, <2>3, <2>4, <2>5
<1>5. ASSUME NEW k \in Cores, NEW r \in Replicas, Apply(k, r) PROVE Goal
  <2>1. replica[r].gen \in Nat /\ core[k] \in Nat
    BY <1>0 DEF ReplicaTypes
  <2>2. replica[r].gen # 0
    BY <1>5, <2>1 DEF Apply
  <2>3. UNCHANGED <<replica, edge, lost, registry>> /\ core' = [core EXCEPT ![k] = replica[r].gen]
    BY <1>5 DEF Apply
  <2> QED
    BY <1>0, <2>1, <2>2, <2>3
<1>6. ASSUME NEW k \in Cores, NEW r \in Replicas, RestartCore(k, r) PROVE Goal
  <2>1. UNCHANGED <<replica, edge, lost, registry>> /\ core' = [core EXCEPT ![k] = replica[r].gen]
    BY <1>6 DEF RestartCore
  <2>2. replica[r].gen \in Nat
    BY <1>0 DEF ReplicaTypes
  <2> QED
    BY <1>0, <2>1, <2>2
<1>7. ASSUME NEW e \in Edges, NEW r \in Replicas, MintBegins(e, r) PROVE Goal
  <2>1. Leaf(replica[r].gen) \in Leaves /\ Signer(replica[r].gen) \in CAs
    BY <1>7, ReplicaGen DEF MintBegins
  <2>2. [leaf |-> Leaf(replica[r].gen), old |-> FALSE] \in MintTypes
    BY <2>1 DEF MintTypes
  <2>3. UNCHANGED <<core, lost, registry>>
        /\ edge' = [edge EXCEPT ![e].mint = [leaf |-> Leaf(replica[r].gen), old |-> FALSE]]
    BY <1>7 DEF MintBegins
  <2>4. edge' \in [Edges -> EdgeTypes]
    BY <1>0, <2>2, <2>3, Zenon DEF EdgeTypes
  <2>5. replica[r].issued \cup Entry(edge[e].id, replica[r].gen) \in SUBSET Pairs
    BY <1>0, <2>1 DEF ReplicaTypes, EdgeTypes, Entry, Pairs
  <2>6. replica' = [replica EXCEPT ![r].issued = replica[r].issued \cup Entry(edge[e].id, replica[r].gen)]
    BY <1>0, <1>7 DEF MintBegins
  <2>7. replica' \in [Replicas -> ReplicaTypes]
    BY <1>0, <2>5, <2>6, Zenon DEF ReplicaTypes
  <2>8. \A q \in Replicas : replica'[q].gen = replica[q].gen
    BY <1>0, <2>6 DEF ReplicaTypes
  <2> QED
    BY <1>0, <2>3, <2>4, <2>7, <2>8
<1>8. ASSUME NEW e \in Edges, MintEnds(e) PROVE Goal
  <2>1. edge[e] \in EdgeTypes /\ edge[e].mint.leaf \in Leaves
    BY <1>0 DEF EdgeTypes, MintTypes
  <2>2. [edge[e] EXCEPT !.leaf = edge[e].mint.leaf, !.mint = NoMint] \in EdgeTypes
    BY <2>1, NoLeafTyped, Zenon DEF EdgeTypes
  <2>3. [edge EXCEPT ![e].mint = NoMint] \in [Edges -> EdgeTypes]
    BY <1>0, NoLeafTyped, Zenon DEF EdgeTypes
  <2>4. edge' \in [Edges -> EdgeTypes] /\ UNCHANGED <<replica, core, lost, registry>>
    BY <1>0, <1>8, <2>2, <2>3 DEF MintEnds
  <2> QED
    BY <1>0, <2>4
<1>9. CASE Probe
  <2>1. ASSUME NEW e \in Edges PROVE [edge[e] EXCEPT !.mint.old = (edge[e].mint # NoMint)] \in EdgeTypes
    <3>1. edge[e] \in EdgeTypes /\ (edge[e].mint # NoMint) \in BOOLEAN
      BY <1>0
    <3> QED
      BY <3>1, Zenon DEF EdgeTypes, MintTypes
  <2>2. UNCHANGED edge \/ edge' = [e \in Edges |-> [edge[e] EXCEPT !.mint.old = (edge[e].mint # NoMint)]]
    BY <1>9 DEF Probe
  <2>3. edge' \in [Edges -> EdgeTypes]
    BY <1>0, <2>1, <2>2
  <2>4. UNCHANGED <<replica, core, lost, registry>>
    BY <1>9 DEF Probe
  <2> QED
    BY <1>0, <2>3, <2>4
<1>10. ASSUME NEW i \in Ids, Blacklist(i) PROVE Goal
  <2>1. UNCHANGED <<replica, core, edge, lost>> /\ registry' \subseteq Ids
    BY <1>0, <1>10 DEF Blacklist, fleet
  <2> QED
    BY <1>0, <2>1
<1>11. CASE \/ \E j \in Jobs : EnsureGet(j) \/ RotateGet(j) \/ (\E c \in CAs : EnsureUpdate(j, c) \/ RotateUpdate(j, c))
            \/ Edit \/ (\E i \in Ids : ToolStart(i)) \/ ToolExits \/ ToolRotate \/ ToolFlip \/ ToolTrim
            \/ ReadFails \/ \E x \in Reporters : Scrape(x)
  <2>1. UNCHANGED <<replica, core, edge, lost, registry>>
    BY <1>11 DEF EnsureGet, RotateGet, EnsureUpdate, RotateUpdate, Edit, ToolStart, ToolExits, ToolRotate,
                 ToolFlip, ToolTrim, ToolGet, ToolUpdate, ReadFails, Scrape, fleet
  <2> QED
    BY <1>1, <2>1
<1>12. CASE UNCHANGED vars
  BY <1>1, <1>12 DEF vars
<1> QED
  BY <1>2, <1>3, <1>5, <1>6, <1>7, <1>8, <1>9, <1>10, <1>11, <1>12 DEF Next

\* The variables of the writers and of the tool, by the steps that change them.
LEMMA ToolTypes ==
    ASSUME Types, GensOK, JobInv, tool.pc # "off" => tool.id \in Ids, [Next]_vars
    PROVE  /\ job' \in [Jobs \cup {"tool"} -> {"none", "ensure", "rotate", "flip", "trim"}]
           /\ adopted' \subseteq CAs
           /\ tool' \in ToolRecord /\ done' \in DoneRecord
           /\ gate' \in GateRecord /\ gate'.gens \subseteq Versions
<1> DEFINE JobTypes == [Jobs \cup {"tool"} -> {"none", "ensure", "rotate", "flip", "trim"}]
           PcTypes == {"off", "rotate", "A", "flip", "B", "trim"}
           J == job' \in JobTypes
           A == adopted' \subseteq CAs
           T == tool' \in ToolRecord
           G == gate' \in GateRecord /\ gate'.gens \subseteq Versions
           E == done' \in DoneRecord
<1>0. /\ job \in JobTypes /\ adopted \subseteq CAs /\ tool \in ToolRecord
      /\ gate \in GateRecord /\ gate.gens \subseteq Versions /\ done \in DoneRecord
  BY DEF Types, GensOK
<1>a. (job' = job => J) /\ (adopted' = adopted => A) /\ (tool' = tool => T) /\ (gate' = gate => G)
      /\ (done' = done => E)
  BY <1>0
<1>b. Secret \in SecretTypes /\ Secret.crt \in Seq(CAs) /\ (Secret.crt # <<>> => Secret.crt[1] \in CAs)
  BY LogTypes, CertsCases
<1>c. Off \in ToolRecord
  <2>1. <<>> \in Seq(CAs)
    OBVIOUS
  <2> QED
    BY <2>1 DEF Off, ToolRecord
<1>d. \A p \in PcTypes : [tool EXCEPT !.pc = p] \in ToolRecord
  BY <1>0, Zenon DEF ToolRecord
<1>h. \A b \in Seq(CAs) : Widened(b) \in ToolRecord
  BY <1>0, Zenon DEF ToolRecord, Widened
<1>e. Quiet \in GateRecord /\ Quiet.gens \subseteq Versions
      /\ [Quiet EXCEPT !.n = 1] \in GateRecord /\ [Quiet EXCEPT !.n = 1].gens \subseteq Versions
  BY QuietTyped
<1>f. \A s : CAS(s) => J
  BY <1>0 DEF CAS
<1>g. \A w \in Jobs \cup {"tool"}, op \in {"none", "ensure", "rotate", "flip", "trim"} :
          job' = [job EXCEPT ![w] = op] => J
  BY <1>0
<1> SUFFICES J /\ A /\ T /\ G /\ E
  OBVIOUS
<1> HIDE DEF JobTypes, PcTypes, J, A, T, G, E
<1>1. ASSUME NEW j \in Jobs, EnsureGet(j) PROVE J /\ A /\ T /\ G /\ E
  <2>1. adopted' = adopted \/ (Secret.crt # <<>> /\ adopted' = adopted \cup {Secret.crt[1]})
    BY <1>1 DEF EnsureGet
  <2>2. A
    BY <1>0, <1>b, <2>1 DEF A
  <2>3. J
    BY <1>1, <1>a, <1>g DEF EnsureGet, Get
  <2> QED
    BY <1>1, <1>a, <2>2, <2>3 DEF EnsureGet
<1>2. ASSUME NEW j \in Jobs, NEW c \in CAs, EnsureUpdate(j, c) PROVE J /\ A /\ T /\ G /\ E
  BY <1>2, <1>0, <1>a, <1>f DEF EnsureUpdate, A
<1>3. ASSUME NEW j \in Jobs, RotateGet(j) PROVE J /\ A /\ T /\ G /\ E
  BY <1>3, <1>a, <1>g DEF RotateGet, Get
<1>4. ASSUME NEW j \in Jobs, NEW c \in CAs, RotateUpdate(j, c) PROVE J /\ A /\ T /\ G /\ E
  BY <1>4, <1>a, <1>f DEF RotateUpdate
<1>5. CASE Edit
  BY <1>5, <1>a, <1>f DEF Edit
<1>6. ASSUME NEW i \in Ids, ToolStart(i) PROVE J /\ A /\ T /\ G /\ E
  <2>1. <<>> \in Seq(CAs) /\ registry \subseteq Ids
    BY DEF Types
  <2>2. [pc |-> "rotate", id |-> i, authz |-> registry, bundle |-> <<>>] \in ToolRecord
    BY <2>1 DEF ToolRecord
  <2> QED
    BY <1>6, <1>a, <2>2 DEF ToolStart, T
<1>7. CASE ToolExits
  <2>1. J
    BY <1>7, <1>g DEF ToolExits
  <2>2. T /\ G
    BY <1>7, <1>c, <1>e DEF ToolExits, T, G
  <2> QED
    BY <1>7, <1>a, <2>1, <2>2 DEF ToolExits
<1>8. CASE ToolRotate
  <2>1. J
    BY <1>8, <1>a, <1>f, <1>g DEF ToolRotate, ToolGet, ToolUpdate, Get
  <2>2. UNCHANGED <<adopted, gate, done>>
    BY <1>8 DEF ToolRotate, ToolGet, ToolUpdate
  <2>3. tool' = tool \/ tool' = Widened(Secret.crt) \/ \E c \in CAs : tool' = Widened(Append(Secret.crt, c))
    BY <1>8 DEF ToolRotate, ToolGet, ToolUpdate, Widened
  <2>4. \A c \in CAs : Append(Secret.crt, c) \in Seq(CAs)
    BY <1>b
  <2>5. T
    BY <1>a, <1>b, <1>h, <2>3, <2>4 DEF T
  <2> QED
    BY <1>a, <2>1, <2>2, <2>5
<1>9. CASE ToolFlip
  <2>1. J
    BY <1>9, <1>a, <1>f, <1>g DEF ToolFlip, ToolGet, ToolUpdate, Get
  <2>2. UNCHANGED <<adopted, gate>>
    BY <1>9 DEF ToolFlip, ToolGet, ToolUpdate
  <2>3. tool' = tool \/ tool' = [tool EXCEPT !.pc = "B"]
    BY <1>9 DEF ToolFlip, ToolGet, ToolUpdate
  <2>4. T
    BY <1>a, <1>d, <2>3 DEF T, PcTypes
  <2>5. E
    <3>1. CASE tool.pc = "flip" /\ FlipWrites(Secret, NewCA)
      <4>1. tool.id \in Ids /\ NewCA \in CAs
        BY <1>b, <3>1, CertsCases DEF FlipWrites, Overlapping
      <4>2. done.flips \cup {<<tool.id, NewCA>>} \in SUBSET Pairs
        BY <1>0, <4>1 DEF DoneRecord, Pairs
      <4>3. FlipNoted \in DoneRecord
        BY <1>0, <4>2, Zenon DEF DoneRecord, FlipNoted
      <4> QED
        BY <1>9, <1>a, <4>3 DEF ToolFlip, FlipNoted, E
    <3>2. CASE ~(tool.pc = "flip" /\ FlipWrites(Secret, NewCA))
      BY <1>9, <1>a, <3>2 DEF ToolFlip, ToolUpdate, JobInv
    <3> QED
      BY <3>1, <3>2
  <2> QED
    BY <1>a, <2>1, <2>2, <2>4, <2>5
<1>10. CASE ToolTrim
  <2>1. J
    BY <1>10, <1>a, <1>f, <1>g DEF ToolTrim, ToolGet, ToolUpdate, Get
  <2>2. UNCHANGED <<adopted, gate>>
    BY <1>10 DEF ToolTrim, ToolGet, ToolUpdate
  <2>3. tool' = tool \/ tool' = Off
    BY <1>10 DEF ToolTrim, ToolGet, ToolUpdate
  <2>4. T
    BY <1>a, <1>c, <2>3 DEF T
  <2>5. E
    <3>1. CASE tool.pc = "trim"
      <4>1. done.severed \cup {tool.id} \in SUBSET Ids
        BY <1>0, <3>1 DEF DoneRecord
      <4>2. Reported \in DoneRecord
        BY <1>0, <4>1, Zenon DEF DoneRecord, Reported
      <4> QED
        BY <1>10, <1>a, <4>2 DEF ToolTrim, E
    <3>2. CASE tool.pc # "trim"
      BY <1>10, <3>2 DEF ToolTrim, ToolGet, ToolUpdate
    <3> QED
      BY <3>1, <3>2
  <2> QED
    BY <1>a, <2>1, <2>2, <2>4, <2>5
<1>11. ASSUME NEW x \in Reporters, Scrape(x) PROVE J /\ A /\ T /\ G /\ E
  <2>1. UNCHANGED <<job, adopted, tool, done>>
    BY <1>11 DEF Scrape
  <2>2. gate.todo \ {x} \in SUBSET Reporters
    BY <1>0 DEF GateRecord
  <2>3. CASE gate' = [gate EXCEPT !.todo = @ \ {x}]
    <3>1. gate' = [gate EXCEPT !.todo = gate.todo \ {x}]
      BY <2>3
    <3>2. gate' \in GateRecord /\ gate'.gens = gate.gens
      BY <1>0, <2>2, <3>1, Zenon DEF GateRecord
    <3> QED
      BY <1>0, <1>a, <2>1, <3>2 DEF G
  <2>4. CASE /\ x \in Replicas /\ ReplicaConverged(x)
             /\ gate' = [gate EXCEPT !.todo = @ \ {x}, !.gens = {replica[x].gen}, !.authz = {replica[x].authz}]
    <3>1. gate' = [gate EXCEPT !.todo = gate.todo \ {x}, !.gens = {replica[x].gen}, !.authz = {replica[x].authz}]
      BY <2>4
    <3>2. replica[x].gen \in Versions /\ replica[x].gen \in Nat
      BY <2>4 DEF ReplicaConverged, GensOK, Types, ReplicaTypes
    <3>3. replica[x].authz \in SUBSET Ids
      BY <2>4 DEF Types, ReplicaTypes
    <3>4. {replica[x].gen} \in SUBSET Nat /\ {replica[x].authz} \in SUBSET SUBSET Ids
      BY <3>2, <3>3, Zenon
    <3>5. gate' \in GateRecord /\ gate'.gens = {replica[x].gen}
      BY <1>0, <2>2, <3>1, <3>4, Zenon DEF GateRecord
    <3> QED
      BY <1>a, <2>1, <3>2, <3>5 DEF G
  <2> QED
    BY <1>11, <2>3, <2>4 DEF Scrape
<1>12. CASE Probe
  <2>1. UNCHANGED <<job, adopted, done>>
    BY <1>12 DEF Probe
  <2>2. gate' \in {Quiet, [Quiet EXCEPT !.n = 1]} /\ tool' \in {tool, GateOpen}
    BY <1>12 DEF Probe
  <2>3. G
    BY <1>e, <2>2 DEF G
  <2>4. GateOpen \in ToolRecord
    <3>1. (IF tool.pc = "A" THEN "flip" ELSE "trim") \in PcTypes
      BY DEF PcTypes
    <3>2. GateOpen = [tool EXCEPT !.pc = IF tool.pc = "A" THEN "flip" ELSE "trim"]
      BY DEF GateOpen
    <3> QED
      BY <1>d, <3>1, <3>2
  <2> QED
    BY <1>a, <2>1, <2>2, <2>3, <2>4 DEF T
<1>13. CASE ReadFails
  BY <1>13, <1>a, <1>e DEF ReadFails, G
<1>14. CASE \/ (\E i \in Ids : Blacklist(i)) \/ UNCHANGED vars
            \/ \E r \in Replicas : RestartReplica(r) \/ (\E v \in DOMAIN log : Reload(r, v))
            \/ \E e \in Edges : MintEnds(e) \/ (\E r \in Replicas : MintBegins(e, r))
            \/ \E k \in Cores : \E r \in Replicas : RestartCore(k, r) \/ Apply(k, r)
  <2>1. UNCHANGED <<job, adopted, tool, done, gate>>
    BY <1>14 DEF vars, Blacklist, RestartReplica, Reload, MintEnds, MintBegins, RestartCore, Apply
  <2> QED
    BY <1>a, <2>1
<1> QED
  BY <1>1, <1>2, <1>3, <1>4, <1>5, <1>6, <1>7, <1>8, <1>9, <1>10, <1>11, <1>12, <1>13, <1>14 DEF Next

\* Every step keeps the types and the generations.
LEMMA TypesStep ==
    ASSUME Types, GensOK, LogInv, JobInv, RegistryInv, [Next]_vars
    PROVE  Types' /\ GensOK'
<1>0. tool.pc # "off" => tool.id \in Ids
  BY DEF RegistryInv, Types
<1>1. CASE log' = log
  <2>1. Versions' = Versions /\ \A v : Filled(v)' <=> Filled(v)
    BY <1>1 DEF Versions, Filled
  <2>2. log' \in Seq(SecretTypes) /\ Len(log') > 0
    BY <1>1 DEF Types
  <2>3. Types'
    BY <1>0, <1>1, <2>2, FleetTypes, ToolTypes DEF Types
  <2>4. GensOK'
    BY <1>0, <1>1, <2>1, FleetTypes, ToolTypes DEF GensOK
  <2> QED
    BY <2>3, <2>4
<1>2. CASE \E s : WriteStep(s)
  <2>1. PICK s : WriteStep(s)
    BY <1>2
  <2>2. s \in SecretTypes /\ CAS(s)
    BY <2>1, WriteStepWrites, WriteForms
  <2>3. UNCHANGED <<registry, replica, core, edge, lost, gate>>
    BY <2>1 DEF WriteStep, fleet
  <2>4. /\ log' \in Seq(SecretTypes) /\ Len(log') > 0 /\ Versions \subseteq Versions'
        /\ \A v \in Versions : Filled(v)' <=> Filled(v)
    BY <2>2, LogGrows DEF Filled
  <2>5. Types'
    BY <1>0, <2>3, <2>4, ToolTypes DEF Types
  <2>6. GensOK'
    BY <2>3, <2>4 DEF GensOK
  <2> QED
    BY <2>5, <2>6
<1> QED
  BY <1>1, <1>2, WritesOnly DEF vars

-----------------------------------------------------------------------------
(* How the fleet moves while the Secret stays.                             *)

FleetAction ==
    \/ \E r \in Replicas : RestartReplica(r) \/ (\E v \in DOMAIN log : Reload(r, v))
    \/ \E e \in Edges : MintEnds(e) \/ (\E r \in Replicas : MintBegins(e, r))
    \/ \E k \in Cores : \E r \in Replicas : RestartCore(k, r) \/ Apply(k, r)

\* A replica restarts, begins with the Secret as it is, or moves on.
Advances(v, w) ==
    \/ w = v \/ w = 0
    \/ w \in Versions /\ Filled(w) /\ (w = Len(log) \/ (v # 0 /\ w > v))
\* It reads the registry, and notes what it signs under the new key.
Notes(r, p) ==
    /\ p \in Pairs /\ p[1] \notin replica[r].authz
    /\ replica[r].gen # 0 /\ log[replica[r].gen].active = "new" /\ p[2] = Signer(replica[r].gen)
Learns(r) ==
    /\ replica'[r].authz \in {replica[r].authz, registry}
    /\ \A p \in replica'[r].issued : p \in replica[r].issued \/ Notes(r, p)
\* A core follows a replica.
Follows(k, w) == w \in {core[k], 0} \/ \E r \in Replicas : replica[r].gen # 0 /\ w = replica[r].gen
\* An edge begins a mint, or the mint ends.
Mints(x, y) ==
    /\ y.id = x.id
    /\ \/ y = x
       \/ y.leaf \in {x.leaf, x.mint.leaf} /\ y.mint = NoMint
       \/ /\ y.leaf = x.leaf /\ y.mint.old = FALSE
          /\ \E r \in Replicas : replica[r].gen # 0 /\ y.mint.leaf = Leaf(replica[r].gen)

Drift ==
    /\ UNCHANGED <<log, job, adopted, registry, tool, done, gate>>
    /\ \A r \in Replicas : Advances(replica[r].gen, replica'[r].gen) /\ Learns(r)
    /\ \A k \in Cores : Follows(k, core'[k])
    /\ \A e \in Edges : Mints(edge[e], edge'[e])
    /\ lost' \subseteq Noted

LEMMA FleetDrifts ==
    ASSUME Types, GensOK, FleetAction
    PROVE  Drift
<1>0. /\ replica \in [Replicas -> ReplicaTypes] /\ core \in [Cores -> Nat] /\ edge \in [Edges -> EdgeTypes]
      /\ \A r \in Replicas : replica[r].gen \in Nat
  BY DEF Types, ReplicaTypes
<1>1. UNCHANGED <<log, job, adopted, registry, tool, done, gate>>
  BY DEF FleetAction, RestartReplica, Reload, MintEnds, MintBegins, RestartCore, Apply
<1>2. \A q \in Replicas : Advances(replica[q].gen, replica'[q].gen) /\ Learns(q)
  <2>0. ASSUME NEW q \in Replicas, replica'[q] = replica[q]
        PROVE  Advances(replica[q].gen, replica'[q].gen) /\ Learns(q)
    BY <2>0 DEF Advances, Learns
  <2>1. ASSUME NEW r \in Replicas, RestartReplica(r)
        PROVE  Advances(replica[r].gen, replica'[r].gen) /\ Learns(r) /\ \A q \in Replicas \ {r} : replica'[q] = replica[q]
    <3>1. /\ replica'[r] = [gen |-> Loaded, authz |-> registry, issued |-> {}]
          /\ \A q \in Replicas \ {r} : replica'[q] = replica[q]
      BY <1>0, <2>1 DEF RestartReplica
    <3>2. Loaded = 0 \/ (Loaded = Len(log) /\ Loaded \in Versions /\ Filled(Loaded))
      BY LogTypes DEF Loaded, Filled, Secret
    <3> QED
      BY <3>1, <3>2 DEF Advances, Learns
  <2>2. ASSUME NEW r \in Replicas, NEW e \in Edges, MintBegins(e, r)
        PROVE  Advances(replica[r].gen, replica'[r].gen) /\ Learns(r) /\ \A q \in Replicas \ {r} : replica'[q] = replica[q]
    <3>1. replica' = [replica EXCEPT ![r].issued = @ \cup Entry(edge[e].id, replica[r].gen)]
          /\ edge[e].id \notin replica[r].authz /\ replica[r].gen # 0
      BY <2>2 DEF MintBegins
    <3>2. replica'[r].gen = replica[r].gen /\ replica'[r].authz = replica[r].authz
          /\ replica'[r].issued = replica[r].issued \cup Entry(edge[e].id, replica[r].gen)
          /\ \A q \in Replicas \ {r} : replica'[q] = replica[q]
      BY <1>0, <3>1 DEF ReplicaTypes
    <3>3. edge[e].id \in Ids /\ Signer(replica[r].gen) \in CAs
      BY <1>0, <3>1, LogTypes, CertsCases DEF EdgeTypes, GensOK, Filled
    <3>4. \A p \in Entry(edge[e].id, replica[r].gen) : Notes(r, p)
      BY <3>1, <3>3 DEF Entry, Notes, Pairs
    <3> QED
      BY <3>2, <3>4 DEF Advances, Learns
  <2>3. ASSUME NEW r \in Replicas, NEW v \in DOMAIN log, Reload(r, v)
        PROVE  Advances(replica[r].gen, replica'[r].gen) /\ Learns(r) /\ \A q \in Replicas \ {r} : replica'[q] = replica[q]
    <3>1. v \in Versions /\ Filled(v) /\ v \in Nat
      BY <2>3, LogTypes DEF Reload, Filled, Versions
    <3>2. replica' = replica \/ (v > replica[r].gen /\ replica' = [replica EXCEPT ![r].gen = v])
      BY <1>0, <2>3, <3>1 DEF Reload, SetSigner
    <3>3. replica[r].gen = 0 => v = Len(log)
      BY <2>3 DEF Reload
    <3>4. /\ replica'[r].gen = replica[r].gen \/ (v > replica[r].gen /\ replica'[r].gen = v)
          /\ replica'[r].authz = replica[r].authz /\ replica'[r].issued = replica[r].issued
          /\ \A q \in Replicas \ {r} : replica'[q] = replica[q]
      BY <1>0, <3>2 DEF ReplicaTypes
    <3> QED
      BY <3>1, <3>3, <3>4 DEF Advances, Learns
  <2>4. CASE \/ \E e \in Edges : MintEnds(e)
             \/ \E k \in Cores : \E r \in Replicas : RestartCore(k, r) \/ Apply(k, r)
    <3>1. replica' = replica
      BY <2>4 DEF MintEnds, RestartCore, Apply
    <3> QED
      BY <2>0, <3>1
  <2> QED
    BY <2>0, <2>1, <2>2, <2>3, <2>4 DEF FleetAction
<1>3. core' = core \/ \A k \in Cores : Follows(k, core'[k])
  <2>1. ASSUME NEW k \in Cores, NEW r \in Replicas, RestartCore(k, r) \/ Apply(k, r)
        PROVE  \A q \in Cores : Follows(q, core'[q])
    <3>1. core' = [core EXCEPT ![k] = replica[r].gen]
      BY <2>1 DEF RestartCore, Apply
    <3> QED
      BY <1>0, <3>1 DEF Follows
  <2>2. CASE \/ \E e \in Edges : MintEnds(e) \/ (\E r \in Replicas : MintBegins(e, r))
             \/ \E r \in Replicas : RestartReplica(r) \/ (\E v \in DOMAIN log : Reload(r, v))
    BY <2>2 DEF MintEnds, MintBegins, RestartReplica, Reload
  <2> QED
    BY <2>1, <2>2 DEF FleetAction
<1>4. edge' = edge \/ \A e \in Edges : Mints(edge[e], edge'[e])
  <2>1. ASSUME NEW e \in Edges, NEW r \in Replicas, MintBegins(e, r)
        PROVE  \A q \in Edges : Mints(edge[q], edge'[q])
    <3>1. edge' = [edge EXCEPT ![e].mint = [leaf |-> Leaf(replica[r].gen), old |-> FALSE]] /\ replica[r].gen # 0
      BY <2>1 DEF MintBegins
    <3>2. \A q \in Edges : q # e => edge'[q] = edge[q]
      BY <1>0, <3>1
    <3>3. /\ edge'[e].id = edge[e].id /\ edge'[e].leaf = edge[e].leaf
          /\ edge'[e].mint = [leaf |-> Leaf(replica[r].gen), old |-> FALSE]
      BY <1>0, <3>1 DEF EdgeTypes
    <3> QED
      BY <3>1, <3>2, <3>3 DEF Mints
  <2>2. ASSUME NEW e \in Edges, MintEnds(e)
        PROVE  \A q \in Edges : Mints(edge[q], edge'[q])
    <3>1. \A q \in Edges : q # e => edge'[q] = edge[q]
      BY <1>0, <2>2 DEF MintEnds
    <3>2. edge[e] \in EdgeTypes
      BY <1>0
    <3>3. \/ edge'[e] = [edge[e] EXCEPT !.leaf = edge[e].mint.leaf, !.mint = NoMint]
          \/ edge'[e] = [edge[e] EXCEPT !.mint = NoMint]
      BY <1>0, <2>2 DEF MintEnds
    <3>4. /\ edge'[e].id = edge[e].id /\ edge'[e].leaf \in {edge[e].leaf, edge[e].mint.leaf}
          /\ edge'[e].mint = NoMint
      BY <3>2, <3>3 DEF EdgeTypes
    <3> QED
      BY <3>1, <3>4 DEF Mints
  <2>3. CASE \/ \E k \in Cores : \E r \in Replicas : RestartCore(k, r) \/ Apply(k, r)
             \/ \E r \in Replicas : RestartReplica(r) \/ (\E v \in DOMAIN log : Reload(r, v))
    BY <2>3 DEF RestartCore, Apply, RestartReplica, Reload
  <2> QED
    BY <2>1, <2>2, <2>3 DEF FleetAction
<1>5. lost' \subseteq Noted
  <2>1. lost' = lost \/ \E r \in Replicas : lost' = lost \cup replica[r].issued
    BY DEF FleetAction, RestartReplica, Reload, MintEnds, MintBegins, RestartCore, Apply
  <2> QED
    BY <2>1 DEF Noted
<1> QED
  BY <1>1, <1>2, <1>3, <1>4, <1>5 DEF Drift, Follows, Mints

\* The other steps leave the fleet; the probe marks the mints under way.
ToolAction ==
    \/ \E j \in Jobs : EnsureGet(j) \/ RotateGet(j)
    \/ (\E i \in Ids : Blacklist(i) \/ ToolStart(i)) \/ ToolExits \/ ToolRotate \/ ToolFlip \/ ToolTrim
    \/ \E x \in Reporters : Scrape(x)
    \/ Probe \/ ReadFails

LEMMA StepCases ==
    ASSUME Types, JobInv, Next
    PROVE  \/ \E s : WriteStep(s)
           \/ FleetAction
           \/ log' = log /\ ToolAction
<1>1. CASE log' = log
  <2>1. ASSUME NEW s, CAS(s) PROVE FALSE
    <3>1. log' = Append(log, s) /\ Len(log) \in Nat /\ Len(Append(log, s)) = Len(log) + 1
      BY <2>1 DEF CAS, Types
    <3> QED
      BY <1>1, <3>1
  <2> QED
    BY <1>1, <2>1 DEF Next, FleetAction, ToolAction, EnsureUpdate, RotateUpdate, Edit
<1> QED
  BY <1>1, WritesOnly

\* The marks say nothing about who has signed.
LEMMA ToolActionFleet ==
    ASSUME Types, log' = log, ToolAction
    PROVE  /\ UNCHANGED <<replica, core, lost>>
           /\ \A e \in Edges : /\ edge'[e].id = edge[e].id
                               /\ edge'[e].leaf = edge[e].leaf /\ edge'[e].mint.leaf = edge[e].mint.leaf
           /\ Probe \/ edge' = edge
<1>1. CASE Probe
  <2>1. UNCHANGED edge \/ edge' = [e \in Edges |-> [edge[e] EXCEPT !.mint.old = (edge[e].mint # NoMint)]]
    BY <1>1 DEF Probe
  <2>2. \A e \in Edges : LET x == [edge[e] EXCEPT !.mint.old = (edge[e].mint # NoMint)]
                         IN  x.id = edge[e].id /\ x.leaf = edge[e].leaf /\ x.mint.leaf = edge[e].mint.leaf
    <3>1. \A e \in Edges : edge[e] \in EdgeTypes
      BY DEF Types
    <3> QED
      BY <3>1, Zenon DEF EdgeTypes, MintTypes
  <2> QED
    BY <1>1, <2>1, <2>2 DEF Probe
<1>2. CASE ~Probe
  <2>1. UNCHANGED fleet
    BY <1>2 DEF ToolAction, EnsureGet, RotateGet, Blacklist, ToolStart, ToolExits, ToolRotate, ToolFlip, ToolTrim,
                ToolGet, ToolUpdate, Scrape, ReadFails
  <2> QED
    BY <2>1 DEF fleet
<1> QED
  BY <1>1, <1>2

-----------------------------------------------------------------------------
(* What each write finds and leaves.                                       *)

DidEnsure(s) ==
    /\ Secret.crt = <<>> /\ ~Secret.guard /\ Secret.phase = "none"
    /\ Len(s.crt) = 1 /\ s.crt[1] \in CAs \ Generated /\ SignerIn(s) = s.crt[1]
    /\ s.guard /\ s.active = "old" /\ s.phase = "none"
    /\ adopted' = adopted \cup {s.crt[1]} /\ tool' = tool /\ done' = done

DidRotate(s) ==
    /\ Len(Secret.crt) = 1 /\ Secret.active = "old" /\ Secret.guard
    /\ Len(s.crt) = 2 /\ s.crt[1] = Secret.crt[1] /\ s.crt[2] \in CAs \ Generated /\ SignerIn(s) = SignerIn(Secret)
    /\ s.guard /\ s.active = "old" /\ s.phase = "overlap" /\ Overlapping(s)
    /\ adopted' = adopted /\ done' = done
    /\ tool' = tool \/ (tool.pc = "rotate" /\ tool' = Widened(s.crt))

DidFlip(s) ==
    /\ Len(Secret.crt) = 2 /\ Secret.active = "old" /\ Secret.guard /\ Secret.crt[2] = NewCA /\ tool.pc = "flip"
    /\ s.crt = Secret.crt /\ SignerIn(s) = s.crt[2]
    /\ s.guard /\ s.active = "new" /\ s.phase = "overlap" /\ Overlapping(s)
    /\ adopted' = adopted /\ tool' = [tool EXCEPT !.pc = "B"] /\ done' = FlipNoted

DidTrim(s) ==
    /\ Len(Secret.crt) = 2 /\ Secret.active = "new" /\ Secret.guard /\ Secret.crt[2] = NewCA /\ tool.pc = "trim"
    /\ Len(s.crt) = 1 /\ s.crt[1] = Secret.crt[2] /\ SignerIn(s) = s.crt[1] /\ SignerIn(s) = SignerIn(Secret)
    /\ s.guard /\ s.active = "old" /\ s.phase = "trimmed"
    /\ adopted' = adopted /\ tool' = Off /\ done' = Reported

DidPrune(s) ==
    /\ Len(Secret.crt) = 1 /\ Secret.active = "old" /\ Secret.guard
    /\ s.crt = <<>> /\ s.guard /\ s.active = "old" /\ s.phase = Secret.phase
    /\ adopted' = adopted /\ tool' = tool /\ done' = done

DidTouch(s) == s = Secret /\ adopted' = adopted /\ tool' = tool /\ done' = done

LEMMA WriteCases ==
    ASSUME Types, LogInv, NEW s, WriteStep(s)
    PROVE  DidEnsure(s) \/ DidRotate(s) \/ DidFlip(s) \/ DidTrim(s) \/ DidPrune(s) \/ DidTouch(s)
<1>0. /\ Secret \in SecretTypes /\ SecretOK(Secret) /\ Secret.crt \in Seq(CAs)
      /\ Secret.active \in {"old", "new"}
  BY LogTypes, CertsCases DEF LogInv, Secret, SecretTypes
<1>1. ASSUME NEW c \in CAs \ Generated, EnsureWrites(Secret), s = Ensured(Secret, c),
             adopted' = adopted \cup {c}, tool' = tool, done' = done
      PROVE  DidEnsure(s)
  <2>1. /\ s \in SecretTypes /\ Len(s.crt) = 1 /\ s.crt[1] = c /\ s.guard /\ s.active = Secret.active
        /\ s.phase = Secret.phase
    BY <1>0, <1>1, EnsuredForm
  <2>2. Secret.crt = <<>> /\ Len(Secret.crt) = 0 /\ ~Secret.guard /\ SignerIn(s) = s.crt[1]
    BY <1>0, <1>1, <2>1, CertsCases DEF EnsureWrites
  <2>3. Secret.phase = "none" /\ Secret.active = "old"
    BY <1>0, <2>2 DEF SecretOK
  <2> QED
    BY <1>1, <2>1, <2>2, <2>3 DEF DidEnsure
<1>2. ASSUME NEW c \in CAs \ Generated, RotateWrites(Secret), s = Rotated(Secret, c), adopted' = adopted, done' = done,
             \/ tool' = tool
             \/ tool.pc = "rotate" /\ tool' = Widened(Append(Secret.crt, c))
      PROVE  DidRotate(s)
  <2>1. c \in CAs /\ Len(Secret.crt) = 1
    BY <1>2 DEF RotateWrites
  <2>2. /\ Rotated(Secret, c) \in SecretTypes /\ Len(Rotated(Secret, c).crt) = 2
        /\ Rotated(Secret, c).crt[1] = Secret.crt[1] /\ Rotated(Secret, c).crt[2] = c
        /\ Rotated(Secret, c).phase = "overlap" /\ Rotated(Secret, c).active = "old"
        /\ Rotated(Secret, c).staged = TRUE /\ Rotated(Secret, c).guard = Secret.guard
    BY <1>0, <2>1, RotatedForm
  <2>3. /\ s \in SecretTypes /\ Len(s.crt) = 2 /\ s.crt[1] = Secret.crt[1] /\ s.crt[2] = c
        /\ s.phase = "overlap" /\ s.active = "old" /\ s.staged = TRUE /\ s.guard = Secret.guard
    BY <1>2, <2>2, Zenon
  <2>4. Secret.crt # <<>> /\ SignerIn(Secret) = Secret.crt[1]
    BY <1>0, <2>1, CertsCases
  <2>5. Secret.guard /\ Secret.active = "old"
    BY <1>0, <2>1, <2>4 DEF SecretOK
  <2>6. SignerIn(s) = SignerIn(Secret) /\ Overlapping(s)
    BY <2>3, <2>4 DEF SignerIn, Overlapping
  <2>7. s.crt = Append(Secret.crt, c)
    BY <1>0, <1>2, <2>1, RotatedBundle, Zenon
  <2> QED
    BY <1>2, <2>1, <2>3, <2>5, <2>6, <2>7 DEF DidRotate
<1>3. ASSUME FlipWrites(Secret, NewCA), tool.pc = "flip", s = Flipped(Secret), adopted' = adopted,
             tool' = [tool EXCEPT !.pc = "B"], done' = FlipNoted
      PROVE  DidFlip(s)
  <2>1. /\ Secret.active = "old" /\ Len(Secret.crt) = 2 /\ Overlapping(Secret) /\ Secret.crt # <<>>
        /\ Secret.crt[2] = NewCA
    BY <1>0, <1>3, CertsCases DEF FlipWrites, Overlapping
  <2>2. /\ s.crt = Secret.crt /\ s.active = "new" /\ s.phase = Secret.phase /\ s.guard = Secret.guard
        /\ s.staged = Secret.staged
    BY <1>0, <1>3, FlippedForm
  <2>3. Secret.guard /\ Overlapping(s) /\ s.phase = "overlap" /\ SignerIn(s) = s.crt[2]
    BY <1>0, <2>1, <2>2 DEF SecretOK, Overlapping, SignerIn
  <2> QED
    BY <1>3, <2>1, <2>2, <2>3 DEF DidFlip
<1>4. ASSUME TrimWrites(Secret, NewCA), tool.pc = "trim", s = Trimmed(Secret), adopted' = adopted,
             tool' = Off, done' = Reported
      PROVE  DidTrim(s)
  <2>1. /\ Secret.active = "new" /\ Len(Secret.crt) = 2 /\ Overlapping(Secret) /\ Secret.crt # <<>>
        /\ Secret.crt[2] = NewCA
    BY <1>0, <1>4, CertsCases DEF TrimWrites, Overlapping
  <2>2. /\ Trimmed(Secret) \in SecretTypes /\ Len(Trimmed(Secret).crt) = 1 /\ Trimmed(Secret).crt[1] = Secret.crt[2]
        /\ Trimmed(Secret).phase = "trimmed" /\ Trimmed(Secret).active = "old"
        /\ Trimmed(Secret).guard = Secret.guard
    BY <1>0, <2>1, TrimmedForm
  <2>3. /\ s \in SecretTypes /\ Len(s.crt) = 1 /\ s.crt[1] = Secret.crt[2]
        /\ s.phase = "trimmed" /\ s.active = "old" /\ s.guard = Secret.guard
    BY <1>4, <2>2, Zenon
  <2>4. Secret.guard
    BY <1>0, <2>1 DEF SecretOK
  <2>5. SignerIn(s) = s.crt[1] /\ SignerIn(Secret) = Secret.crt[2]
    BY <2>1, <2>3 DEF SignerIn
  <2> QED
    BY <1>4, <2>1, <2>3, <2>4, <2>5 DEF DidTrim
<1>5. ASSUME Len(Secret.crt) = 1, s = Pruned(Secret), adopted' = adopted, tool' = tool, done' = done
      PROVE  DidPrune(s)
  <2>1. s.crt = <<>> /\ s.phase = Secret.phase /\ s.active = Secret.active /\ s.guard = Secret.guard
    BY <1>0, <1>5, PrunedForm
  <2>2. Secret.crt # <<>>
    BY <1>0, <1>5, CertsCases
  <2>3. Secret.guard /\ Secret.active = "old"
    BY <1>0, <1>5, <2>2 DEF SecretOK
  <2> QED
    BY <1>5, <2>1, <2>3 DEF DidPrune
<1>6. ASSUME s = Secret, adopted' = adopted, tool' = tool, done' = done
      PROVE  DidTouch(s)
  BY <1>6 DEF DidTouch
<1> QED
  BY <1>1, <1>2, <1>3, <1>4, <1>5, <1>6 DEF WriteStep

\* A write takes away what everybody else has read.
LEMMA JobStep ==
    ASSUME Types, LogInv, JobInv, [Next]_vars
    PROVE  JobInv'
<1>0. /\ job \in [Jobs \cup {"tool"} -> {"none", "ensure", "rotate", "flip", "trim"}] /\ "tool" \notin Jobs
      /\ tool \in ToolRecord
  BY NamesAssumption DEF Types
<1>1. ASSUME \A w \in Jobs \cup {"tool"} : job'[w] = "none"
      PROVE  JobInv'
  BY <1>1 DEF JobInv
<1>2. ASSUME NEW s, WriteStep(s)
      PROVE  JobInv'
  BY <1>0, <1>1, <1>2 DEF WriteStep, CAS
<1>3. ASSUME UNCHANGED <<log, job>>, tool' = tool \/ job["tool"] = "none"
      PROVE  JobInv'
  <2>1. Secret' = Secret /\ Generated' = Generated
    BY <1>3 DEF Secret, Generated, CertsOf
  <2>2. /\ \A w \in Jobs \cup {"tool"} : /\ job'[w] = "ensure" => EnsureWrites(Secret)'
                                         /\ job'[w] = "rotate" => RotateWrites(Secret)'
        /\ \A j \in Jobs : job'[j] \in {"none", "ensure", "rotate"}
    BY <1>3, <2>1 DEF JobInv, EnsureWrites, RotateWrites
  <2>3. CASE tool' = tool
    BY <1>3, <2>1, <2>2, <2>3 DEF JobInv, FlipWrites, TrimWrites, NewCA
  <2>4. CASE job["tool"] = "none"
    BY <1>3, <2>2, <2>4 DEF JobInv
  <2> QED
    BY <1>3, <2>3, <2>4
<1>4. ASSUME NEW w \in Jobs \cup {"tool"}, NEW op \in {"none", "ensure", "rotate", "flip", "trim"},
             UNCHANGED <<log, tool>>, Get(w, op),
             op = "ensure" => EnsureWrites(Secret), op = "rotate" => RotateWrites(Secret),
             w = "tool" => op \in {"none", tool.pc},
             w # "tool" => op \in {"none", "ensure", "rotate"},
             w = "tool" /\ op = "flip" => FlipWrites(Secret, NewCA),
             w = "tool" /\ op = "trim" => TrimWrites(Secret, NewCA)
      PROVE  JobInv'
  <2>1. \A u \in Jobs \cup {"tool"} : job'[u] = IF u = w THEN op ELSE job[u]
    BY <1>0, <1>4 DEF Get
  <2>2. Secret' = Secret /\ NewCA' = NewCA /\ tool' = tool /\ Generated' = Generated
    BY <1>4 DEF Secret, NewCA, Generated, CertsOf
  <2>3. \A u \in Jobs \cup {"tool"} :
            (job'[u] = "ensure" => EnsureWrites(Secret)) /\ (job'[u] = "rotate" => RotateWrites(Secret))
    BY <1>4, <2>1 DEF JobInv
  <2>4. \A j \in Jobs : job'[j] \in {"none", "ensure", "rotate"}
    BY <1>0, <1>4, <2>1 DEF JobInv
  <2>5. /\ job'["tool"] \in {"none", tool.pc} /\ (job'["tool"] = "flip" => FlipWrites(Secret, NewCA))
        /\ (job'["tool"] = "trim" => TrimWrites(Secret, NewCA))
    BY <1>4, <2>1 DEF JobInv
  <2> QED
    BY <2>2, <2>3, <2>4, <2>5 DEF JobInv, EnsureWrites, RotateWrites, FlipWrites, TrimWrites
<1>5. CASE FleetAction
  BY <1>3, <1>5 DEF FleetAction, RestartReplica, Reload, MintEnds, MintBegins, RestartCore, Apply
<1>6. ASSUME log' = log, ToolAction
      PROVE  JobInv'
  <2>1. ASSUME NEW j \in Jobs, EnsureGet(j) \/ RotateGet(j) PROVE JobInv'
    <3>1. UNCHANGED <<log, tool>> /\ j # "tool" /\ j \in Jobs \cup {"tool"}
      BY <1>0, <2>1 DEF EnsureGet, RotateGet
    <3>2. \/ job' = job
          \/ EnsureWrites(Secret) /\ Get(j, "ensure")
          \/ RotateWrites(Secret) /\ Get(j, "rotate")
      BY <2>1 DEF EnsureGet, RotateGet
    <3>3. CASE job' = job
      BY <1>3, <3>1, <3>3
    <3>4. CASE EnsureWrites(Secret) /\ Get(j, "ensure")
      BY <1>4, <3>1, <3>4
    <3>5. CASE RotateWrites(Secret) /\ Get(j, "rotate")
      BY <1>4, <3>1, <3>5
    <3> QED
      BY <3>2, <3>3, <3>4, <3>5
  <2>2. CASE (\E i \in Ids : Blacklist(i)) \/ ReadFails \/ \E x \in Reporters : Scrape(x)
    BY <1>3, <2>2 DEF Blacklist, ReadFails, Scrape
  <2>3. CASE (\E i \in Ids : ToolStart(i)) \/ Probe
    <3>1. tool.pc \in {"off", "A", "B"} /\ UNCHANGED <<log, job>>
      BY <2>3 DEF ToolStart, Probe, Off
    <3>2. job["tool"] = "none"
      BY <1>0, <3>1 DEF JobInv
    <3> QED
      BY <1>3, <3>1, <3>2
  <2>4. CASE ToolExits
    <3>1. job' = [job EXCEPT !["tool"] = "none"] /\ tool' = Off
      BY <2>4 DEF ToolExits
    <3>2. job'["tool"] = "none" /\ \A w \in Jobs : job'[w] = job[w]
      BY <1>0, <3>1
    <3>3. Secret' = Secret /\ Generated' = Generated
      BY <1>6 DEF Secret, Generated, CertsOf
    <3> QED
      BY <3>2, <3>3 DEF JobInv, EnsureWrites, RotateWrites
  <2>5. ASSUME NEW s, CAS(s) PROVE FALSE
    <3>1. log' = Append(log, s) /\ Len(log) \in Nat /\ Len(Append(log, s)) = Len(log) + 1
      BY <2>5 DEF CAS, Types
    <3> QED
      BY <1>6, <3>1
  <2>6. ASSUME NEW pc \in {"rotate", "flip", "trim"}, NEW finished, NEW writes, NEW then,
               ToolGet(pc, finished, writes, then),
               writes /\ pc = "rotate" => RotateWrites(Secret),
               writes /\ pc = "flip" => FlipWrites(Secret, NewCA),
               writes /\ pc = "trim" => TrimWrites(Secret, NewCA)
        PROVE  JobInv'
    <3>1. CASE UNCHANGED job
      BY <1>3, <2>6, <3>1 DEF ToolGet
    <3>2. CASE writes /\ Get("tool", pc) /\ UNCHANGED tool
      BY <1>4, <1>6, <2>6, <3>2 DEF ToolGet
    <3> QED
      BY <2>6, <3>1, <3>2 DEF ToolGet
  <2>7. CASE ToolRotate
    <3>1. ToolGet("rotate", Overlapping(Secret), RotateWrites(Secret),
                  [tool EXCEPT !.pc = "A", !.bundle = Secret.crt])
      BY <2>5, <2>7 DEF ToolRotate, ToolUpdate
    <3> QED
      BY <2>6, <3>1
  <2>8. CASE ToolFlip
    BY <2>5, <2>6, <2>8 DEF ToolFlip, ToolUpdate
  <2>9. CASE ToolTrim
    BY <2>5, <2>6, <2>9 DEF ToolTrim, ToolUpdate
  <2> QED
    BY <1>6, <2>1, <2>2, <2>3, <2>4, <2>7, <2>8, <2>9 DEF ToolAction
<1>7. CASE UNCHANGED vars
  BY <1>3, <1>7 DEF vars
<1> QED
  BY <1>2, <1>5, <1>6, <1>7, StepCases

-----------------------------------------------------------------------------
(* The fleet follows the signer.                                           *)

\* A write leaves the older versions as they are.
LEMMA OldVersions ==
    ASSUME Types, LogInv, NEW s, WriteStep(s)
    PROVE  /\ s \in SecretTypes /\ SecretOK(s) /\ Secret' = s
           /\ Len(log') = Len(log) + 1 /\ Len(log) \in Nat
           /\ Signer(Len(log))' = SignerIn(s) /\ CertsOf(Len(log))' = Certs(s)
           /\ \A v : v = Len(log) + 1 => (Filled(v)' <=> s.crt # <<>>) /\ Signer(v)' = SignerIn(s)
           /\ \A v \in Versions : /\ CertsOf(v)' = CertsOf(v) /\ Signer(v)' = Signer(v)
                                  /\ Filled(v)' <=> Filled(v)
                                  /\ log'[v] = log[v]
<1>1. s \in SecretTypes /\ SecretOK(s) /\ CAS(s)
  BY WriteStepWrites, WriteForms
<1>2. /\ Secret' = s /\ Len(log') = Len(log) + 1 /\ Len(log) \in Nat
      /\ log'[Len(log) + 1] = s /\ \A v \in Versions : log'[v] = log[v]
  BY <1>1, LogGrows
<1>3. \A v \in Versions : CertsOf(v)' = CertsOf(v) /\ Signer(v)' = Signer(v) /\ (Filled(v)' <=> Filled(v))
  BY <1>2 DEF CertsOf, Signer, Filled
<1>4. /\ Signer(Len(log))' = SignerIn(s) /\ CertsOf(Len(log))' = Certs(s)
      /\ \A v : v = Len(log) + 1 => (Filled(v)' <=> s.crt # <<>>) /\ Signer(v)' = SignerIn(s)
  BY <1>2 DEF CertsOf, Certs, Signer, SignerIn, Filled
<1> QED
  BY <1>1, <1>2, <1>3, <1>4

\* The Secret as a version.
LEMMA SecretVersion ==
    ASSUME Types, LogInv
    PROVE  /\ Len(log) \in Versions /\ Secret = log[Len(log)] /\ Secret \in SecretTypes /\ SecretOK(Secret)
           /\ (Filled(Len(log)) <=> Secret.crt # <<>>)
           /\ Signer(Len(log)) = SignerIn(Secret) /\ CertsOf(Len(log)) = Certs(Secret)
           /\ Secret.guard \in BOOLEAN /\ Secret.active \in {"old", "new"}
  BY LogTypes DEF Secret, LogInv, Filled, SecretTypes

\* As long as nothing has been generated, nothing happens.
LEMMA UnbornDrift ==
    ASSUME Types, LogInv, Unborn, Drift
    PROVE  Unborn'
<1>1. \A r \in Replicas : replica'[r].gen = 0
  BY DEF Unborn, Drift, Advances
<1>2. \A k \in Cores : core'[k] = 0
  BY DEF Unborn, Drift, Follows
<1>3. \A e \in Edges : edge'[e].leaf = NoLeaf /\ edge'[e].mint.leaf = NoLeaf
  BY NoLeafTyped DEF Unborn, Drift, Mints
<1>4. adopted' = {} /\ \A v \in Versions' : ~Filled(v)'
  BY DEF Unborn, Drift, Versions, Filled
<1> QED
  BY <1>1, <1>2, <1>3, <1>4 DEF Unborn

\* An edge that stays has stayed: edge_ids do not change, and none is enabled
\* again.
LEMMA StaysBefore ==
    ASSUME registry \subseteq registry', \A e \in Edges : edge'[e].id = edge[e].id, NEW e \in Edges, Stays(e)'
    PROVE  Stays(e)
  BY DEF Stays

\* In particular while the fleet moves.
LEMMA StaysDrift ==
    ASSUME Drift, NEW e \in Edges, Stays(e)'
    PROVE  Stays(e)
<1>1. registry' = registry /\ \A f \in Edges : edge'[f].id = edge[f].id
  BY DEF Drift, Mints
<1> QED
  BY <1>1, StaysBefore

\* The signer of the fleet stays c.
LEMMA SettledDrift ==
    ASSUME Types, GensOK, LogInv, NEW c \in CAs, SettledOn(c), Drift
    PROVE  SettledOn(c)'
<1>0. /\ Len(log) \in Nat /\ log' = log /\ Secret' = Secret
      /\ \A v : (Filled(v)' <=> Filled(v)) /\ Signer(v)' = Signer(v) /\ CertsOf(v)' = CertsOf(v)
      /\ \A v : Signs(c, v)' <=> Signs(c, v)
  BY LogTypes DEF Drift, Secret, Filled, Signer, CertsOf, Signs
<1>1. ASSUME NEW r \in Replicas, replica[r].gen # 0
      PROVE  /\ replica[r].gen \in Versions /\ Signer(replica[r].gen) = c
             /\ c \in CertsOf(replica[r].gen) /\ Leaf(replica[r].gen).by = {c}
  <2>1. /\ replica[r].gen \in Versions /\ Filled(replica[r].gen)
        /\ Leaf(replica[r].gen).by = {Signer(replica[r].gen)}
        /\ Signer(replica[r].gen) \in CertsOf(replica[r].gen)
    BY <1>1, ReplicaGen
  <2>2. replica[r].gen \in replica[r].gen .. Len(log)
    BY <1>0, <2>1 DEF Versions
  <2>3. Signer(replica[r].gen) = c
    BY <1>1, <2>1, <2>2 DEF SettledOn, Signs
  <2> QED
    BY <2>1, <2>3
<1>2. ASSUME NEW r \in Replicas, replica'[r].gen # 0
      PROVE  Filled(replica'[r].gen) /\ Signs(c, replica'[r].gen)
  <2> DEFINE v == replica[r].gen
             w == replica'[r].gen
  <2>1. Advances(v, w)
    BY DEF Drift
  <2>2. v # 0 => v \in Versions /\ Filled(v) /\ Signs(c, v)
    BY <1>1 DEF SettledOn
  <2>3. w # 0
    BY <1>2
  <2> HIDE DEF v, w
  <2>4. CASE w = v
    BY <2>2, <2>3, <2>4 DEF v, w
  <2>5. CASE w \in Versions /\ Filled(w) /\ w = Len(log)
    <3>1. Signer(Len(log)) = c
      BY <2>5, SecretVersion DEF SettledOn
    <3>2. Len(log) .. Len(log) = {Len(log)}
      BY <1>0
    <3>3. Signs(c, w)
      BY <2>5, <3>1, <3>2 DEF Signs
    <3> QED
      BY <2>5, <3>3 DEF w
  <2>6. CASE w \in Versions /\ Filled(w) /\ v # 0 /\ w > v
    <3>1. \A u \in w .. Len(log) : u \in v .. Len(log)
      BY <1>0, <2>2, <2>6 DEF Versions
    <3>2. Signs(c, w)
      BY <2>2, <2>6, <3>1 DEF Signs
    <3> QED
      BY <2>6, <3>2 DEF w
  <2> QED
    BY <2>1, <2>3, <2>4, <2>5, <2>6 DEF Advances
<1>3. ASSUME NEW k \in Cores, core'[k] # 0 PROVE c \in CertsOf(core'[k])
  <2>1. core'[k] = core[k] \/ \E r \in Replicas : replica[r].gen # 0 /\ core'[k] = replica[r].gen
    BY <1>3 DEF Drift, Follows
  <2> QED
    BY <1>1, <1>3, <2>1 DEF SettledOn
<1>4. ASSUME NEW e \in Edges, Stays(e)' PROVE edge'[e].leaf.by \subseteq {c} /\ edge'[e].mint.leaf.by \subseteq {c}
  <2>1. edge[e].leaf.by \subseteq {c} /\ edge[e].mint.leaf.by \subseteq {c}
    BY <1>4, StaysDrift DEF SettledOn
  <2>2. \/ edge'[e] = edge[e]
        \/ edge'[e].leaf \in {edge[e].leaf, edge[e].mint.leaf} /\ edge'[e].mint = NoMint
        \/ /\ edge'[e].leaf = edge[e].leaf
           /\ \E r \in Replicas : replica[r].gen # 0 /\ edge'[e].mint.leaf = Leaf(replica[r].gen)
    BY DEF Drift, Mints
  <2>3. NoMint.leaf.by = {}
    BY NoLeafTyped
  <2> QED
    BY <1>1, <2>1, <2>2, <2>3
<1>5. Secret'.crt # <<>> => Signer(Len(log))' = c
  BY <1>0 DEF SettledOn
<1> QED
  BY <1>0, <1>2, <1>3, <1>4, <1>5 DEF SettledOn

\* A bundle held by a replica that moves on is still the overlap.
LEMMA HoldsAdvances ==
    ASSUME Types, GensOK, LogInv, Len(Secret.crt) = 2, NEW v, NEW w, Advances(v, w), Holds(v),
           v # 0 => v \in Versions
    PROVE  Holds(w)
<1>0. Len(log) \in Nat
  BY LogTypes
<1>1. CASE w = v \/ w = 0
  BY <1>1 DEF Holds
<1>2. CASE w = Len(log)
  BY <1>2 DEF Holds, Secret
<1>3. CASE w \in Versions /\ Filled(w) /\ v # 0 /\ w > v
  <2>1. v <= w
    BY <1>0, <1>3 DEF Versions
  <2> QED
    BY <1>3, <2>1 DEF Holds, LogInv, OverlapRuns
<1> QED
  BY <1>1, <1>2, <1>3 DEF Advances

\* So is a core's.
LEMMA HoldsFollows ==
    ASSUME \A r \in Replicas : Holds(replica[r].gen), NEW k \in Cores, Holds(core[k]), NEW w, Follows(k, w)
    PROVE  Holds(w)
  BY DEF Follows, Holds

LEMMA HandoverDrift ==
    ASSUME Types, GensOK, LogInv, Secret.active = "new", Handover, Drift
    PROVE  Handover'
<1>0. Len(Secret.crt) = 2 /\ Secret' = Secret /\ log' = log
  BY SecretVersion DEF SecretOK, Drift, Secret
<1>1. \A v : (Holds(v)' <=> Holds(v)) /\ CertsOf(v)' = CertsOf(v)
  BY <1>0 DEF Holds, CertsOf
<1>2. ASSUME NEW r \in Replicas PROVE Holds(replica'[r].gen)
  <2>1. Advances(replica[r].gen, replica'[r].gen) /\ Holds(replica[r].gen)
        /\ (replica[r].gen # 0 => replica[r].gen \in Versions)
    BY DEF Drift, Handover, GensOK
  <2> QED
    BY <1>0, <2>1, HoldsAdvances
<1>3. ASSUME NEW k \in Cores PROVE Holds(core'[k])
  <2>1. Follows(k, core'[k]) /\ Holds(core[k]) /\ \A r \in Replicas : Holds(replica[r].gen)
    BY DEF Drift, Handover
  <2> QED
    BY <2>1, HoldsFollows
<1>4. ASSUME NEW r \in Replicas, replica[r].gen # 0
      PROVE  Leaf(replica[r].gen).by \subseteq CertsOf(Len(log))
  <2>1. log[replica[r].gen].crt = Secret.crt
    BY <1>4 DEF Handover, Holds
  <2>2. CertsOf(replica[r].gen) = CertsOf(Len(log))
    BY <2>1 DEF CertsOf, Secret
  <2> QED
    BY <1>4, <2>2, ReplicaGen
<1>5. ASSUME NEW e \in Edges, Stays(e)'
      PROVE  edge'[e].leaf.by \subseteq CertsOf(Len(log)) /\ edge'[e].mint.leaf.by \subseteq CertsOf(Len(log))
  <2>1. edge[e].leaf.by \subseteq CertsOf(Len(log)) /\ edge[e].mint.leaf.by \subseteq CertsOf(Len(log))
    BY <1>5, StaysDrift DEF Handover
  <2>2. \/ edge'[e] = edge[e]
        \/ edge'[e].leaf \in {edge[e].leaf, edge[e].mint.leaf} /\ edge'[e].mint = NoMint
        \/ /\ edge'[e].leaf = edge[e].leaf
           /\ \E r \in Replicas : replica[r].gen # 0 /\ edge'[e].mint.leaf = Leaf(replica[r].gen)
    BY DEF Drift, Mints
  <2>3. NoMint.leaf.by = {}
    BY NoLeafTyped
  <2> QED
    BY <1>4, <2>1, <2>2, <2>3
<1> QED
  BY <1>0, <1>1, <1>2, <1>3, <1>5 DEF Handover

\* A write by the signer c keeps the fleet settled on it.
LEMMA SettledWrite ==
    ASSUME Types, GensOK, LogInv, NEW s, WriteStep(s), NEW c \in CAs, SettledOn(c),
           s.crt # <<>> => SignerIn(s) = c
    PROVE  SettledOn(c)'
<1>0. /\ Secret' = s /\ Len(log') = Len(log) + 1 /\ Len(log) \in Nat
      /\ Signer(Len(log))' = SignerIn(s)
      /\ \A v : v = Len(log) + 1 => (Filled(v)' <=> s.crt # <<>>) /\ Signer(v)' = SignerIn(s)
      /\ \A v \in Versions : CertsOf(v)' = CertsOf(v) /\ Signer(v)' = Signer(v) /\ (Filled(v)' <=> Filled(v))
  BY OldVersions
<1>1. UNCHANGED <<registry, replica, core, edge>> /\ \A e : Stays(e)' <=> Stays(e)
  BY DEF WriteStep, fleet, Stays
<1>2. ASSUME NEW v \in Versions, Signs(c, v) PROVE Signs(c, v)'
  <2>1. \A w \in v .. (Len(log) + 1) : w = Len(log) + 1 \/ (w \in Versions /\ w \in v .. Len(log))
    BY <1>0 DEF Versions
  <2> QED
    BY <1>0, <1>2, <2>1 DEF Signs
<1>3. (\A r \in Replicas : replica[r].gen # 0 => Filled(replica[r].gen) /\ Signs(c, replica[r].gen))'
  BY <1>0, <1>1, <1>2 DEF SettledOn, GensOK
<1>4. (\A k \in Cores : core[k] # 0 => c \in CertsOf(core[k]))'
  BY <1>0, <1>1 DEF SettledOn, GensOK
<1>5. Secret'.crt # <<>> => Signer(Len(log))' = c
  BY <1>0
<1>6. \A e \in Edges : Stays(e)' => edge'[e].leaf.by \subseteq {c} /\ edge'[e].mint.leaf.by \subseteq {c}
  BY <1>1 DEF SettledOn
<1> QED
  BY <1>3, <1>4, <1>5, <1>6 DEF SettledOn

\* Adopting a CA does not generate one.
LEMMA ToolActionAdopts ==
    ASSUME Types, log' = log, ToolAction
    PROVE  adopted' = adopted \/ (Secret.crt # <<>> /\ adopted' = adopted \cup {Secret.crt[1]})
  BY DEF ToolAction, EnsureGet, RotateGet, Blacklist, ToolStart, ToolExits, ToolRotate, ToolFlip, ToolTrim,
         ToolGet, ToolUpdate, Scrape, ReadFails, Probe

\* Nor does any of these steps enable an edge_id.
LEMMA ToolActionRegistry ==
    ASSUME Types, log' = log, ToolAction
    PROVE  registry \subseteq registry'
  BY DEF ToolAction, EnsureGet, RotateGet, Blacklist, ToolStart, ToolExits, ToolRotate, ToolFlip, ToolTrim,
         ToolGet, ToolUpdate, Scrape, ReadFails, Probe

\* The steps of the tool and of the Jobs leave the fleet as it is.
LEMMA FleetTool ==
    ASSUME Types, GensOK, LogInv, FleetInv, log' = log, ToolAction
    PROVE  FleetInv'
<1>0. /\ UNCHANGED <<replica, core>> /\ Secret' = Secret /\ Versions' = Versions
      /\ \A e \in Edges : edge'[e].leaf = edge[e].leaf /\ edge'[e].mint.leaf = edge[e].mint.leaf
      /\ \A v : (Filled(v)' <=> Filled(v)) /\ Signer(v)' = Signer(v) /\ CertsOf(v)' = CertsOf(v)
      /\ \A c, v : Signs(c, v)' <=> Signs(c, v)
  BY ToolActionFleet DEF Secret, Versions, Filled, Signer, CertsOf, Signs
<1>s. ASSUME NEW e \in Edges, Stays(e)' PROVE Stays(e)
  BY <1>s, ToolActionFleet, ToolActionRegistry, StaysBefore
<1>1. ASSUME Unborn PROVE Unborn'
  <2>1. adopted' = {}
    BY <1>1, ToolActionAdopts, SecretVersion DEF Unborn
  <2> QED
    BY <1>0, <1>1, <2>1 DEF Unborn
<1>2. ASSUME NEW c \in CAs, SettledOn(c) PROVE SettledOn(c)'
  <2>1. Len(log') = Len(log)
    OBVIOUS
  <2>2. (Secret.crt # <<>> => Signer(Len(log)) = c)'
    BY <1>0, <1>2, <2>1 DEF SettledOn
  <2>3. (\A r \in Replicas : replica[r].gen # 0 => Filled(replica[r].gen) /\ Signs(c, replica[r].gen))'
    BY <1>0, <1>2 DEF SettledOn
  <2>4. (\A k \in Cores : core[k] # 0 => c \in CertsOf(core[k]))'
    BY <1>0, <1>2 DEF SettledOn
  <2>5. (\A e \in Edges : Stays(e) => edge[e].leaf.by \subseteq {c} /\ edge[e].mint.leaf.by \subseteq {c})'
    BY <1>0, <1>2, <1>s DEF SettledOn
  <2> QED
    BY <2>2, <2>3, <2>4, <2>5 DEF SettledOn
<1>3. ASSUME Handover PROVE Handover'
  <2>1. (\A r \in Replicas : Holds(replica[r].gen))' /\ (\A k \in Cores : Holds(core[k]))'
    BY <1>0, <1>3 DEF Handover, Holds
  <2>2. \A e \in Edges : Stays(e)' => /\ edge'[e].leaf.by \subseteq CertsOf(Len(log))'
                                      /\ edge'[e].mint.leaf.by \subseteq CertsOf(Len(log))'
    BY <1>0, <1>3, <1>s DEF Handover
  <2> QED
    BY <2>1, <2>2 DEF Handover
<1> QED
  BY <1>0, <1>1, <1>2, <1>3 DEF FleetInv

\* The fleet of the first CA.
LEMMA FleetEnsured ==
    ASSUME Types, GensOK, LogInv, FleetInv, NEW s, WriteStep(s), DidEnsure(s)
    PROVE  FleetInv'
<1>1. Unborn /\ s.crt[1] \in CAs /\ UNCHANGED <<replica, core, edge>>
  BY DEF DidEnsure, FleetInv, WriteStep, fleet
<1>2. Secret' = s /\ Signer(Len(log))' = SignerIn(s)
  BY OldVersions
<1>3. SettledOn(s.crt[1])
  <2>1. Secret.crt = <<>>
    BY DEF DidEnsure
  <2> QED
    BY <1>1, <2>1, NoLeafTyped DEF Unborn, SettledOn
<1>4. SettledOn(s.crt[1])'
  BY <1>1, <1>3, SettledWrite DEF DidEnsure
<1>5. \E c \in CAs : SettledOn(c)'
  BY <1>1, <1>4
<1> QED
  BY <1>2, <1>5 DEF FleetInv, DidEnsure

\* A write that keeps the signer and the old key active.
LEMMA FleetKept ==
    ASSUME Types, GensOK, LogInv, FleetInv, NEW s, WriteStep(s), Secret.guard, Secret.active = "old",
           s.guard, s.active = "old",
           s.crt # <<>> => Secret.crt # <<>> /\ SignerIn(s) = SignerIn(Secret)
    PROVE  FleetInv'
<1>1. PICK c \in CAs : SettledOn(c)
  BY DEF FleetInv
<1>2. s.crt # <<>> => SignerIn(s) = c
  BY <1>1, SecretVersion DEF SettledOn
<1>3. SettledOn(c)'
  BY <1>1, <1>2, SettledWrite
<1>4. Secret' = s
  BY OldVersions
<1>5. \E d \in CAs : SettledOn(d)'
  BY <1>3
<1> QED
  BY <1>4, <1>5 DEF FleetInv

\* A write that leaves both CAs and has the new key active.
LEMMA FleetHandover ==
    ASSUME Types, GensOK, LogInv, NEW s, WriteStep(s), s.crt = Secret.crt, s.active = "new", s.guard, Handover
    PROVE  FleetInv'
<1>1. UNCHANGED <<registry, replica, core, edge>> /\ \A e : Stays(e)' <=> Stays(e)
  BY DEF WriteStep, fleet, Stays
<1>2. Secret' = s /\ CertsOf(Len(log))' = Certs(s) /\ \A v \in Versions : log'[v] = log[v]
  BY OldVersions
<1>3. Certs(s) = CertsOf(Len(log))
  BY SecretVersion DEF Certs
<1>4. (\A r \in Replicas : Holds(replica[r].gen))' /\ (\A k \in Cores : Holds(core[k]))'
  BY <1>1, <1>2 DEF Handover, Holds, GensOK
<1>5. Handover'
  BY <1>1, <1>2, <1>3, <1>4 DEF Handover
<1> QED
  BY <1>2, <1>5 DEF FleetInv

\* Gate A has shown that everybody holds both CAs, so that NEW may sign.
LEMMA FleetFlipped ==
    ASSUME Types, GensOK, LogInv, FleetInv, ToolInv, NEW s, WriteStep(s), DidFlip(s)
    PROVE  FleetInv'
<1>1. (\A r \in Replicas : Holds(replica[r].gen)) /\ (\A k \in Cores : Holds(core[k]))
  BY DEF ToolInv, DidFlip
<1>2. PICK c \in CAs : SettledOn(c)
  BY DEF FleetInv, DidFlip
<1>3. c \in CertsOf(Len(log))
  <2>1. Secret.crt # <<>>
    BY SecretVersion, CertsCases DEF DidFlip
  <2>2. SignerIn(Secret) \in Certs(Secret)
    BY <2>1, SecretVersion, CertsCases
  <2> QED
    BY <1>2, <2>1, <2>2, SecretVersion DEF SettledOn
<1>4. Handover
  BY <1>1, <1>2, <1>3 DEF Handover, SettledOn
<1> QED
  BY <1>4, FleetHandover DEF DidFlip

\* Gate B has shown that nobody signs with OLD or has a leaf by it.
LEMMA FleetTrimmed ==
    ASSUME Types, GensOK, LogInv, FleetInv, ToolInv, NEW s, WriteStep(s), DidTrim(s)
    PROVE  FleetInv'
<1>a. NewCA \in CAs
  BY SecretVersion, CertsCases DEF DidTrim
<1>b. PICK c \in CAs : c = NewCA
  BY <1>a
<1>0. /\ Secret.crt # <<>> /\ SignerIn(s) = c /\ Signer(Len(log)) = c /\ c \in CAs /\ c \in Certs(Secret)
      /\ Len(log) \in Nat
  BY <1>b, SecretVersion, CertsCases, LogTypes DEF DidTrim
<1>1. /\ \A r \in Replicas : SignsNew(replica[r].gen)
      /\ \A e \in Edges : Stays(e) => ByNew(edge[e].leaf) /\ ByNew(edge[e].mint.leaf)
  BY DEF ToolInv, DidTrim
<1>2. Handover
  BY DEF FleetInv, DidTrim
<1>3. ASSUME NEW r \in Replicas, replica[r].gen # 0
      PROVE  Filled(replica[r].gen) /\ Signs(c, replica[r].gen)
  <2>1. replica[r].gen \in Versions /\ Filled(replica[r].gen) /\ Signer(replica[r].gen) = Signer(Len(log))
    BY <1>0, <1>1, <1>3, <1>b DEF GensOK, SignsNew
  <2>2. \A w \in replica[r].gen .. Len(log) : w \in Versions /\ replica[r].gen <= w
    BY <1>0, <2>1 DEF Versions
  <2>3. \A w \in replica[r].gen .. Len(log) : Filled(w) => Signer(w) = Signer(Len(log))
    BY <1>0, <2>1, <2>2 DEF LogInv, SignerRuns
  <2> QED
    BY <1>0, <2>1, <2>3 DEF Signs
<1>4. ASSUME NEW k \in Cores, core[k] # 0 PROVE c \in CertsOf(core[k])
  <2>1. log[core[k]].crt = Secret.crt
    BY <1>2, <1>4 DEF Handover, Holds
  <2> QED
    BY <1>0, <2>1 DEF CertsOf, Certs
<1>5. SettledOn(c)
  BY <1>0, <1>1, <1>3, <1>4, <1>b DEF SettledOn, ByNew
<1>6. SettledOn(c)'
  BY <1>0, <1>5, SettledWrite
<1>7. Secret' = s
  BY OldVersions
<1>8. \E d \in CAs : SettledOn(d)'
  BY <1>6
<1> QED
  BY <1>7, <1>8 DEF FleetInv, DidTrim

\* An edit that changes no data.
LEMMA FleetTouched ==
    ASSUME Types, GensOK, LogInv, FleetInv, NEW s, WriteStep(s), DidTouch(s)
    PROVE  FleetInv'
<1>0. s = Secret /\ adopted' = adopted /\ Secret.guard \in BOOLEAN /\ Secret.active \in {"old", "new"}
  BY SecretVersion DEF DidTouch
<1>1. CASE Secret.guard /\ Secret.active = "old"
  BY <1>0, <1>1, FleetKept
<1>2. CASE Secret.guard /\ Secret.active = "new"
  BY <1>0, <1>2, FleetHandover DEF FleetInv
<1>3. CASE ~Secret.guard
  <2>1. Unborn /\ UNCHANGED <<replica, core, edge>>
    BY <1>3 DEF FleetInv, WriteStep, fleet
  <2>2. s \in SecretTypes /\ CAS(s) /\ Secret' = s /\ \A v \in Versions : Filled(v)' <=> Filled(v)
    BY OldVersions DEF WriteStep
  <2>3. Versions' = Versions \cup {Len(log) + 1} /\ \A v : v = Len(log) + 1 => (Filled(v)' <=> s.crt # <<>>)
    BY <2>2, LogGrows, OldVersions
  <2>4. s.crt = <<>> /\ Secret.active # "new"
    <3>1. Secret.crt = <<>>
      BY <1>3, SecretVersion DEF SecretOK
    <3>2. Len(Secret.crt) # 2
      BY <3>1, SecretVersion, CertsCases
    <3> QED
      BY <1>0, <3>1, <3>2, SecretVersion DEF SecretOK
  <2>5. (\A v \in Versions : ~Filled(v))'
    BY <2>1, <2>2, <2>3, <2>4 DEF Unborn
  <2>6. Unborn'
    BY <1>0, <2>1, <2>5 DEF Unborn
  <2> QED
    BY <1>0, <1>3, <2>2, <2>4, <2>6 DEF FleetInv
<1> QED
  BY <1>0, <1>1, <1>2, <1>3

LEMMA FleetStep ==
    ASSUME Types, GensOK, LogInv, JobInv, FleetInv, ToolInv, [Next]_vars
    PROVE  FleetInv'
<1>1. ASSUME NEW s, WriteStep(s)
      PROVE  FleetInv'
  <2>1. CASE DidRotate(s)
    <3>1. s.crt # <<>> => Secret.crt # <<>>
      BY <2>1, SecretVersion, CertsCases DEF DidRotate
    <3> QED
      BY <1>1, <2>1, <3>1, FleetKept DEF DidRotate
  <2>2. CASE DidPrune(s)
    BY <1>1, <2>2, FleetKept DEF DidPrune
  <2> QED
    BY <1>1, <2>1, <2>2, WriteCases, FleetEnsured, FleetFlipped, FleetTrimmed, FleetTouched
<1>2. CASE FleetAction
  <2>1. Drift /\ Secret' = Secret
    BY <1>2, FleetDrifts DEF Drift, Secret
  <2>2. ~Secret.guard => Unborn'
    BY <2>1, UnbornDrift DEF FleetInv
  <2>3. Secret.guard /\ Secret.active = "old" => \E c \in CAs : SettledOn(c)'
    BY <2>1, SettledDrift DEF FleetInv
  <2>4. Secret.active = "new" => Handover'
    BY <2>1, HandoverDrift DEF FleetInv
  <2> QED
    BY <2>1, <2>2, <2>3, <2>4 DEF FleetInv
<1>3. CASE log' = log /\ ToolAction
  BY <1>3, FleetTool
<1>4. CASE UNCHANGED vars
  BY <1>4 DEF vars, FleetInv, Secret, Unborn, Versions, Filled, SettledOn, Signs, Signer, CertsOf, Handover, Holds, Stays
<1> QED
  BY <1>1, <1>2, <1>3, <1>4, StepCases

-----------------------------------------------------------------------------
(* What the gates have seen.                                               *)

\* A gate that has seen nobody says nothing.
LEMMA QuietGates ==
    ASSUME gate = Quiet
    PROVE  GateA /\ GateB
<1>1. gate.n = 0 /\ gate.todo = Reporters /\ \A r \in Replicas : r \in Reporters
  BY QuietTyped DEF Reporters
<1> QED
  BY <1>1 DEF GateA, GateB

\* The tool in a gate, or past one, has the overlap in hand.
LEMMA ToolBundle ==
    ASSUME Types, LogInv, ToolInv, tool.pc \notin {"off", "rotate"}
    PROVE  /\ tool.bundle = Secret.crt /\ Len(Secret.crt) = 2 /\ Overlapping(Secret) /\ Secret.crt # <<>>
           /\ NewCA = Secret.crt[2]
           /\ tool.pc \in {"B", "trim"} => Signer(Len(log)) = NewCA
<1>1. tool.bundle = Secret.crt /\ Len(Secret.crt) = 2 /\ Overlapping(Secret)
  BY DEF ToolInv, Overlapping
<1>2. Secret.crt # <<>> /\ NewCA = Secret.crt[2]
  BY <1>1, SecretVersion, CertsCases DEF NewCA
<1>3. tool.pc \in {"B", "trim"} => Signer(Len(log)) = NewCA
  BY <1>1, <1>2, SecretVersion DEF ToolInv, SignerIn
<1> QED
  BY <1>1, <1>2, <1>3

\* A replica that signs with the active NEW goes on doing so.
LEMMA SignsAdvances ==
    ASSUME Types, GensOK, LogInv, Secret.crt # <<>>, Signer(Len(log)) = NewCA,
           NEW v, NEW w, Advances(v, w), SignsNew(v), v # 0 => v \in Versions /\ Filled(v)
    PROVE  SignsNew(w)
<1>0. Len(log) \in Nat
  BY LogTypes
<1>1. CASE w = v \/ w = 0
  BY <1>1 DEF SignsNew
<1>2. CASE w = Len(log)
  BY <1>2 DEF SignsNew
<1>3. CASE w \in Versions /\ Filled(w) /\ v # 0 /\ w > v
  <2>1. v <= w /\ v \in Versions /\ Filled(v)
    BY <1>0, <1>3 DEF Versions
  <2> QED
    BY <1>3, <2>1 DEF SignsNew, LogInv, SignerRuns
<1> QED
  BY <1>1, <1>2, <1>3 DEF Advances

\* The leaf of a new mint is by NEW if the replica signs with it.
LEMMA ByNewMint ==
    ASSUME Types, GensOK, NEW r \in Replicas, replica[r].gen # 0, SignsNew(replica[r].gen)
    PROVE  ByNew(Leaf(replica[r].gen))
  BY ReplicaGen DEF ByNew, SignsNew

LEMMA ByNewNone == ByNew(NoLeaf)
  BY NoLeafTyped DEF ByNew

\* A replica that refuses the token of the run's edge notes no leaf for it.
LEMMA NotShownDrift ==
    ASSUME Drift, RegistryInv, tool.pc \in {"B", "trim"}, NEW r \in Replicas, NotShown(r)
    PROVE  NotShown(r)'
<1>1. tool.id \in replica[r].authz /\ tool' = tool
  BY DEF RegistryInv, Blocked, Drift
<1>2. \A p \in replica'[r].issued : p \in replica[r].issued \/ p[1] # tool.id
  BY <1>1 DEF Drift, Learns, Notes
<1> QED
  BY <1>1, <1>2 DEF NotShown, NewCA

\* If an edge is alone with its edge_id, the gate sees its leaf.
LEMMA EdgeSeen ==
    ASSUME RegistryInv, tool.pc = "B", NEW e \in Edges, Stays(e), EdgeConverged(edge[e].id)
    PROVE  ByNew(edge[e].leaf)
<1>1. CASE edge[e].leaf = NoLeaf
  BY <1>1, ByNewNone
<1>2. CASE edge[e].leaf # NoLeaf
  <2>1. Live(edge[e].id) = {edge[e].leaf}
    BY <1>2 DEF Live, Stays
  <2>2. edge[e].id # tool.id
    BY DEF Stays, RegistryInv
  <2> QED
    BY <2>1, <2>2 DEF EdgeConverged, ByNew
<1> QED
  BY <1>1, <1>2

\* What a gate has seen stays true whatever the fleet does.
LEMMA ToolDrift ==
    ASSUME Types, GensOK, LogInv, ToolInv, RegistryInv, Drift
    PROVE  ToolInv'
<1>0. /\ UNCHANGED <<log, tool, gate>> /\ Secret' = Secret /\ NewCA' = NewCA
      /\ \A v : (Holds(v)' <=> Holds(v)) /\ (SignsNew(v)' <=> SignsNew(v))
      /\ \A l : ByNew(l)' <=> ByNew(l)
  BY DEF Drift, Secret, NewCA, Holds, SignsNew, ByNew, Signer
<1>1. /\ \A r \in Replicas : Advances(replica[r].gen, replica'[r].gen)
      /\ \A k \in Cores : Follows(k, core'[k])
      /\ \A e \in Edges : Mints(edge[e], edge'[e])
      /\ \A r \in Replicas : replica[r].gen # 0 => replica[r].gen \in Versions /\ Filled(replica[r].gen)
  BY DEF Drift, GensOK
<1>2. ASSUME tool.pc \notin {"off", "rotate"}, NEW r \in Replicas, Holds(replica[r].gen)
      PROVE  Holds(replica'[r].gen)
  BY <1>1, <1>2, ToolBundle, HoldsAdvances
<1>3. ASSUME tool.pc \in {"B", "trim"}, NEW r \in Replicas, SignsNew(replica[r].gen)
      PROVE  SignsNew(replica'[r].gen)
  <2>1. Secret.crt # <<>> /\ Signer(Len(log)) = NewCA
    BY <1>3, ToolBundle
  <2> QED
    BY <1>1, <1>3, <2>1, SignsAdvances
<1>4. ASSUME \A r \in Replicas : Holds(replica[r].gen), NEW k \in Cores, Holds(core[k])
      PROVE  Holds(core'[k])
  BY <1>1, <1>4, HoldsFollows
<1>5. ASSUME \A r \in Replicas : SignsNew(replica[r].gen), NEW e \in Edges
      PROVE  /\ edge[e].mint.old \/ ByNew(edge[e].mint.leaf) => edge'[e].mint.old \/ ByNew(edge'[e].mint.leaf)
             /\ ByNew(edge[e].leaf) /\ ByNew(edge[e].mint.leaf) => ByNew(edge'[e].leaf) /\ ByNew(edge'[e].mint.leaf)
             /\ ~edge[e].mint.old => ~edge'[e].mint.old
  <2>1. \A r \in Replicas : replica[r].gen # 0 => ByNew(Leaf(replica[r].gen))
    BY <1>5, ByNewMint
  <2>2. ByNew(NoMint.leaf) /\ ~NoMint.old
    BY ByNewNone, NoLeafTyped
  <2>3. \/ edge'[e] = edge[e]
        \/ edge'[e].leaf \in {edge[e].leaf, edge[e].mint.leaf} /\ edge'[e].mint = NoMint
        \/ edge'[e].leaf = edge[e].leaf /\ edge'[e].mint.old = FALSE /\ ByNew(edge'[e].mint.leaf)
    BY <1>1, <2>1 DEF Mints
  <2> QED
    BY <2>2, <2>3
<1>n. ASSUME tool.pc \in {"B", "trim"}, NEW r \in Replicas, NotShown(r) PROVE NotShown(r)'
  BY <1>n, NotShownDrift
<1>s. ASSUME NEW e \in Edges, Stays(e)' PROVE Stays(e) /\ edge'[e].id = edge[e].id
  BY <1>s, <1>1, StaysDrift DEF Mints
<1>6. tool.pc = "A" => GateA'
  <2> SUFFICES ASSUME tool.pc = "A" PROVE GateA'
    OBVIOUS
  <2>1. GateA
    BY DEF ToolInv
  <2> QED
    BY <1>0, <1>2, <1>4, <2>1 DEF GateA
<1>7. tool.pc = "flip" => /\ \A r \in Replicas : Holds(replica'[r].gen)
                          /\ \A k \in Cores : Holds(core'[k])
  BY <1>2, <1>4 DEF ToolInv
<1>8. tool.pc = "B" => GateB'
  <2> SUFFICES ASSUME tool.pc = "B" PROVE GateB'
    OBVIOUS
  <2>1. GateB
    BY DEF ToolInv
  <2>2. \A r \in Replicas : gate.n = 1 \/ r \notin gate.todo => SignsNew(replica'[r].gen) /\ NotShown(r)'
    BY <1>3, <1>n, <2>1 DEF GateB
  <2>3. ASSUME gate.n = 1, NEW e \in Edges, Stays(e)'
        PROVE  /\ edge'[e].mint.old \/ ByNew(edge'[e].mint.leaf)
               /\ edge'[e].id \notin gate.todo => ByNew(edge'[e].leaf) /\ ~edge'[e].mint.old
    <3>1. /\ edge[e].mint.old \/ ByNew(edge[e].mint.leaf)
          /\ edge[e].id \notin gate.todo => ByNew(edge[e].leaf) /\ ~edge[e].mint.old
          /\ \A r \in Replicas : SignsNew(replica[r].gen)
      BY <1>s, <2>1, <2>3 DEF GateB
    <3>2. edge'[e].id = edge[e].id
      BY <1>s, <2>3
    <3> QED
      BY <1>5, <3>1, <3>2
  <2> QED
    BY <1>0, <2>2, <2>3 DEF GateB
<1>9. tool.pc = "trim" => /\ \A r \in Replicas : SignsNew(replica'[r].gen) /\ NotShown(r)'
                          /\ \A e \in Edges : Stays(e)' => ByNew(edge'[e].leaf) /\ ByNew(edge'[e].mint.leaf)
  BY <1>3, <1>5, <1>n, <1>s DEF ToolInv
<1>10. /\ tool.pc \in {"off", "rotate"} => tool.bundle = <<>>
       /\ tool.pc \notin {"off", "rotate"} => Overlapping(Secret) /\ tool.bundle = Secret.crt
       /\ tool.pc \in {"B", "trim"} => Secret.active = "new"
       /\ tool.pc \notin {"A", "B"} => gate = Quiet
  BY DEF ToolInv
<1>11. Quiet' = Quiet /\ (Overlapping(Secret)' <=> Overlapping(Secret))
  BY <1>0 DEF Quiet, Overlapping
<1> QED
  BY <1>0, <1>6, <1>7, <1>8, <1>9, <1>10, <1>11 DEF ToolInv

\* Only the tool writes while it holds the overlap, or the write changes no data.
LEMMA ToolWrite ==
    ASSUME Types, GensOK, LogInv, ToolInv, NEW s, WriteStep(s)
    PROVE  ToolInv'
<1>0. /\ Secret' = s /\ UNCHANGED <<gate, registry, replica, core, edge>>
      /\ \A v \in Versions : log'[v] = log[v] /\ Signer(v)' = Signer(v)
  BY OldVersions DEF WriteStep, fleet
<1>a. tool.pc \notin {"off", "rotate"} => Len(Secret.crt) = 2
  BY DEF ToolInv, Overlapping
<1>b. tool \in ToolRecord
  BY DEF Types
<1>c. gate = Quiet => (gate = Quiet)' /\ (GateA /\ GateB)'
  <2>1. gate = Quiet => (gate = Quiet)'
    BY <1>0 DEF Quiet, Reporters
  <2>2. ASSUME (gate = Quiet)' PROVE (GateA /\ GateB)'
    BY <2>2, QuietGates, PTL
  <2> QED
    BY <2>1, <2>2
<1>1. CASE tool' = tool /\ Len(Secret.crt) # 2
  <2>1. tool'.pc \in {"off", "rotate"} /\ tool'.bundle = <<>> /\ gate = Quiet
    BY <1>1, <1>a DEF ToolInv
  <2> QED
    BY <1>c, <2>1 DEF ToolInv
<1>2. CASE DidRotate(s) /\ tool' # tool
  <2>1. /\ tool'.pc = "A" /\ tool'.bundle = s.crt /\ Overlapping(s) /\ gate = Quiet
    BY <1>2, <1>b DEF DidRotate, ToolInv, Widened, ToolRecord
  <2>2. Overlapping(Secret)'
    BY <1>0, <2>1 DEF Overlapping
  <2> QED
    BY <1>0, <1>c, <2>1, <2>2 DEF ToolInv
<1>3. CASE DidFlip(s)
  <2>1. tool'.pc = "B" /\ tool'.bundle = tool.bundle
    BY <1>3, <1>b DEF DidFlip, ToolRecord
  <2>2. tool.bundle = Secret.crt /\ gate = Quiet
    BY <1>3 DEF DidFlip, ToolInv
  <2>3. Overlapping(s) /\ s.crt = Secret.crt /\ s.active = "new"
    BY <1>3 DEF DidFlip
  <2>4. Overlapping(Secret)'
    BY <1>0, <2>3 DEF Overlapping
  <2> QED
    BY <1>0, <1>c, <2>1, <2>2, <2>3, <2>4 DEF ToolInv
<1>4. CASE DidTrim(s)
  <2>1. tool'.pc = "off" /\ tool'.bundle = <<>> /\ gate = Quiet
    BY <1>4 DEF DidTrim, ToolInv, Off
  <2> QED
    BY <1>c, <2>1 DEF ToolInv
<1>5. CASE DidTouch(s)
  <2>1. s = Secret /\ tool' = tool /\ NewCA' = NewCA
    BY <1>5 DEF DidTouch, NewCA
  <2>2. /\ \A v \in Versions \cup {0} : (Holds(v)' <=> Holds(v)) /\ (SignsNew(v)' <=> SignsNew(v))
        /\ \A l : ByNew(l)' <=> ByNew(l)
        /\ \A r : NotShown(r)' <=> NotShown(r)
        /\ \A e : Stays(e)' <=> Stays(e)
    BY <1>0, <2>1 DEF Holds, SignsNew, ByNew, NotShown, Stays
  <2>3. /\ \A r \in Replicas : replica[r].gen \in Versions \cup {0}
        /\ \A k \in Cores : core[k] \in Versions \cup {0}
    BY DEF GensOK
  <2>4. GateA => GateA'
    BY <1>0, <2>2, <2>3 DEF GateA
  <2>5. GateB => GateB'
    BY <1>0, <2>2, <2>3 DEF GateB
  <2>6. Quiet' = Quiet /\ (Overlapping(Secret)' <=> Overlapping(Secret))
    BY <1>0, <2>1 DEF Quiet, Reporters, Overlapping
  <2>7. /\ tool.pc = "flip" => (\A r \in Replicas : Holds(replica[r].gen))' /\ (\A k \in Cores : Holds(core[k]))'
        /\ tool.pc = "trim" => (\A r \in Replicas : SignsNew(replica[r].gen) /\ NotShown(r))'
                               /\ (\A e \in Edges : Stays(e) => ByNew(edge[e].leaf) /\ ByNew(edge[e].mint.leaf))'
    BY <1>0, <2>2, <2>3 DEF ToolInv
  <2> QED
    BY <1>0, <2>1, <2>4, <2>5, <2>6, <2>7 DEF ToolInv
<1>6. \/ tool' = tool /\ Len(Secret.crt) # 2
      \/ DidRotate(s) /\ tool' # tool
      \/ DidFlip(s) \/ DidTrim(s) \/ DidTouch(s)
  <2>1. DidEnsure(s) => tool' = tool /\ Len(Secret.crt) # 2
    BY SecretVersion, CertsCases DEF DidEnsure
  <2>2. DidPrune(s) => tool' = tool /\ Len(Secret.crt) # 2
    BY DEF DidPrune
  <2>3. DidRotate(s) => Len(Secret.crt) # 2
    BY DEF DidRotate
  <2> QED
    BY <2>1, <2>2, <2>3, WriteCases
<1> QED
  BY <1>1, <1>2, <1>3, <1>4, <1>5, <1>6

\* The steps of the tool itself.
LEMMA ToolActs ==
    ASSUME Types, GensOK, LogInv, ToolInv, RegistryInv, log' = log, ToolAction
    PROVE  ToolInv'
<1>0. /\ UNCHANGED <<replica, core>> /\ Secret' = Secret /\ Quiet' = Quiet
      /\ (Overlapping(Secret)' <=> Overlapping(Secret))
      /\ \A v : Holds(v)' <=> Holds(v)
      /\ \A v : Signer(v)' = Signer(v)
  BY ToolActionFleet DEF Secret, Quiet, Reporters, Overlapping, Holds, Signer
<1>a. tool \in ToolRecord /\ gate \in GateRecord
  BY DEF Types
<1>s. ASSUME NEW e \in Edges, Stays(e)' PROVE Stays(e)
  BY <1>s, ToolActionFleet, ToolActionRegistry, StaysBefore
<1>n. ASSUME tool'.id = tool.id, tool'.bundle = tool.bundle
      PROVE  /\ \A v : SignsNew(v)' <=> SignsNew(v)
             /\ \A l : ByNew(l)' <=> ByNew(l)
             /\ \A r : NotShown(r)' <=> NotShown(r)
  BY <1>0, <1>n DEF SignsNew, ByNew, NotShown, NewCA
<1>b. gate' = Quiet => (GateA /\ GateB)'
  <2>1. ASSUME (gate = Quiet)' PROVE (GateA /\ GateB)'
    BY <2>1, QuietGates, PTL
  <2> QED
    BY <1>0, <2>1
<1>c. ASSUME tool'.pc \in {"off", "rotate"}, tool'.bundle = <<>>, gate' = Quiet
      PROVE  ToolInv'
  BY <1>0, <1>c DEF ToolInv
<1>1. CASE UNCHANGED <<tool, gate, edge>>
  <2>1. /\ \A v : SignsNew(v)' <=> SignsNew(v)
        /\ \A l : ByNew(l)' <=> ByNew(l)
        /\ \A r : NotShown(r)' <=> NotShown(r)
    BY <1>1, <1>n
  <2>2. GateA => GateA'
    BY <1>0, <1>1 DEF GateA
  <2>3. GateB => GateB'
    BY <1>0, <1>1, <1>s, <2>1 DEF GateB
  <2>4. tool.pc = "trim" => /\ \A r \in Replicas : SignsNew(replica[r].gen)' /\ NotShown(r)'
                            /\ \A e \in Edges : Stays(e)' => ByNew(edge[e].leaf)' /\ ByNew(edge[e].mint.leaf)'
    BY <1>0, <1>1, <1>s, <2>1 DEF ToolInv
  <2> QED
    BY <1>0, <1>1, <2>2, <2>3, <2>4 DEF ToolInv
<1>2. CASE \E i \in Ids : ToolStart(i)
  <2>1. tool = Off /\ gate' = gate
    BY <1>2 DEF ToolStart
  <2>2. tool.pc = "off" /\ tool'.pc = "rotate" /\ tool'.bundle = <<>>
    BY <1>2, <2>1 DEF ToolStart, Off
  <2>3. gate' = Quiet
    BY <2>1, <2>2 DEF ToolInv
  <2> QED
    BY <1>c, <2>2, <2>3
<1>3. CASE ToolExits
  BY <1>3, <1>c DEF ToolExits, Off
<1>4. ASSUME NEW s, CAS(s) PROVE FALSE
  <2>1. log' = Append(log, s) /\ Len(log) \in Nat /\ Len(Append(log, s)) = Len(log) + 1
    BY <1>4 DEF CAS, Types
  <2> QED
    BY <2>1
<1>5. CASE ToolRotate
  <2>1. gate' = gate /\ tool.pc = "rotate" /\ edge' = edge
    BY <1>5, <1>4 DEF ToolRotate, ToolGet, ToolUpdate, fleet
  <2>2. tool' = tool \/ (Overlapping(Secret) /\ tool' = Widened(Secret.crt))
    BY <1>5, <1>4 DEF ToolRotate, ToolGet, ToolUpdate, Widened
  <2>3. gate' = Quiet
    BY <2>1 DEF ToolInv
  <2>4. CASE Overlapping(Secret) /\ tool' = Widened(Secret.crt)
    <3>1. tool'.pc = "A" /\ tool'.bundle = Secret.crt
      BY <1>a, <2>4 DEF Widened, ToolRecord
    <3> QED
      BY <1>0, <1>b, <2>3, <2>4, <3>1 DEF ToolInv
  <2> QED
    BY <1>1, <2>1, <2>2, <2>4
<1>6. CASE ToolFlip
  <2>1. gate' = gate /\ tool.pc = "flip" /\ edge' = edge
    BY <1>6, <1>4 DEF ToolFlip, ToolGet, ToolUpdate, fleet
  <2>2. tool' = tool \/ (FlipDone(Secret, NewCA) /\ tool' = [tool EXCEPT !.pc = "B"])
    BY <1>6, <1>4 DEF ToolFlip, ToolGet, ToolUpdate
  <2>3. gate' = Quiet /\ Overlapping(Secret) /\ tool.bundle = Secret.crt
    BY <2>1 DEF ToolInv
  <2>4. CASE FlipDone(Secret, NewCA) /\ tool' = [tool EXCEPT !.pc = "B"]
    <3>1. Secret.active = "new" /\ tool'.pc = "B" /\ tool'.bundle = tool.bundle
      BY <1>a, <2>4 DEF FlipDone, ToolRecord
    <3> QED
      BY <1>0, <1>b, <2>3, <3>1 DEF ToolInv
  <2> QED
    BY <1>1, <2>1, <2>2, <2>4
<1>7. CASE ToolTrim
  <2>1. gate' = gate /\ tool.pc = "trim" /\ edge' = edge
    BY <1>7, <1>4 DEF ToolTrim, ToolGet, ToolUpdate, fleet
  <2>2. tool' = tool \/ tool' = Off
    BY <1>7, <1>4 DEF ToolTrim, ToolGet, ToolUpdate
  <2>3. gate' = Quiet
    BY <2>1 DEF ToolInv
  <2>4. CASE tool' = Off
    BY <1>c, <2>3, <2>4 DEF Off
  <2> QED
    BY <1>1, <2>1, <2>2, <2>4
<1>8. CASE ReadFails
  <2>1. gate' = Quiet /\ tool' = tool /\ edge' = edge
    BY <1>8 DEF ReadFails, fleet
  <2>2. tool.pc = "trim" => gate = Quiet
    BY DEF ToolInv
  <2> QED
    BY <1>0, <1>8, <1>b, <2>1, <2>2 DEF ToolInv, ReadFails
<1>9. ASSUME NEW x \in Reporters, Scrape(x) PROVE ToolInv'
  <2>1. tool.pc \in {"A", "B"} /\ x \in gate.todo /\ (gate.n = 1 => Window) /\ tool' = tool /\ edge' = edge
        /\ registry' = registry
    BY <1>9 DEF Scrape, fleet
  <2>2. tool.bundle = Secret.crt /\ Overlapping(Secret) /\ (tool.pc = "B" => Secret.active = "new")
    BY <2>1 DEF ToolInv
  <2>3. gate'.n = gate.n /\ gate'.todo = gate.todo \ {x}
    BY <1>9, <1>a DEF Scrape, GateRecord
  <2>4. /\ \A v : SignsNew(v)' <=> SignsNew(v)
        /\ \A l : ByNew(l)' <=> ByNew(l)
        /\ \A r : NotShown(r)' <=> NotShown(r)
    BY <1>n, <2>1
  <2>5. \/ x \in Replicas /\ ReplicaConverged(x)
        \/ x \in Cores /\ CoreConverged(x)
        \/ x \in Ids /\ EdgeConverged(x)
    BY <1>9 DEF Scrape
  <2>6. /\ x \in Replicas => x \notin Cores /\ x \notin Ids
        /\ x \in Cores => x \notin Ids
    BY NamesAssumption
  <2>7. x \in Replicas => Holds(replica[x].gen) /\ (tool.pc = "B" => SignsNew(replica[x].gen) /\ NotShown(x))
    BY <2>2, <2>5, <2>6 DEF ReplicaConverged, Holds, SignsNew, NotShown
  <2>8. x \in Cores => Holds(core[x])
    BY <2>2, <2>5, <2>6 DEF CoreConverged, Holds
  <2>9. ASSUME NEW e \in Edges, Stays(e), edge[e].id = x, gate.n = 1, tool.pc = "B"
        PROVE  ByNew(edge[e].leaf) /\ ~edge[e].mint.old
    <3>1. x \in Ids
      BY <2>9 DEF Types, EdgeTypes
    <3>2. EdgeConverged(edge[e].id)
      BY <2>5, <2>6, <2>9, <3>1
    <3> QED
      BY <2>1, <2>9, <3>2, EdgeSeen DEF Window
  <2>10. tool.pc = "A" => GateA'
    BY <1>0, <2>3, <2>7, <2>8 DEF ToolInv, GateA
  <2>11. tool.pc = "B" => GateB'
    <3> SUFFICES ASSUME tool.pc = "B" PROVE GateB'
      OBVIOUS
    <3>1. GateB
      BY DEF ToolInv
    <3>2. (\A r \in Replicas : gate.n = 1 \/ r \notin gate.todo => SignsNew(replica[r].gen) /\ NotShown(r))'
      BY <1>0, <2>3, <2>4, <2>7, <3>1 DEF GateB
    <3>3. (gate.n = 1 => \A e \in Edges : Stays(e) =>
             /\ edge[e].mint.old \/ ByNew(edge[e].mint.leaf)
             /\ edge[e].id \notin gate.todo => ByNew(edge[e].leaf) /\ ~edge[e].mint.old)'
      BY <1>s, <2>1, <2>3, <2>4, <2>9, <3>1 DEF GateB
    <3> QED
      BY <3>2, <3>3 DEF GateB
  <2> QED
    BY <1>0, <2>1, <2>2, <2>10, <2>11 DEF ToolInv
<1>10. CASE Probe /\ gate.n = 0
  <2>1. /\ tool.pc \in {"A", "B"} /\ gate.todo = {} /\ tool' = tool /\ gate' = [Quiet EXCEPT !.n = 1]
        /\ edge' = [e \in Edges |-> [edge[e] EXCEPT !.mint.old = (edge[e].mint # NoMint)]]
    BY <1>10 DEF Probe
  <2>2. gate'.n = 1 /\ gate'.todo = Reporters
    BY <2>1, QuietTyped
  <2>3. /\ \A v : SignsNew(v)' <=> SignsNew(v)
        /\ \A l : ByNew(l)' <=> ByNew(l)
        /\ \A r : NotShown(r)' <=> NotShown(r)
    BY <1>n, <2>1
  <2>4. (\A k \in Cores : k \in Reporters) /\ \A e \in Edges : edge'[e].id \in Reporters
    BY ToolActionFleet DEF Reporters, Types, EdgeTypes
  <2>5. tool.pc = "A" => GateA'
    BY <1>0, <2>1, <2>2, <2>4 DEF ToolInv, GateA
  <2>6. ASSUME NEW e \in Edges PROVE edge'[e].mint.old \/ ByNew(edge'[e].mint.leaf)
    <3>1. edge'[e] = [edge[e] EXCEPT !.mint.old = (edge[e].mint # NoMint)] /\ edge[e] \in EdgeTypes
      BY <2>1 DEF Types
    <3>2. edge'[e].mint.old = (edge[e].mint # NoMint)
      BY <3>1, Zenon DEF EdgeTypes, MintTypes
    <3>3. edge'[e].mint.leaf = edge[e].mint.leaf
      BY ToolActionFleet
    <3> QED
      BY <3>2, <3>3, ByNewNone, NoLeafTyped, Zenon
  <2>7. tool.pc = "B" => GateB'
    <3> SUFFICES ASSUME tool.pc = "B" PROVE GateB'
      OBVIOUS
    <3>1. (\A r \in Replicas : gate.n = 1 \/ r \notin gate.todo => SignsNew(replica[r].gen) /\ NotShown(r))'
      BY <1>0, <2>1, <2>3 DEF ToolInv, GateB
    <3>2. (gate.n = 1 => \A e \in Edges : Stays(e) =>
             /\ edge[e].mint.old \/ ByNew(edge[e].mint.leaf)
             /\ edge[e].id \notin gate.todo => ByNew(edge[e].leaf) /\ ~edge[e].mint.old)'
      BY <2>2, <2>3, <2>4, <2>6
    <3> QED
      BY <3>1, <3>2 DEF GateB
  <2> QED
    BY <1>0, <2>1, <2>5, <2>7 DEF ToolInv
<1>11. CASE Probe /\ gate.n # 0
  <2>1. /\ tool.pc \in {"A", "B"} /\ gate.todo = {} /\ gate' = Quiet /\ tool' = GateOpen /\ edge' = edge
    BY <1>11 DEF Probe
  <2>2. gate.n = 1
    BY <1>11, <1>a DEF GateRecord
  <2>3. /\ tool'.pc = (IF tool.pc = "A" THEN "flip" ELSE "trim")
        /\ tool'.id = tool.id /\ tool'.bundle = tool.bundle
    BY <1>a, <2>1 DEF GateOpen, ToolRecord
  <2>4. /\ \A v : SignsNew(v)' <=> SignsNew(v)
        /\ \A l : ByNew(l)' <=> ByNew(l)
        /\ \A r : NotShown(r)' <=> NotShown(r)
    BY <1>n, <2>3
  <2>5. tool.pc = "A" => /\ \A r \in Replicas : Holds(replica[r].gen)
                         /\ \A k \in Cores : Holds(core[k])
    BY <2>1, <2>2 DEF ToolInv, GateA
  <2>6. tool.pc = "B" => /\ \A r \in Replicas : SignsNew(replica[r].gen) /\ NotShown(r)
                         /\ \A e \in Edges : Stays(e) => ByNew(edge[e].leaf) /\ ByNew(edge[e].mint.leaf)
    BY <2>1, <2>2 DEF ToolInv, GateB
  <2>7. tool.pc = "B" => /\ \A r \in Replicas : SignsNew(replica[r].gen)' /\ NotShown(r)'
                         /\ \A e \in Edges : Stays(e)' => ByNew(edge[e].leaf)' /\ ByNew(edge[e].mint.leaf)'
    BY <1>0, <1>s, <2>1, <2>4, <2>6
  <2> QED
    BY <1>0, <2>1, <2>3, <2>5, <2>7 DEF ToolInv
<1>12. CASE (\E i \in Ids : Blacklist(i)) \/ \E j \in Jobs : EnsureGet(j) \/ RotateGet(j)
  <2>1. UNCHANGED <<tool, gate, edge>>
    BY <1>12 DEF Blacklist, EnsureGet, RotateGet, fleet
  <2> QED
    BY <1>1, <2>1
<1> QED
  BY <1>2, <1>3, <1>5, <1>6, <1>7, <1>8, <1>9, <1>10, <1>11, <1>12 DEF ToolAction

LEMMA ToolStep ==
    ASSUME Types, GensOK, LogInv, JobInv, ToolInv, RegistryInv, [Next]_vars
    PROVE  ToolInv'
<1>1. CASE UNCHANGED vars
  BY <1>1 DEF vars, ToolInv, Overlapping, Secret, GateA, GateB, Holds, SignsNew, ByNew, NewCA, Signer, Quiet, Reporters,
              NotShown, Stays
<1> QED
  BY <1>1, StepCases, ToolWrite, FleetDrifts, ToolDrift, ToolActs

-----------------------------------------------------------------------------
(* The edges that are severed.                                             *)

\* A quiet gate has read no registry.
LEMMA QuietAuthz ==
    ASSUME gate = Quiet
    PROVE  AuthzRead
<1>1. gate.n = 0 /\ gate.todo = Reporters /\ gate.authz = {} /\ Replicas \subseteq Reporters
  BY QuietTyped DEF Reporters
<1> QED
  BY <1>1 DEF AuthzRead, Refused

\* A restart can only add to the tokens that a replica refuses.
LEMMA AuthzGrows ==
    ASSUME RegistryInv, Drift, NEW r \in Replicas
    PROVE  replica[r].authz \subseteq replica'[r].authz /\ replica'[r].authz \subseteq registry'
  BY DEF RegistryInv, Drift, Learns

\* So a token that is refused everywhere remains so.
LEMMA BlockedGrows ==
    ASSUME registry \subseteq registry', \A r \in Replicas : replica[r].authz \subseteq replica'[r].authz,
           NEW i, Blocked(i)
    PROVE  Blocked(i)'
  BY DEF Blocked

\* The registries that the replicas have read, while the fleet moves.
LEMMA RegistryDrift ==
    ASSUME Types, RegistryInv, Drift
    PROVE  RegistryInv'
<1>0. UNCHANGED <<registry, tool, done, gate>>
  BY DEF Drift
<1>1. \A r \in Replicas : replica[r].authz \subseteq replica'[r].authz /\ replica'[r].authz \subseteq registry'
  BY AuthzGrows
<1>2. \A i : Blocked(i) => Blocked(i)'
  BY <1>0, <1>1, BlockedGrows
<1>3. AuthzRead => AuthzRead'
  <2>1. Refused' <=> Refused
    BY <1>0 DEF Refused
  <2> QED
    BY <1>0, <1>1, <2>1 DEF AuthzRead
<1> QED
  BY <1>0, <1>1, <1>2, <1>3 DEF RegistryInv

\* And while the Secret is written: the flip and the trim are for an edge
\* whose token is refused everywhere.
LEMMA RegistryWrite ==
    ASSUME Types, LogInv, ToolInv, RegistryInv, NEW s, WriteStep(s)
    PROVE  RegistryInv'
<1>0. UNCHANGED <<registry, gate, replica>> /\ \A i : Blocked(i)' <=> Blocked(i)
  BY DEF WriteStep, fleet, Blocked
<1>1. /\ \A r \in Replicas : replica'[r].authz \subseteq registry'
      /\ tool \in ToolRecord /\ done \in DoneRecord
  BY <1>0 DEF RegistryInv, Types
<1>2. gate = Quiet => AuthzRead'
  <2>1. gate = Quiet => (gate = Quiet)'
    BY <1>0 DEF Quiet, Reporters
  <2>2. ASSUME (gate = Quiet)' PROVE AuthzRead'
    BY <2>2, QuietAuthz, PTL
  <2> QED
    BY <2>1, <2>2
<1>3. CASE tool' = tool /\ done' = done
  <2>1. AuthzRead' <=> AuthzRead
    BY <1>0, <1>3 DEF AuthzRead, Refused
  <2> QED
    BY <1>0, <1>1, <1>3, <2>1 DEF RegistryInv
<1>4. CASE tool.pc = "rotate" /\ tool' = Widened(s.crt) /\ done' = done
  <2>1. tool'.pc = "A" /\ tool'.id = tool.id /\ gate = Quiet
    BY <1>1, <1>4 DEF Widened, ToolRecord, ToolInv
  <2> QED
    BY <1>0, <1>1, <1>2, <1>4, <2>1 DEF RegistryInv
<1>5. CASE DidFlip(s)
  <2>1. tool'.pc = "B" /\ tool'.id = tool.id /\ gate = Quiet /\ tool.pc = "flip"
    BY <1>1, <1>5 DEF DidFlip, ToolRecord, ToolInv
  <2>2. done'.severed = done.severed /\ done'.flips = done.flips \cup {<<tool.id, NewCA>>}
    BY <1>1, <1>5 DEF DidFlip, FlipNoted, DoneRecord
  <2>3. Blocked(tool.id) /\ tool.id \in registry
    BY <2>1 DEF RegistryInv
  <2>4. \A p \in done'.flips : Blocked(p[1])
    BY <2>2, <2>3 DEF RegistryInv
  <2> QED
    BY <1>0, <1>1, <1>2, <2>1, <2>2, <2>3, <2>4 DEF RegistryInv
<1>6. CASE DidTrim(s)
  <2>1. tool'.pc = "off" /\ tool.pc = "trim"
    BY <1>6 DEF DidTrim, Off
  <2>2. done'.flips = done.flips /\ done'.severed = done.severed \cup {tool.id}
    BY <1>1, <1>6 DEF DidTrim, Reported, DoneRecord
  <2>3. Blocked(tool.id)
    BY <2>1 DEF RegistryInv
  <2> QED
    BY <1>0, <1>1, <2>1, <2>2, <2>3 DEF RegistryInv
<1>7. \/ tool' = tool /\ done' = done
      \/ tool.pc = "rotate" /\ tool' = Widened(s.crt) /\ done' = done
      \/ DidFlip(s) \/ DidTrim(s)
  BY WriteCases DEF DidEnsure, DidRotate, DidPrune, DidTouch
<1> QED
  BY <1>3, <1>4, <1>5, <1>6, <1>7

\* Only a write reports an edge: the trim of a run has not been done by
\* another, as the run holds the overlap.
LEMMA ToolActionDone ==
    ASSUME Types, LogInv, ToolInv, log' = log, ToolAction
    PROVE  done' = done
<1>1. ASSUME NEW s, CAS(s) PROVE FALSE
  <2>1. log' = Append(log, s) /\ Len(log) \in Nat /\ Len(Append(log, s)) = Len(log) + 1
    BY <1>1 DEF CAS, Types
  <2> QED
    BY <2>1
<1>2. CASE ToolTrim
  <2>1. tool.pc = "trim" /\ done' = IF TrimDone(Secret, NewCA) THEN Reported ELSE done
    BY <1>1, <1>2 DEF ToolTrim, ToolGet, ToolUpdate
  <2>2. Overlapping(Secret)
    BY <2>1 DEF ToolInv
  <2> QED
    BY <2>1, <2>2 DEF Overlapping, TrimDone
<1>3. CASE ToolFlip
  BY <1>1, <1>3 DEF ToolFlip, ToolUpdate
<1> QED
  BY <1>2, <1>3 DEF ToolAction, EnsureGet, RotateGet, Blacklist, ToolStart, ToolExits, ToolRotate,
                    Scrape, ReadFails, Probe

\* The two reads of a gate: the probe of the first finds a replica that
\* refuses the token, the second finds that all agree with it.
LEMMA RegistryTool ==
    ASSUME Types, GensOK, LogInv, ToolInv, RegistryInv, log' = log, ToolAction
    PROVE  RegistryInv'
<1>0. /\ replica' = replica /\ done' = done /\ registry \subseteq registry' /\ Quiet' = Quiet
      /\ tool \in ToolRecord /\ gate \in GateRecord
  BY ToolActionFleet, ToolActionDone, ToolActionRegistry DEF Quiet, Reporters, Types
<1>1. \A i : Blocked(i) => Blocked(i)'
  BY <1>0, BlockedGrows
<1>b. gate' = Quiet => AuthzRead'
  <2>1. ASSUME (gate = Quiet)' PROVE AuthzRead'
    BY <2>1, QuietAuthz, PTL
  <2> QED
    BY <1>0, <2>1
<1> DEFINE Kept == /\ tool'.pc # "off" => tool'.id \in registry'
                   /\ tool'.pc \in {"A", "B"} => AuthzRead'
                   /\ tool'.pc \in {"flip", "B", "trim"} => Blocked(tool.id)'
<1> SUFFICES Kept
  <2>1. /\ \A r \in Replicas : replica'[r].authz \subseteq registry'
        /\ \A i \in done'.severed : Blocked(i)'
        /\ \A p \in done'.flips : Blocked(p[1])'
    BY <1>0, <1>1 DEF RegistryInv
  <2> QED
    BY <2>1 DEF RegistryInv
<1>p. PICK i : i = tool.id
  OBVIOUS
<1>2. /\ tool.pc # "off" => i \in registry'
      /\ tool.pc \in {"flip", "B", "trim"} => Blocked(i)'
  BY <1>0, <1>1, <1>p DEF RegistryInv
<1> HIDE DEF Kept
<1>3. ASSUME UNCHANGED <<tool, gate>> PROVE Kept
  <2>1. AuthzRead' <=> AuthzRead
    BY <1>0, <1>3 DEF AuthzRead, Refused
  <2> QED
    BY <1>2, <1>3, <1>p, <2>1 DEF RegistryInv, Kept
<1>4. ASSUME NEW k \in Ids, ToolStart(k) PROVE Kept
  <2>1. tool'.pc = "rotate" /\ tool'.id = k /\ k \in registry'
    BY <1>0, <1>4 DEF ToolStart
  <2> QED
    BY <2>1 DEF Kept
<1>5. ASSUME ToolExits PROVE Kept
  <2>1. tool'.pc = "off"
    BY <1>5 DEF ToolExits, Off
  <2> QED
    BY <2>1 DEF Kept
<1>c. ASSUME NEW s, CAS(s) PROVE FALSE
  <2>1. log' = Append(log, s) /\ Len(log) \in Nat /\ Len(Append(log, s)) = Len(log) + 1
    BY <1>c DEF CAS, Types
  <2> QED
    BY <2>1
<1>6. ASSUME ToolRotate PROVE Kept
  <2>1. tool.pc = "rotate" /\ gate' = gate /\ (tool' = tool \/ tool' = Widened(Secret.crt))
    BY <1>6, <1>c DEF ToolRotate, ToolGet, ToolUpdate, Widened
  <2>2. gate' = Quiet
    BY <2>1 DEF ToolInv
  <2>3. tool'.pc \in {"rotate", "A"} /\ tool'.id = tool.id
    BY <1>0, <2>1 DEF Widened, ToolRecord
  <2> QED
    BY <1>2, <1>b, <1>p, <2>1, <2>2, <2>3 DEF Kept
<1>7. ASSUME ToolFlip \/ ToolTrim PROVE Kept
  <2>1. /\ tool.pc \in {"flip", "trim"} /\ gate' = gate
        /\ tool' = tool \/ tool' = [tool EXCEPT !.pc = "B"] \/ tool' = Off
    BY <1>7, <1>c DEF ToolFlip, ToolTrim, ToolGet, ToolUpdate
  <2>2. gate' = Quiet /\ Blocked(i)'
    BY <1>2, <2>1 DEF ToolInv
  <2>3. tool'.pc = "off" \/ tool'.id = i
    BY <1>0, <1>p, <2>1 DEF Off, ToolRecord
  <2> QED
    BY <1>2, <1>b, <2>1, <2>2, <2>3 DEF Kept
<1>8. ASSUME ReadFails PROVE Kept
  <2>1. gate' = Quiet /\ tool' = tool
    BY <1>8 DEF ReadFails
  <2> QED
    BY <1>2, <1>b, <1>p, <2>1 DEF Kept
<1>9. ASSUME NEW x \in Reporters, Scrape(x) PROVE Kept
  <2>1. tool.pc \in {"A", "B"} /\ x \in gate.todo /\ tool' = tool /\ AuthzRead
    BY <1>9 DEF Scrape, RegistryInv
  <2>2. ASSUME x \in Replicas, ReplicaConverged(x),
               gate' = [gate EXCEPT !.todo = @ \ {x}, !.gens = {replica[x].gen}, !.authz = {replica[x].authz}]
        PROVE  AuthzRead'
    <3>1. gate'.n = gate.n /\ gate'.todo = gate.todo \ {x} /\ gate'.authz = {replica[x].authz}
      BY <1>0, <2>2 DEF GateRecord
    <3>2. gate.authz \subseteq {replica[x].authz} /\ x \in Replicas
      BY <2>2 DEF ReplicaConverged, AuthzAgrees
    <3>r. Refused' <=> tool.id \in replica[x].authz
      BY <2>1, <3>1 DEF Refused
    <3>3. ASSUME tool.id \in replica[x].authz
          PROVE  /\ \A a \in gate'.authz : tool.id \in a
                 /\ \A r \in Replicas \ gate'.todo : tool.id \in replica[r].authz
      <4>1. gate.authz = {} \/ Refused
        BY <3>2, <3>3 DEF Refused
      <4>2. \A r \in Replicas \ gate.todo : tool.id \in replica[r].authz
        BY <2>1, <4>1 DEF AuthzRead
      <4> QED
        BY <3>1, <3>3, <4>2
    <3>4. ASSUME gate'.n = 1
          PROVE  \E r \in Replicas : tool.id \in replica[r].authz /\ (r \notin gate'.todo => Refused')
      <4>1. PICK r \in Replicas : tool.id \in replica[r].authz /\ (r \notin gate.todo => Refused)
        BY <2>1, <3>1, <3>4 DEF AuthzRead
      <4>2. Refused => tool.id \in replica[x].authz
        BY <3>2 DEF Refused
      <4>3. r \notin gate'.todo => Refused'
        BY <3>1, <3>r, <4>1, <4>2
      <4> QED
        BY <4>1, <4>3
    <3>5. gate'.authz # {}
      BY <3>1
    <3> QED
      BY <1>0, <2>1, <3>r, <3>3, <3>4, <3>5 DEF AuthzRead
  <2>3. ASSUME x \in Cores \/ x \in Ids, gate' = [gate EXCEPT !.todo = @ \ {x}]
        PROVE  AuthzRead'
    <3>1. gate'.n = gate.n /\ gate'.todo = gate.todo \ {x} /\ gate'.authz = gate.authz
      BY <1>0, <2>3 DEF GateRecord
    <3>2. \A r \in Replicas : r # x
      BY <2>3, NamesAssumption
    <3>3. Refused' <=> Refused
      BY <2>1, <3>1 DEF Refused
    <3> QED
      BY <1>0, <2>1, <3>1, <3>2, <3>3 DEF AuthzRead
  <2>4. AuthzRead'
    BY <1>9, <2>2, <2>3 DEF Scrape
  <2> QED
    BY <1>2, <1>p, <2>1, <2>4 DEF Kept
<1>10. ASSUME Probe PROVE Kept
  <2>1. /\ tool.pc \in {"A", "B"} /\ gate.todo = {} /\ AuthzRead
        /\ \E r \in Replicas : tool.id \in replica[r].authz
    BY <1>10 DEF Probe, RegistryInv
  <2>2. CASE gate.n = 0
    <3>1. tool' = tool /\ gate' = [Quiet EXCEPT !.n = 1]
      BY <1>10, <2>2 DEF Probe
    <3>2. gate'.n = 1 /\ gate'.todo = Reporters /\ gate'.authz = {} /\ Replicas \subseteq Reporters
      BY <3>1, QuietTyped DEF Reporters
    <3>3. AuthzRead'
      BY <1>0, <2>1, <3>1, <3>2 DEF AuthzRead, Refused
    <3> QED
      BY <1>2, <1>p, <2>1, <3>1, <3>3 DEF Kept
  <2>3. CASE gate.n # 0
    <3>1. gate.n = 1 /\ tool' = GateOpen
      BY <1>0, <1>10, <2>3 DEF Probe, GateRecord
    <3>2. tool'.pc \in {"flip", "trim"} /\ tool'.id = i
      BY <1>0, <1>p, <2>1, <3>1 DEF GateOpen, ToolRecord
    <3>3. \A r \in Replicas : tool.id \in replica[r].authz
      BY <2>1, <3>1 DEF AuthzRead
    <3>4. Blocked(i)
      BY <1>p, <2>1, <3>3 DEF Blocked, RegistryInv
    <3> QED
      BY <1>1, <1>2, <2>1, <3>2, <3>4 DEF Kept
  <2> QED
    BY <2>2, <2>3
<1>11. ASSUME (\E k \in Ids : Blacklist(k)) \/ \E j \in Jobs : EnsureGet(j) \/ RotateGet(j) PROVE Kept
  <2>1. UNCHANGED <<tool, gate>>
    BY <1>11 DEF Blacklist, EnsureGet, RotateGet
  <2> QED
    BY <1>3, <2>1
<1> QED
  BY <1>4, <1>5, <1>6, <1>7, <1>8, <1>9, <1>10, <1>11 DEF ToolAction

\* Whatever the fleet signs, no ledger notes a key in store, nor an edge whose
\* token is refused everywhere.
LEMMA LedgerDrift ==
    ASSUME Types, GensOK, LogInv, RevokedInv, Drift
    PROVE  LedgerInv'
<1>0. UNCHANGED <<log, done>> /\ Secret' = Secret /\ Generated' = Generated
      /\ CertsOf(Len(log))' = CertsOf(Len(log))
  BY DEF Drift, Secret, Generated, CertsOf
<1>1. \A r \in Replicas : \A p \in replica'[r].issued : p \in replica[r].issued \/ Notes(r, p)
  BY DEF Drift, Learns
<1>2. \A p \in Noted' : p \in Noted \/ \E r \in Replicas : Notes(r, p)
  <2>1. lost' \subseteq Noted /\ \A r \in Replicas : replica[r].issued \subseteq Noted
    BY DEF Drift, Noted
  <2>2. \A p \in Noted' : p \in lost' \/ \E r \in Replicas : p \in replica'[r].issued
    BY DEF Noted
  <2> QED
    BY <1>1, <2>1, <2>2
<1>3. ASSUME NEW r \in Replicas, NEW p, Notes(r, p)
      PROVE  /\ p[2] \in Generated /\ ~Blocked(p[1])
             /\ Len(Secret.crt) = 2 /\ Secret.active = "old" => p[2] # Secret.crt[2]
  <2>1. replica[r].gen # 0 /\ p[2] = Signer(replica[r].gen) /\ p[1] \notin replica[r].authz
    BY <1>3 DEF Notes
  <2>2. replica[r].gen \in Versions /\ Filled(replica[r].gen)
        /\ Signer(replica[r].gen) \in CertsOf(replica[r].gen)
    BY <2>1, ReplicaGen
  <2>3. p[2] \in Generated
    BY <2>1, <2>2, LogTypes DEF Generated
  <2>4. Len(Secret.crt) = 2 /\ Secret.active = "old" => p[2] # Secret.crt[2]
    BY <2>1, <2>2 DEF LogInv, NewUnused
  <2> QED
    BY <2>1, <2>3, <2>4 DEF Blocked
<1>4. \A p \in Noted' : p[2] \in Generated'
  BY <1>0, <1>2, <1>3 DEF RevokedInv, LedgerInv
<1>5. ASSUME Len(Secret.crt) = 2, Secret.active = "old", NEW i \in Ids PROVE <<i, Secret.crt[2]>> \notin Noted'
  BY <1>2, <1>3, <1>5 DEF RevokedInv, LedgerInv
<1>6. done.flips \cap Noted' = {}
  <2>1. \A p \in done.flips : Blocked(p[1]) /\ p \notin Noted
    BY DEF RevokedInv, RegistryInv, LedgerInv
  <2> QED
    BY <1>2, <1>3, <2>1
<1>7. ASSUME NEW i \in done.severed, NEW c \in CertsOf(Len(log)), NEW r \in Replicas
      PROVE  <<i, c>> \notin replica'[r].issued
  <2>1. Blocked(i) /\ <<i, c>> \notin replica[r].issued
    BY <1>7 DEF RevokedInv, RegistryInv, LedgerInv
  <2>2. ~Notes(r, <<i, c>>)
    BY <1>3, <2>1
  <2> QED
    BY <1>1, <2>1, <2>2
<1> QED
  BY <1>0, <1>4, <1>5, <1>6, <1>7 DEF LedgerInv

\* A CA that is generated has signed for nobody; the one that the flip makes
\* active has no entry; and after the trim the bundle is the CA for which gate
\* B found no entry of the run's edge.
LEMMA LedgerWrite ==
    ASSUME Types, GensOK, LogInv, ToolInv, RevokedInv, NEW s, WriteStep(s)
    PROVE  LedgerInv'
<1>0. /\ Secret' = s /\ UNCHANGED <<replica, lost>> /\ s \in SecretTypes
      /\ CertsOf(Len(log))' = Certs(s) /\ Noted' = Noted
  BY OldVersions DEF WriteStep, fleet, Noted
<1>a. Generated \subseteq Generated'
  <2>1. DOMAIN log \subseteq DOMAIN log' /\ \A v \in DOMAIN log : CertsOf(v)' = CertsOf(v)
    <3>1. s \in SecretTypes /\ CAS(s)
      BY <1>0 DEF WriteStep
    <3>2. log' \in Seq(SecretTypes) /\ Versions \subseteq Versions'
      BY <3>1, LogGrows
    <3>3. DOMAIN log' = Versions' /\ DOMAIN log = Versions
      BY <3>2, LogTypes DEF Versions
    <3> QED
      BY <3>2, <3>3, OldVersions
  <2> QED
    BY <2>1 DEF Generated
<1>b. /\ \A p \in Noted : p[2] \in Generated
      /\ Len(Secret.crt) = 2 /\ Secret.active = "old" => \A i \in Ids : <<i, Secret.crt[2]>> \notin Noted
      /\ done.flips \cap Noted = {}
      /\ \A i \in done.severed, c \in CertsOf(Len(log)), r \in Replicas : <<i, c>> \notin replica[r].issued
  BY DEF RevokedInv, LedgerInv
<1>c. done \in DoneRecord /\ \A r \in Replicas : replica[r].issued \subseteq Noted
  BY DEF Types, Noted
<1>d. ASSUME NEW c, c \notin Generated, NEW i PROVE <<i, c>> \notin Noted
  BY <1>b, <1>d
<1>e. CertsOf(Len(log)) = Certs(Secret) /\ Secret \in SecretTypes
  BY SecretVersion
<1> DEFINE Stored == Len(s.crt) = 2 /\ s.active = "old" => \A i \in Ids : <<i, s.crt[2]>> \notin Noted
           Flips == done'.flips \cap Noted = {}
           Out == \A i \in done'.severed, c \in Certs(s), r \in Replicas : <<i, c>> \notin replica[r].issued
<1>1. ASSUME Stored, Flips, Out PROVE LedgerInv'
  <2>1. \A p \in Noted' : p[2] \in Generated'
    BY <1>0, <1>a, <1>b
  <2> QED
    BY <1>0, <1>1, <2>1 DEF LedgerInv
<1>2. CASE DidEnsure(s)
  <2>1. Len(s.crt) = 1 /\ s.crt[1] \notin Generated /\ done' = done
    BY <1>2 DEF DidEnsure
  <2>2. Certs(s) = {s.crt[1]}
    BY <1>0, <2>1, CertsCases
  <2>3. Out
    BY <1>c, <1>d, <2>1, <2>2
  <2> QED
    BY <1>1, <1>b, <2>1, <2>3
<1>3. CASE DidRotate(s)
  <2>1. /\ Len(s.crt) = 2 /\ s.crt[2] \notin Generated /\ done' = done
        /\ s.crt[1] = Secret.crt[1] /\ Len(Secret.crt) = 1
    BY <1>3 DEF DidRotate
  <2>2. Certs(s) = {s.crt[1], s.crt[2]} /\ s.crt[1] \in CertsOf(Len(log))
    BY <1>0, <1>e, <2>1, CertsCases
  <2>3. Out
    BY <1>b, <1>c, <1>d, <2>1, <2>2
  <2> QED
    BY <1>1, <1>b, <1>d, <2>1, <2>3
<1>4. CASE DidFlip(s)
  <2>1. /\ s.crt = Secret.crt /\ s.active = "new" /\ done' = FlipNoted /\ tool.pc = "flip"
        /\ Len(Secret.crt) = 2 /\ Secret.active = "old" /\ Secret.crt[2] = NewCA
    BY <1>4 DEF DidFlip
  <2>2. done'.severed = done.severed /\ done'.flips = done.flips \cup {<<tool.id, NewCA>>}
    BY <1>c, <2>1 DEF FlipNoted, DoneRecord
  <2>3. tool.id \in Ids
    BY <2>1 DEF RevokedInv, RegistryInv, Types
  <2>4. Flips
    BY <1>b, <2>1, <2>2, <2>3
  <2>5. Certs(s) = CertsOf(Len(log))
    BY <1>e, <2>1 DEF Certs
  <2>6. Out
    BY <1>b, <2>2, <2>5
  <2> QED
    BY <1>1, <2>1, <2>4, <2>6
<1>5. CASE DidTrim(s)
  <2>1. /\ Len(s.crt) = 1 /\ s.crt[1] = NewCA /\ done' = Reported /\ tool.pc = "trim"
        /\ Len(Secret.crt) = 2 /\ Secret.crt[2] = NewCA
    BY <1>5 DEF DidTrim
  <2>2. done'.flips = done.flips /\ done'.severed = done.severed \cup {tool.id}
    BY <1>c, <2>1 DEF Reported, DoneRecord
  <2>3. Certs(s) = {NewCA} /\ NewCA \in CertsOf(Len(log))
    BY <1>0, <1>e, <2>1, CertsCases
  <2>4. \A r \in Replicas : <<tool.id, NewCA>> \notin replica[r].issued
    BY <2>1 DEF ToolInv, NotShown
  <2>5. Out
    BY <1>b, <2>2, <2>3, <2>4
  <2> QED
    BY <1>1, <1>b, <2>1, <2>2, <2>5
<1>6. CASE DidPrune(s)
  <2>1. s.crt = <<>> /\ done' = done
    BY <1>6 DEF DidPrune
  <2>2. Certs(s) = {} /\ Len(s.crt) # 2
    BY <1>0, <2>1, CertsCases
  <2> QED
    BY <1>1, <1>b, <2>1, <2>2
<1>7. CASE DidTouch(s)
  <2>1. s = Secret /\ done' = done
    BY <1>7 DEF DidTouch
  <2> QED
    BY <1>1, <1>b, <1>e, <2>1
<1> QED
  BY <1>2, <1>3, <1>4, <1>5, <1>6, <1>7, WriteCases

LEMMA RevokedStep ==
    ASSUME Types, GensOK, LogInv, JobInv, ToolInv, RevokedInv, [Next]_vars
    PROVE  RevokedInv'
<1>0. RegistryInv /\ LedgerInv
  BY DEF RevokedInv
<1>1. CASE FleetAction
  BY <1>0, <1>1, FleetDrifts, RegistryDrift, LedgerDrift DEF RevokedInv
<1>2. ASSUME NEW s, WriteStep(s) PROVE RevokedInv'
  BY <1>0, <1>2, RegistryWrite, LedgerWrite DEF RevokedInv
<1>3. ASSUME log' = log, UNCHANGED <<replica, lost, done>> PROVE LedgerInv'
  <2>1. Secret' = Secret /\ Generated' = Generated /\ CertsOf(Len(log))' = CertsOf(Len(log)) /\ Noted' = Noted
    BY <1>3 DEF Secret, Generated, CertsOf, Noted
  <2> QED
    BY <1>0, <1>3, <2>1 DEF LedgerInv
<1>4. CASE log' = log /\ ToolAction
  BY <1>0, <1>3, <1>4, ToolActionFleet, ToolActionDone, RegistryTool DEF RevokedInv
<1>5. CASE UNCHANGED vars
  BY <1>0, <1>3, <1>5 DEF vars, RevokedInv, RegistryInv, Blocked, AuthzRead, Refused
<1> QED
  BY <1>1, <1>2, <1>4, <1>5, StepCases

-----------------------------------------------------------------------------
(* Bootstrap.                                                              *)

LEMMA AdoptedStep ==
    ASSUME Types, GensOK, LogInv, JobInv, FleetInv, AdoptedInv, [Next]_vars
    PROVE  AdoptedInv'
<1>1. ASSUME NEW s, WriteStep(s) PROVE AdoptedInv'
  <2>0. Secret' = s
    BY <1>1, OldVersions
  <2>1. CASE DidEnsure(s)
    <3>1. adopted' = {s.crt[1]} /\ s.crt[1] \in CAs
      BY <2>1 DEF DidEnsure, FleetInv, Unborn
    <3> QED
      BY <2>0, <3>1 DEF AdoptedInv
  <2>2. CASE DidRotate(s) \/ DidFlip(s) \/ DidTrim(s)
    <3>1. s.phase # "none"
      BY <2>2 DEF DidRotate, DidFlip, DidTrim
    <3> QED
      BY <2>0, <3>1 DEF AdoptedInv
  <2>3. CASE DidPrune(s)
    <3>1. s.crt = <<>> /\ s.phase = Secret.phase /\ Secret.guard /\ adopted' = adopted
      BY <2>3 DEF DidPrune
    <3> QED
      BY <2>0, <3>1 DEF AdoptedInv
  <2>4. CASE DidTouch(s)
    BY <2>0, <2>4 DEF DidTouch, AdoptedInv
  <2> QED
    BY <1>1, <2>1, <2>2, <2>3, <2>4, WriteCases
<1>2. ASSUME log' = log, adopted' = adopted \/ (Secret.crt # <<>> /\ adopted' = adopted \cup {Secret.crt[1]})
      PROVE  AdoptedInv'
  <2>1. Secret' = Secret
    BY <1>2 DEF Secret
  <2>2. ASSUME NEW c \in CAs, adopted \subseteq {c}, Secret.crt # <<>> => Secret.crt[1] = c
        PROVE  adopted' \subseteq {c}
    BY <1>2, <2>2
  <2> QED
    BY <2>1, <2>2 DEF AdoptedInv
<1>3. CASE FleetAction
  BY <1>2, <1>3, FleetDrifts DEF Drift
<1>4. CASE log' = log /\ ToolAction
  BY <1>2, <1>4, ToolActionAdopts
<1>5. CASE UNCHANGED vars
  BY <1>2, <1>5 DEF vars
<1> QED
  BY <1>1, <1>3, <1>4, <1>5, StepCases

-----------------------------------------------------------------------------
(* The inductive invariant, and what follows from it.                      *)

LEMMA LogStep ==
    ASSUME Types, LogInv, JobInv, [Next]_vars
    PROVE  LogInv'
<1>1. CASE log' = log
  BY <1>1 DEF LogInv, Versions, SecretOK, Overlapping, SignerRuns, OverlapRuns, NewUnused, Secret, Filled, Signer
<1>2. CASE \E s : WriteStep(s)
  BY <1>2, WriteStepWrites, LogInvWrite
<1> QED
  BY <1>1, <1>2, WritesOnly DEF vars

LEMMA InitInv == Init => IInv
<1> SUFFICES ASSUME Init PROVE IInv
  OBVIOUS
<1>0. /\ Virgin \in SecretTypes /\ Virgin.crt = <<>> /\ Virgin.phase = "none" /\ Virgin.active = "old"
      /\ Virgin.guard = FALSE /\ Len(Virgin.crt) = 0
  <2>1. <<>> \in Seq(CAs) /\ Len(<<>>) = 0
    OBVIOUS
  <2> QED
    BY <2>1 DEF Virgin, SecretTypes
<1>1. log \in Seq(SecretTypes) /\ Len(log) = 1 /\ log[1] = Virgin
  BY <1>0 DEF Init
<1>2. Versions = {1} /\ Secret = Virgin /\ Secret = log[1]
  BY <1>1 DEF Versions, Secret
<1>3. \A v \in Versions : ~Filled(v)
  BY <1>0, <1>1, <1>2 DEF Filled
<1>4. /\ tool = Off /\ gate = Quiet /\ lost = {} /\ adopted = {} /\ done = [flips |-> {}, severed |-> {}]
      /\ registry = {} /\ job = [w \in Jobs \cup {"tool"} |-> "none"] /\ core = [k \in Cores |-> 0]
      /\ replica = [r \in Replicas |-> [gen |-> 0, authz |-> {}, issued |-> {}]]
      /\ edge \in [Edges -> [id : Ids, leaf : {NoLeaf}, mint : {NoMint}]]
  BY DEF Init
<1> HIDE DEF Init
<1>5. /\ replica \in [Replicas -> ReplicaTypes] /\ \A r \in Replicas : replica[r].gen = 0
      /\ \A r \in Replicas : replica[r].authz = {} /\ replica[r].issued = {}
  BY <1>4 DEF ReplicaTypes
<1>6. edge \in [Edges -> EdgeTypes] /\ \A e \in Edges : edge[e].leaf = NoLeaf /\ edge[e].mint.leaf = NoLeaf
  <2>1. \A e \in Edges : edge[e] \in [id : Ids, leaf : {NoLeaf}, mint : {NoMint}]
    BY <1>4
  <2>2. NoLeaf \in Leaves /\ NoMint \in MintTypes /\ NoMint.leaf = NoLeaf
    BY NoLeafTyped
  <2>3. \A e \in Edges : edge[e] \in EdgeTypes
    BY <2>1, <2>2, Zenon DEF EdgeTypes
  <2>4. \A e \in Edges : edge[e].leaf = NoLeaf /\ edge[e].mint = NoMint
    BY <2>1
  <2> QED
    BY <1>4, <2>2, <2>3, <2>4
<1>7. core \in [Cores -> Nat] /\ \A k \in Cores : core[k] = 0
  BY <1>4
<1>8. lost \subseteq Pairs /\ done \in DoneRecord /\ done.flips = {} /\ done.severed = {}
  BY <1>4 DEF DoneRecord
<1>9. job \in [Jobs \cup {"tool"} -> {"none", "ensure", "rotate", "flip", "trim"}]
      /\ \A w \in Jobs \cup {"tool"} : job[w] = "none"
  BY <1>4
<1>10. tool \in ToolRecord
       /\ tool.pc = "off" /\ tool.bundle = <<>>
  <2>1. <<>> \in Seq(CAs)
    OBVIOUS
  <2> QED
    BY <1>4, <2>1 DEF Off, ToolRecord
<1>11. Types
  <2>a. Len(log) > 0
    BY <1>1
  <2>b. adopted \subseteq CAs /\ registry \subseteq Ids
    BY <1>4, Zenon
  <2>1. Len(log) > 0 /\ adopted \subseteq CAs /\ registry \subseteq Ids
    BY <2>a, <2>b
  <2>2. gate \in GateRecord
    BY <1>4, QuietTyped, Zenon
  <2> QED
    BY <1>1, <1>5, <1>6, <1>7, <1>8, <1>9, <1>10, <2>1, <2>2, Zenon DEF Types
<1>12. GensOK
  BY <1>4, <1>5, <1>7, QuietTyped DEF GensOK
<1>13. LogInv
  <2>1. \A v \in Versions : log[v] = Virgin
    BY <1>1, <1>2
  <2>2. SecretOK(Virgin)
    BY <1>0 DEF SecretOK, Overlapping
  <2>3. SignerRuns /\ OverlapRuns /\ NewUnused
    BY <1>0, <1>2 DEF SignerRuns, OverlapRuns, NewUnused
  <2> QED
    BY <2>1, <2>2, <2>3 DEF LogInv
<1>14. JobInv
  BY <1>9 DEF JobInv
<1>15. FleetInv
  BY <1>0, <1>2, <1>3, <1>4, <1>5, <1>6, <1>7 DEF FleetInv, Unborn
<1>16. ToolInv
  BY <1>4, <1>10 DEF ToolInv
<1>17. RevokedInv
  <2>1. RegistryInv
    BY <1>4, <1>5, <1>8, <1>10 DEF RegistryInv
  <2>2. Noted = {}
    BY <1>4, <1>5 DEF Noted
  <2>3. LedgerInv
    BY <1>5, <1>8, <2>2 DEF LedgerInv
  <2> QED
    BY <2>1, <2>3 DEF RevokedInv
<1>18. AdoptedInv
  BY <1>0, <1>2 DEF AdoptedInv
<1> QED
  BY <1>11, <1>12, <1>13, <1>14, <1>15, <1>16, <1>17, <1>18 DEF IInv

LEMMA NextInv == IInv /\ [Next]_vars => IInv'
<1>1. IInv => RegistryInv
  BY DEF IInv, RevokedInv
<1> QED
  BY <1>1, TypesStep, LogStep, JobStep, FleetStep, ToolStep, RevokedStep, AdoptedStep DEF IInv

LEMMA Invariant == Spec => []IInv
  BY InitInv, NextInv, PTL DEF Spec

\* The state of the Secret, of its writers, of the fleet and of the tool has
\* the types the code gives it; in particular the Secret never has a third CA.
THEOREM TypeCorrect == Spec => []TypeOK
<1>1. IInv => TypeOK
  <2> SUFFICES ASSUME IInv PROVE TypeOK
    OBVIOUS
  <2> USE DEF IInv
  <2>1. Len(log) \in Nat /\ DOMAIN log = Versions /\ \A v \in Versions : log[v] \in SecretTypes
    BY LogTypes
  <2>2. ASSUME NEW v \in DOMAIN log
        PROVE  /\ log[v].crt \in UNION {[1 .. n -> CAs] : n \in 0 .. 2}
               /\ log[v].phase \in {"none", "overlap", "trimmed"} /\ log[v].active \in {"old", "new"}
               /\ {log[v].staged, log[v].guard} \subseteq BOOLEAN
    <3>1. log[v] \in SecretTypes /\ SecretOK(log[v])
      BY <2>1, <2>2 DEF LogInv
    <3>a. log[v].crt \in Seq(CAs) /\ Len(log[v].crt) \in Nat
      BY <3>1, CertsCases
    <3>b. Len(log[v].crt) <= 2
      BY <3>1 DEF SecretOK
    <3>2. log[v].crt \in Seq(CAs) /\ Len(log[v].crt) \in 0 .. 2
      <4>1. \A n \in Nat : n <= 2 => n \in 0 .. 2
        OBVIOUS
      <4> QED
        BY <3>a, <3>b, <4>1, Zenon
    <3>3. log[v].crt \in [1 .. Len(log[v].crt) -> CAs]
      BY <3>2
    <3>4. log[v].phase \in {"none", "overlap", "trimmed"} /\ log[v].active \in {"old", "new"}
      BY <3>1 DEF SecretTypes
    <3>5. {log[v].staged, log[v].guard} \subseteq BOOLEAN
      BY <3>1, Zenon DEF SecretTypes
    <3> QED
      BY <3>2, <3>3, <3>4, <3>5
  <2>3. \A r \in Replicas : /\ replica[r].gen \in 0 .. Len(log)
                            /\ replica[r].authz \subseteq Ids /\ replica[r].issued \subseteq Ids \X CAs
    BY <2>1 DEF Types, ReplicaTypes, GensOK, Versions, Pairs
  <2>4. core \in [Cores -> 0 .. Len(log)]
    BY <2>1 DEF Types, GensOK, Versions
  <2>5. \A e \in Edges : /\ edge[e].id \in Ids /\ edge[e].leaf \in Leaves
                         /\ edge[e].mint.leaf \in Leaves /\ edge[e].mint.old \in BOOLEAN
    BY DEF Types, EdgeTypes, MintTypes
  <2>6. tool.pc \in {"off", "rotate", "A", "flip", "B", "trim"} /\ tool.bundle \in {<<>>} \cup (CAs \X CAs)
    <3>1. tool.pc \in {"off", "rotate", "A", "flip", "B", "trim"} /\ tool.bundle \in Seq(CAs)
      BY DEF Types, ToolRecord
    <3>2. CASE tool.pc \in {"off", "rotate"}
      BY <3>1, <3>2 DEF ToolInv
    <3>3. CASE tool.pc \notin {"off", "rotate"}
      <4>1. tool.bundle \in Seq(CAs) /\ Len(tool.bundle) = 2
        BY <3>1, <3>3, ToolBundle
      <4>2. tool.bundle = <<tool.bundle[1], tool.bundle[2]>> /\ tool.bundle[1] \in CAs /\ tool.bundle[2] \in CAs
        BY <4>1
      <4> QED
        BY <3>1, <4>2
    <3> QED
      BY <3>2, <3>3
  <2>7. /\ gate.n \in 0 .. 1 /\ gate.todo \subseteq Reporters
        /\ gate.gens \subseteq DOMAIN log /\ gate.authz \subseteq SUBSET Ids
    BY <2>1 DEF Types, GensOK, GateRecord
  <2>8. (tool.pc # "off" => tool.id \in Ids) /\ tool.authz \subseteq Ids
    BY DEF RevokedInv, RegistryInv, Types, ToolRecord
  <2>9. done.flips \subseteq Ids \X CAs /\ done.severed \subseteq Ids /\ lost \subseteq Ids \X CAs
    BY DEF Types, DoneRecord, Pairs
  <2>10. /\ job \in [Jobs \cup {"tool"} -> {"none", "ensure", "rotate", "flip", "trim"}]
         /\ adopted \subseteq CAs /\ registry \subseteq Ids
    BY DEF Types
  <2> QED
    BY <2>2, <2>3, <2>4, <2>5, <2>6, <2>7, <2>8, <2>9, <2>10 DEF TypeOK
<1> QED
  BY <1>1, Invariant, PTL

\* runRevoke with its gates: no core ever holds a bundle without the CA that
\* signed the leaf of an edge that stays and shares its edge_id with no other,
\* for any fleet, with every interleaving of restarts, lagging reloads, mints
\* under way, edits of the Secret, other rotations, and crashes and re-runs of
\* the tool, for the same or another edge.
THEOREM FleetNeverSeveredHolds == Spec => []FleetNeverSevered
<1>1. IInv => FleetNeverSevered
  <2> SUFFICES ASSUME IInv, NEW k \in Cores, NEW e \in Edges, Stays(e), core[k] # 0
               PROVE  edge[e].leaf.by \subseteq CertsOf(core[k])
    BY DEF FleetNeverSevered
  <2>0. Types /\ LogInv /\ FleetInv
    BY DEF IInv
  <2>1. CASE ~Secret.guard
    BY <2>0, <2>1 DEF FleetInv, Unborn
  <2>2. CASE Secret.guard /\ Secret.active = "old"
    BY <2>0, <2>2 DEF FleetInv, SettledOn
  <2>3. CASE Secret.active = "new"
    <3>1. log[core[k]].crt = Secret.crt /\ edge[e].leaf.by \subseteq CertsOf(Len(log))
      BY <2>0, <2>3 DEF FleetInv, Handover, Holds
    <3> QED
      BY <3>1 DEF CertsOf, Secret
  <2> QED
    BY <2>0, <2>1, <2>2, <2>3, SecretVersion
<1> QED
  BY <1>1, Invariant, PTL

\* TrimCA after the two gates: no ledger shows a leaf by a CA of the bundle
\* for an edge that was reported as severed, and what the restarts of the
\* replicas made them forget can only have been signed under a flip for
\* another edge.
THEOREM RevokedStaysOutHolds == Spec => []RevokedStaysOut
<1>1. IInv => RevokedStaysOut
  <2> SUFFICES ASSUME IInv PROVE RevokedStaysOut
    OBVIOUS
  <2>1. LedgerInv
    BY DEF IInv, RevokedInv
  <2>2. \A p \in lost : p \notin done.flips
    BY <2>1 DEF LedgerInv, Noted
  <2> QED
    BY <2>1, <2>2 DEF LedgerInv, RevokedStaysOut
<1> QED
  BY <1>1, Invariant, PTL

\* EnsureCA: bootstrap Jobs that race, or run again after the data of the
\* Secret was pruned, never return two CAs before a rotation.
THEOREM BootstrapAgreesHolds == Spec => []BootstrapAgrees
<1>1. IInv => BootstrapAgrees
  <2> SUFFICES ASSUME IInv, Secret.phase = "none" PROVE Cardinality(adopted) <= 1
    BY DEF BootstrapAgrees
  <2>1. \E c : adopted \subseteq {c}
    <3>1. CASE Secret.guard
      BY <3>1 DEF IInv, AdoptedInv
    <3>2. CASE ~Secret.guard
      BY <3>2 DEF IInv, FleetInv, Unborn
    <3> QED
      BY <3>1, <3>2
  <2>2. PICK c : adopted \subseteq {c}
    BY <2>1
  <2>3. IsFiniteSet({c}) /\ Cardinality({c}) = 1
    BY FS_Singleton
  <2>4. Cardinality(adopted) \in Nat /\ Cardinality(adopted) <= Cardinality({c})
    BY <2>2, <2>3, FS_Subset, FS_CardinalityType
  <2> QED
    BY <2>3, <2>4
<1> QED
  BY <1>1, Invariant, PTL
=============================================================================
