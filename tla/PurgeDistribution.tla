-------------------------- MODULE PurgeDistribution --------------------------
(***************************************************************************)
(* Cache purges on their way from the operator to an edge: the control     *)
(* plane's in-memory journal (edgecp/purgestore.go), the edge's poll       *)
(* (edge/purgerefresh.go) and its purge table with the persisted state     *)
(* (edge/purge.go), for an edge whose cache survives restarts (disk        *)
(* backend).                                                               *)
(*                                                                         *)
(* A purge is a number, in the order of issue.  What the table does with   *)
(* it is abstracted to the set of purges it enforces: an entry cached      *)
(* before the purge was issued is not served.  A flush-all stamps an epoch *)
(* no older than any purge issued so far, so it enforces all of them.      *)
(***************************************************************************)
EXTENDS Naturals, Sequences, FiniteSets

CONSTANTS
    MaxPurges,        \* bound on the purges issued
    MaxKeep,          \* PurgeStore.maxKeep
    MaxCPRestarts,    \* bound on restarts of the control plane
    MaxEdgeRestarts   \* bound on crashes of the edge

ASSUME BoundsAssumption ==
    /\ MaxPurges \in Nat /\ MaxKeep \in Nat \ {0}
    /\ MaxCPRestarts \in Nat /\ MaxEdgeRestarts \in Nat

\* A foreign purge is one for a host this edge's token may not serve.
Kinds   == {"flush-all", "host", "foreign"}
PurgeId == 1..MaxPurges
Seqs    == 0..MaxPurges
Incs    == 1..(MaxCPRestarts + 1)

VARIABLES
    kind,      \* the purges issued so far, in order
    journal,   \* PurgeStore.entries
    lastSeq,   \* PurgeStore.lastSeq
    minSeq,    \* PurgeStore.minSeq
    inc,       \* history: incarnation of the control plane
    mem,       \* PurgeTable: enforced purges and cursor
    disk,      \* the state file
    poll,      \* what the poll loop is doing
    crashes    \* restarts of the edge so far

cp   == <<kind, journal, lastSeq, minSeq, inc>>
vars == <<kind, journal, lastSeq, minSeq, inc, mem, disk, poll, crashes>>

Entry == [seq : PurgeId, id : PurgeId]

\* inc and masked are history: the incarnation the cursor counts in, and
\* whether a cursor was ever taken for one of another incarnation.
State == [enforced : SUBSET PurgeId, cursor : Seqs, inc : Incs, masked : BOOLEAN]
Fresh == [enforced |-> {}, cursor |-> 0, inc |-> 1, masked |-> FALSE]

Idle == [st |-> "idle"]
Response == [flush : BOOLEAN, entries : SUBSET Entry, max : Seqs, inc : Incs,
             gap : BOOLEAN]

TypeOK ==
    /\ kind \in Seq(Kinds) /\ Len(kind) <= MaxPurges
    /\ journal \in Seq(Entry) /\ Len(journal) <= MaxKeep
    /\ lastSeq \in Seqs /\ minSeq \in 1..(MaxPurges + 1)
    /\ inc \in Incs
    /\ mem \in State /\ disk \in State
    /\ poll \in [st : {"idle"}]
               \cup [st : {"sent"}, since : Seqs]
               \cup [st : {"answered"}, res : Response]
               \cup [st : {"persist"}, snap : State]
    /\ crashes \in 0..MaxEdgeRestarts

Init ==
    /\ kind = <<>>
    /\ journal = <<>> /\ lastSeq = 0 /\ minSeq = 1 /\ inc = 1
    /\ mem = Fresh /\ disk = Fresh
    /\ poll = Idle
    /\ crashes = 0

Issued   == 1..Len(kind)
Relevant == {i \in Issued : kind[i] # "foreign"}

-----------------------------------------------------------------------------
(* The control plane.                                                      *)

\* The trim of Add.
LastN(s, n) == IF Len(s) <= n THEN s ELSE SubSeq(s, Len(s) - n + 1, Len(s))

\* PurgeStore.Add of a valid purge.
Add(k) ==
    /\ Len(kind) < MaxPurges
    /\ kind' = Append(kind, k)
    /\ lastSeq' = lastSeq + 1
    /\ journal' = LastN(Append(journal, [seq |-> lastSeq', id |-> Len(kind')]), MaxKeep)
    /\ minSeq' = journal'[1].seq
    /\ UNCHANGED <<inc, mem, disk, poll, crashes>>

\* The journal lives in memory.
CPRestart ==
    /\ inc <= MaxCPRestarts
    /\ inc' = inc + 1
    /\ journal' = <<>> /\ lastSeq' = 0 /\ minSeq' = 1
    /\ UNCHANGED <<kind, mem, disk, poll, crashes>>

\* Mutation: off by one at the lower end of the journal.
TrimmedLate(since) == since + 2 < minSeq

\* The two reasons for flush_required: the cursor is ahead of the journal, or
\* the entry after it has been trimmed.
Ahead(since)   == since > lastSeq
Trimmed(since) == since + 1 < minSeq

\* PurgeStore.Since.
Since(since) ==
    LET flush == Ahead(since) \/ Trimmed(since)
        new   == {e \in {journal[i] : i \in 1..Len(journal)} :
                     e.seq > since /\ kind[e.id] # "foreign"}
    IN  [flush |-> flush, entries |-> IF flush THEN {} ELSE new,
         max |-> lastSeq, inc |-> inc, gap |-> Trimmed(since)]

-----------------------------------------------------------------------------
(* The edge's poll.                                                        *)

\* FetchPurges(table.Cursor()).
Poll ==
    /\ poll.st = "idle"
    /\ poll' = [st |-> "sent", since |-> mem.cursor]
    /\ UNCHANGED <<cp, mem, disk, crashes>>

\* handlePurges.
Serve ==
    /\ poll.st = "sent"
    /\ poll' = [st |-> "answered", res |-> Since(poll.since)]
    /\ UNCHANGED <<cp, mem, disk, crashes>>

\* An unreachable control plane, or a lost answer: the poll is given up.
PollFail ==
    /\ poll.st \in {"sent", "answered"}
    /\ poll' = Idle
    /\ UNCHANGED <<cp, mem, disk, crashes>>

\* Mutation: a flush never moves the cursor back.
FlushAllForward(res) ==
    [enforced |-> Issued, cursor |-> IF res.max > mem.cursor THEN res.max ELSE mem.cursor,
     inc |-> res.inc, masked |-> FALSE]

\* PurgeTable.FlushAll.
FlushAll(res) ==
    [enforced |-> Issued, cursor |-> res.max, inc |-> res.inc, masked |-> FALSE]

\* PurgeTable.Apply: only entries beyond the cursor, the cursor never back.
Apply(res) ==
    LET new == {e \in res.entries : e.seq > mem.cursor}
        all == \E e \in new : kind[e.id] = "flush-all"
    IN  [enforced |-> IF all THEN Issued ELSE mem.enforced \cup {e.id : e \in new},
         cursor   |-> IF res.max > mem.cursor THEN res.max ELSE mem.cursor,
         inc      |-> res.inc,
         masked   |-> ~all /\ (mem.masked \/ res.inc # mem.inc)]

MustFlush(res) == res.flush \/ res.max < mem.cursor

\* RefreshPurgeOnce with an answer: the table changes under its mutex and a
\* snapshot is taken for the disk, unless nothing changed.
Handle ==
    /\ poll.st = "answered"
    /\ LET res     == poll.res
           changed == \/ MustFlush(res) \/ res.max > mem.cursor
                      \/ \E e \in res.entries : e.seq > mem.cursor
       IN  /\ mem' = IF MustFlush(res) THEN FlushAll(res) ELSE Apply(res)
           /\ poll' = IF changed THEN [st |-> "persist", snap |-> mem'] ELSE Idle
    /\ UNCHANGED <<cp, disk, crashes>>

\* PurgeTable.persist: table and cursor in one atomic write.
Persist ==
    /\ poll.st = "persist"
    /\ disk' = poll.snap
    /\ poll' = Idle
    /\ UNCHANGED <<cp, mem, crashes>>

\* The write fails, before the rename or in the fsync after it.
PersistFail ==
    /\ poll.st = "persist"
    /\ disk' \in {disk, poll.snap}
    /\ poll' = Idle
    /\ UNCHANGED <<cp, mem, crashes>>

-----------------------------------------------------------------------------
(* The edge restarts.                                                      *)

Reboot(s) ==
    /\ crashes < MaxEdgeRestarts
    /\ crashes' = crashes + 1
    /\ mem' = s
    /\ poll' = Idle
    /\ UNCHANGED cp

\* NewPurgeTable loads the state file.
EdgeRestart == Reboot(disk) /\ UNCHANGED disk

\* The file is unreadable: an empty table with cursor 0.
EdgeRestartCorrupt == Reboot(Fresh) /\ UNCHANGED disk

-----------------------------------------------------------------------------
PollStep == Poll \/ Serve \/ Handle \/ Persist

Fault == CPRestart \/ EdgeRestart \/ EdgeRestartCorrupt \/ PollFail \/ PersistFail

Next == (\E k \in Kinds : Add(k)) \/ PollStep \/ Fault

Spec == Init /\ [][Next]_vars

\* The poll loop ticks for ever and, polled again and again, the control
\* plane's answer gets through in the end.
FairSpec == Spec /\ WF_vars(PollStep) /\ SF_vars(Serve) /\ SF_vars(Handle)

-----------------------------------------------------------------------------
(* Properties.                                                             *)

CaughtUp == mem.cursor = lastSeq /\ mem.inc = inc

\* An edge that has caught up with the journal enforces every purge issued for
\* its hosts, through lost answers, trimmed journals, crashes and failed writes
\* of the edge; only a cursor of another incarnation of the control plane,
\* taken for one of this, can hide a purge.
CaughtUpEnforces == CaughtUp /\ ~mem.masked => Relevant \subseteq mem.enforced

\* A journal reset does not leave the cursor stuck above the journal: when
\* purges and faults stop, the edge catches up and stays there.
CursorRealigns == <>[](mem.cursor = lastSeq)
=============================================================================
