--------------------------- MODULE EdgeStoreProofs ---------------------------
(***************************************************************************)
(* Proofs about what an edge holds of the control plane's: the purges, the *)
(* certificates (EdgeCertStore) and the rules (PolicyDistribution).        *)
(*                                                                         *)
(* First the purges: an edge which has caught up enforces every purge, for *)
(* any number of purges, any size of the journal and any number of         *)
(* restarts.  The sequence number of a purge and its place in the order of *)
(* issue differ by the purges issued before the last restart of the        *)
(* control plane.  A table state covers its cursor if it enforces every    *)
(* purge up to there; the invariant says so of the table, of the state     *)
(* file and of the snapshot on its way to it, and that an answer in flight *)
(* holds what lies between the cursor it was asked with and its own        *)
(* maximum.                                                                *)
(***************************************************************************)
EXTENDS PurgeDistribution, EdgeCertStore, PolicyDistribution, SequenceTheorems, FiniteSetTheorems, TLAPS

\* Is purge i numbered at most n by the running control plane?
UpTo(i, n) == i + lastSeq <= Len(kind) + n

\* The journal is the end of the order of issue, numbered without a hole.
JournalOK ==
    /\ lastSeq <= Len(kind)
    /\ inc = 1 => lastSeq = Len(kind)
    /\ Len(journal) <= lastSeq
    /\ minSeq = lastSeq + 1 - Len(journal)
    /\ \A j \in 1..Len(journal) :
          /\ journal[j].seq = lastSeq - Len(journal) + j
          /\ journal[j].id = Len(kind) - Len(journal) + j

\* A state of the table counts in an incarnation that has been; a cursor of
\* the running one lies within the journal's numbers, and every purge up to it
\* is enforced unless one was masked.
Covers(s) ==
    /\ s.inc <= inc
    /\ s.inc = inc =>
          /\ s.cursor <= lastSeq
          /\ ~s.masked => \A i \in Relevant : UpTo(i, s.cursor) => i \in s.enforced

\* An answer holds every purge between the cursor of the table and its maximum.
Complete(ans) ==
    /\ ans.inc <= inc
    /\ ans.inc = inc =>
          /\ ans.max <= lastSeq
          /\ ~ans.flush =>
                \A i \in Relevant : UpTo(i, ans.max) /\ ~UpTo(i, mem.cursor) =>
                    \E e \in ans.entries : e.id = i /\ e.seq > mem.cursor

PollOK ==
    /\ poll.st = "sent" => poll.since = mem.cursor
    /\ poll.st = "answered" => Complete(poll.res)
    /\ poll.st = "persist" => Covers(poll.snap)

PurgeInv == TypeOK /\ JournalOK /\ Covers(mem) /\ Covers(disk) /\ PollOK

-----------------------------------------------------------------------------
\* The trim of Add keeps the end of the journal.
LEMMA LastNProperties ==
    ASSUME NEW S, NEW s \in Seq(S), NEW n \in Nat \ {0}
    PROVE  /\ LastN(s, n) \in Seq(S)
           /\ Len(LastN(s, n)) = IF Len(s) <= n THEN Len(s) ELSE n
           /\ \A i \in 1..Len(LastN(s, n)) :
                 LastN(s, n)[i] = s[Len(s) - Len(LastN(s, n)) + i]
<1>1. CASE Len(s) <= n
  BY <1>1 DEF LastN
<1>2. CASE ~(Len(s) <= n)
  <2>1. Len(s) \in Nat /\ \A i \in (Len(s) - n + 1)..Len(s) : s[i] \in S
    BY <1>2
  <2>2. /\ SubSeq(s, Len(s) - n + 1, Len(s)) \in Seq(S)
        /\ Len(SubSeq(s, Len(s) - n + 1, Len(s))) = n
        /\ \A i \in 1..n : SubSeq(s, Len(s) - n + 1, Len(s))[i] = s[Len(s) - n + 1 + i - 1]
    BY <1>2, <2>1, SubSeqProperties
  <2> QED
    BY <1>2, <2>1, <2>2 DEF LastN
<1> QED
  BY <1>1, <1>2

\* The records of the poll loop, one shape per stage.
LEMMA PollShapes ==
    ASSUME TypeOK
    PROVE  /\ poll.st \in {"idle", "sent", "answered", "persist"}
           /\ poll.st = "sent" => poll.since \in Seqs
           /\ poll.st = "answered" => poll.res \in Response
           /\ poll.st = "persist" => poll.snap \in State
  BY DEF TypeOK

LEMMA StatePieces ==
    ASSUME NEW s \in State
    PROVE  /\ s.enforced \in SUBSET PurgeId /\ s.cursor \in Nat /\ s.inc \in Nat
           /\ s.masked \in BOOLEAN
  BY BoundsAssumption DEF State, Seqs, Incs

LEMMA ResponsePieces ==
    ASSUME NEW ans \in Response
    PROVE  /\ ans.flush \in BOOLEAN /\ ans.entries \in SUBSET Entry
           /\ ans.max \in Seqs /\ ans.max \in Nat /\ ans.inc \in Incs /\ ans.inc \in Nat
  BY BoundsAssumption DEF Response, Seqs, Incs

LEMMA Counters ==
    ASSUME TypeOK
    PROVE  /\ Len(kind) \in Nat /\ lastSeq \in Nat /\ minSeq \in Nat /\ inc \in Nat
           /\ Len(journal) \in Nat
           /\ Issued \in SUBSET PurgeId
  BY BoundsAssumption DEF TypeOK, Seqs, Incs, Issued, PurgeId

\* A fresh table covers nothing and needs to: there is nothing before cursor 0
\* of the first incarnation.
LEMMA FreshState == Fresh \in State /\ (TypeOK /\ JournalOK => Covers(Fresh))
<1>1. Fresh \in State
  BY BoundsAssumption DEF Fresh, State, Seqs, Incs
<1>2. ASSUME TypeOK, JournalOK PROVE Covers(Fresh)
  <2>1. 1 <= inc
    BY <1>2, BoundsAssumption DEF TypeOK, Incs
  <2> QED
    BY <1>2, <2>1, Counters DEF Covers, Fresh, JournalOK, UpTo, Relevant, Issued
<1> QED
  BY <1>1, <1>2

-----------------------------------------------------------------------------
(* Purges that are added, and restarts, leave what is covered covered.     *)

\* The new purge gets the next number: no cursor reaches it.
LEMMA AddKeeps ==
    ASSUME TypeOK, JournalOK, NEW k \in Kinds, Add(k)
    PROVE  /\ \A s \in State : Covers(s) => Covers(s)'
           /\ \A ans \in Response : Complete(ans) => Complete(ans)'
<1> USE Counters
<1>1. /\ lastSeq' = lastSeq + 1 /\ Len(kind') = Len(kind) + 1 /\ inc' = inc /\ mem' = mem
      /\ Len(kind) \in Nat /\ lastSeq \in Nat
      /\ \A i \in 1..Len(kind) : kind'[i] = kind[i]
  BY DEF Add, TypeOK
<1>2. \A i, n \in Nat : UpTo(i, n)' <=> UpTo(i, n)
  BY <1>1 DEF UpTo
<1>3. ASSUME NEW i \in Relevant', NEW n \in Nat, n <= lastSeq, UpTo(i, n)'
      PROVE  i \in Relevant
  BY <1>1, <1>3 DEF Relevant, Issued, UpTo
<1>4. ASSUME NEW s \in State, Covers(s) PROVE Covers(s)'
  <2>1. s.cursor \in Nat /\ s.inc \in Nat /\ Relevant' \subseteq Nat
    BY <1>1, StatePieces DEF Relevant, Issued
  <2>2. s.inc = inc => s.cursor <= lastSeq
    BY <1>4 DEF Covers
  <2>3. s.inc = inc /\ ~s.masked => \A i \in Relevant' : UpTo(i, s.cursor)' => i \in s.enforced
    BY <1>2, <1>3, <1>4, <2>1, <2>2 DEF Covers
  <2> QED
    BY <1>1, <1>4, <2>1, <2>2, <2>3 DEF Covers
<1>5. ASSUME NEW ans \in Response, Complete(ans) PROVE Complete(ans)'
  <2>1. ans.max \in Nat /\ ans.inc \in Nat /\ mem.cursor \in Nat /\ Relevant' \subseteq Nat
    BY <1>1, ResponsePieces, StatePieces DEF Relevant, Issued, TypeOK
  <2>2. ans.inc = inc => ans.max <= lastSeq
    BY <1>5 DEF Complete
  <2>3. ASSUME ans.inc = inc, ~ans.flush, NEW i \in Relevant', UpTo(i, ans.max)', ~UpTo(i, mem.cursor)'
        PROVE  \E e \in ans.entries : e.id = i /\ e.seq > mem.cursor
    <3>1. i \in Relevant /\ UpTo(i, ans.max)
      BY <1>2, <1>3, <2>1, <2>2, <2>3
    <3>2. ~UpTo(i, mem.cursor)
      BY <1>1, <1>2, <2>1, <2>3 DEF UpTo
    <3> QED
      BY <1>5, <2>3, <3>1, <3>2 DEF Complete
  <2>4. ans.inc <= inc' /\ (ans.inc = inc' => ans.max <= lastSeq')
    BY <1>1, <1>5, <2>1, <2>2 DEF Complete
  <2>5. ans.inc = inc' /\ ~ans.flush =>
            \A i \in Relevant' : UpTo(i, ans.max)' /\ ~UpTo(i, mem.cursor)' =>
                \E e \in ans.entries : e.id = i /\ e.seq > mem.cursor'
    BY <1>1, <2>3
  <2> QED
    BY <2>4, <2>5 DEF Complete
<1> QED
  BY <1>4, <1>5

\* A restart of the control plane begins an incarnation nobody counts in.
LEMMA RestartKeeps ==
    ASSUME TypeOK, CPRestart
    PROVE  /\ \A s \in State : Covers(s) => Covers(s)'
           /\ \A ans \in Response : Complete(ans) => Complete(ans)'
  BY Counters, StatePieces, ResponsePieces DEF CPRestart, Covers, Complete

\* Add leaves a journal that is the end of the order of issue.
LEMMA AddJournal ==
    ASSUME TypeOK, JournalOK, NEW k \in Kinds, Add(k)
    PROVE  TypeOK' /\ JournalOK'
<1> USE BoundsAssumption, Counters
<1> DEFINE e == [seq |-> lastSeq + 1, id |-> Len(kind) + 1]
           a == Append(journal, e)
<1>1. /\ lastSeq' = lastSeq + 1 /\ kind' = Append(kind, k) /\ Len(kind') = Len(kind) + 1
      /\ Len(kind) + 1 <= MaxPurges /\ inc' = inc /\ lastSeq <= Len(kind)
  BY DEF Add, TypeOK, JournalOK
<1>2. e \in Entry
  BY <1>1 DEF Entry, PurgeId
<1>3. /\ a \in Seq(Entry) /\ Len(a) = Len(journal) + 1
      /\ \A j \in 1..Len(journal) : a[j] = journal[j]
      /\ a[Len(journal) + 1] = e
  BY <1>2, AppendProperties DEF TypeOK
<1>4. journal' = LastN(a, MaxKeep)
  BY <1>1 DEF Add
<1> HIDE DEF a, e
<1>5. /\ journal' \in Seq(Entry)
      /\ Len(journal') = IF Len(a) <= MaxKeep THEN Len(a) ELSE MaxKeep
      /\ \A j \in 1..Len(journal') : journal'[j] = a[Len(a) - Len(journal') + j]
  <2>1. MaxKeep \in Nat \ {0}
    OBVIOUS
  <2> DEFINE l == LastN(a, MaxKeep)
  <2>2. /\ l \in Seq(Entry)
        /\ Len(l) = IF Len(a) <= MaxKeep THEN Len(a) ELSE MaxKeep
        /\ \A i \in 1..Len(l) : l[i] = a[Len(a) - Len(l) + i]
    BY <1>3, <2>1, LastNProperties
  <2> QED
    BY <1>4, <2>2
<1>6. \A j \in 1..Len(a) : /\ a[j].seq = lastSeq + 1 - Len(a) + j
                           /\ a[j].id = Len(kind) + 1 - Len(a) + j
  <2>1. ASSUME NEW j \in 1..Len(journal)
        PROVE  a[j].seq = lastSeq - Len(journal) + j /\ a[j].id = Len(kind) - Len(journal) + j
    BY <1>3, <2>1 DEF JournalOK
  <2>2. e.seq = lastSeq + 1 /\ e.id = Len(kind) + 1
    BY DEF e
  <2> QED
    BY <1>3, <2>1, <2>2
<1>7. Len(journal') \in Nat \ {0} /\ Len(journal') <= MaxKeep /\ Len(journal') <= Len(a)
      /\ Len(a) <= lastSeq'
  BY <1>1, <1>3, <1>5 DEF JournalOK
<1>8. ASSUME NEW j \in 1..Len(journal')
      PROVE  /\ journal'[j].seq = lastSeq' - Len(journal') + j
             /\ journal'[j].id = Len(kind') - Len(journal') + j
  <2>1. Len(a) - Len(journal') + j \in 1..Len(a)
    BY <1>3, <1>7
  <2> DEFINE m == Len(a) - Len(journal') + j
  <2>2. journal'[j] = a[m]
    BY <1>5
  <2>3. a[m].seq = lastSeq + 1 - Len(a) + m /\ a[m].id = Len(kind) + 1 - Len(a) + m
    BY <1>6, <2>1
  <2>4. /\ lastSeq + 1 - Len(a) + m = lastSeq' - Len(journal') + j
        /\ Len(kind) + 1 - Len(a) + m = Len(kind') - Len(journal') + j
    <3>1. lastSeq \in Nat /\ Len(kind) \in Nat /\ Len(a) \in Nat /\ Len(journal') \in Nat /\ j \in Nat
      BY <1>3, <1>7
    <3>2. lastSeq' = lastSeq + 1 /\ Len(kind') = Len(kind) + 1
      BY <1>1
    <3> QED
      BY <3>1, <3>2
  <2> QED
    BY <2>2, <2>3, <2>4
<1>9. minSeq' = lastSeq' + 1 - Len(journal')
  <2>1. 1 \in 1..Len(journal') /\ minSeq' = journal'[1].seq
    BY <1>7 DEF Add
  <2> QED
    BY <1>1, <1>7, <1>8, <2>1
<1>10. TypeOK'
  <2>1. kind' \in Seq(Kinds) /\ Len(kind') <= MaxPurges
    BY <1>1 DEF TypeOK
  <2>2. lastSeq' \in Seqs /\ minSeq' \in 1..(MaxPurges + 1)
    BY <1>1, <1>7, <1>9 DEF Seqs
  <2> QED
    BY <1>5, <1>7, <2>1, <2>2 DEF Add, TypeOK
<1>11. inc' = 1 => lastSeq' = Len(kind')
  BY <1>1 DEF JournalOK
<1>12. lastSeq' <= Len(kind') /\ Len(journal') <= lastSeq'
  BY <1>1, <1>3, <1>7
<1> QED
  BY <1>8, <1>9, <1>10, <1>11, <1>12 DEF JournalOK

-----------------------------------------------------------------------------
(* The poll.                                                               *)

\* PurgeStore.Since answers with every entry beyond the cursor it was asked
\* with, or demands a flush: an entry it lacks was trimmed.
LEMMA SinceComplete ==
    ASSUME TypeOK, JournalOK, poll.since = mem.cursor
    PROVE  Since(poll.since) \in Response /\ Complete(Since(poll.since))
<1> USE Counters
<1> DEFINE ans == Since(poll.since)
<1>0. mem.cursor \in Nat
  BY StatePieces DEF TypeOK
<1>1. /\ ans.flush = (Ahead(mem.cursor) \/ Trimmed(mem.cursor)) /\ ans.max = lastSeq /\ ans.inc = inc
      /\ ans.entries = IF ans.flush THEN {}
                       ELSE {e \in {journal[j] : j \in 1..Len(journal)} :
                                e.seq > mem.cursor /\ kind[e.id] # "foreign"}
  BY DEF Since
<1>2. ans \in Response
  <2>1. {journal[j] : j \in 1..Len(journal)} \subseteq Entry
    BY DEF TypeOK
  <2>2. lastSeq \in Seqs /\ inc \in Incs
    BY DEF TypeOK
  <2> QED
    BY <2>1, <2>2 DEF Since, Response, Ahead, Trimmed
<1>3. ASSUME ~ans.flush, NEW i \in Relevant, ~UpTo(i, mem.cursor)
      PROVE  \E e \in ans.entries : e.id = i /\ e.seq > mem.cursor
  <2> DEFINE j == i - Len(kind) + Len(journal)
  <2>1. i \in 1..Len(kind) /\ kind[i] # "foreign" /\ i \in Nat
    BY DEF Relevant, Issued
  <2>2. i + lastSeq > Len(kind) + mem.cursor
    BY <1>0, <1>3, <2>1 DEF UpTo
  <2>3. mem.cursor + 1 >= minSeq /\ minSeq = lastSeq + 1 - Len(journal)
    <3>1. ~Trimmed(mem.cursor)
      BY <1>1, <1>3, Zenon
    <3> QED
      BY <1>0, <3>1 DEF Trimmed, JournalOK
  <2>4. j \in 1..Len(journal)
    BY <1>0, <2>1, <2>2, <2>3
  <2>5. journal[j].seq = lastSeq - Len(journal) + j /\ journal[j].id = Len(kind) - Len(journal) + j
    BY <2>4 DEF JournalOK
  <2>6. journal[j].seq > mem.cursor /\ journal[j].id = i
    <3> HIDE DEF j
    <3>1. j = i - Len(kind) + Len(journal) /\ j \in Nat
      BY <2>4 DEF j
    <3> QED
      BY <1>0, <2>1, <2>2, <2>5, <3>1
  <2>7. journal[j] \in ans.entries
    <3>1. journal[j] \in {journal[n] : n \in 1..Len(journal)} /\ kind[journal[j].id] # "foreign"
      BY <2>1, <2>4, <2>6
    <3>2. ans.entries = {e \in {journal[n] : n \in 1..Len(journal)} :
                            e.seq > mem.cursor /\ kind[e.id] # "foreign"}
      BY <1>1, <1>3
    <3> HIDE DEF j, ans
    <3> QED
      BY <2>6, <3>1, <3>2
  <2> QED
    BY <2>6, <2>7
<1> HIDE DEF ans
<1>4. Complete(ans)
  BY <1>1, <1>3 DEF Complete
<1> QED
  BY <1>2, <1>4 DEF ans

\* A flush enforces everything issued: nothing can be missing behind it.
LEMMA FlushCovers ==
    ASSUME TypeOK, NEW ans \in Response, Complete(ans)
    PROVE  FlushAll(ans) \in State /\ Covers(FlushAll(ans))
<1>1. FlushAll(ans) \in State
  BY Counters, ResponsePieces DEF FlushAll, State
<1> QED
  BY <1>1 DEF FlushAll, Covers, Complete, Relevant

\* Applying an answer moves the cursor over the purges it takes in.
LEMMA ApplyCovers ==
    ASSUME TypeOK, Covers(mem), NEW ans \in Response, Complete(ans), ~MustFlush(ans)
    PROVE  Apply(ans) \in State /\ Covers(Apply(ans))
<1> DEFINE new == {e \in ans.entries : e.seq > mem.cursor}
           all == \E e \in new : kind[e.id] = "flush-all"
           s == Apply(ans)
<1>0. /\ mem.cursor \in Nat /\ mem.inc \in Nat /\ mem.masked \in BOOLEAN
      /\ mem.enforced \in SUBSET PurgeId /\ mem.cursor \in Seqs
  BY StatePieces DEF TypeOK, State
<1>1. /\ s.enforced = IF all THEN Issued ELSE mem.enforced \cup {e.id : e \in new}
      /\ s.inc = ans.inc /\ s.masked = (~all /\ (mem.masked \/ ans.inc # mem.inc))
      /\ s.cursor = IF ans.max > mem.cursor THEN ans.max ELSE mem.cursor
  BY DEF Apply
<1>2. s.cursor = ans.max
  BY <1>0, <1>1, ResponsePieces DEF MustFlush
<1>3. s \in State
  <2>1. {e.id : e \in new} \in SUBSET PurgeId
    BY ResponsePieces DEF Entry
  <2>2. s.enforced \in SUBSET PurgeId /\ s.cursor \in Seqs /\ s.inc \in Incs /\ s.masked \in BOOLEAN
    BY <1>0, <1>1, <1>2, <2>1, Counters, ResponsePieces
  <2> QED
    BY <2>2 DEF Apply, State
<1>4. ASSUME s.inc = inc, ~s.masked, NEW i \in Relevant, UpTo(i, s.cursor)
      PROVE  i \in s.enforced
  <2>1. CASE all
    BY <1>1, <2>1 DEF Relevant
  <2>2. CASE ~all
    <3>1. ~mem.masked /\ ans.inc = mem.inc /\ ans.inc = inc
      BY <1>1, <1>4, <2>2
    <3>2. CASE UpTo(i, mem.cursor)
      BY <1>1, <2>2, <3>1, <3>2 DEF Covers
    <3>3. CASE ~UpTo(i, mem.cursor)
      <4>1. PICK e \in ans.entries : e.id = i /\ e.seq > mem.cursor
        BY <1>2, <1>4, <3>1, <3>3 DEF Complete, MustFlush
      <4> QED
        BY <1>1, <2>2, <4>1
    <3> QED
      BY <3>2, <3>3
  <2> QED
    BY <2>1, <2>2
<1> HIDE DEF s
<1>5. Covers(s)
  BY <1>1, <1>2, <1>4 DEF Covers, Complete
<1> QED
  BY <1>3, <1>5 DEF s

-----------------------------------------------------------------------------
\* A step of the edge that leaves the control plane alone.
LEMMA EdgeStep ==
    ASSUME PurgeInv, UNCHANGED cp,
           mem' \in State, Covers(mem'), disk' \in State, Covers(disk'),
           crashes' \in 0..MaxEdgeRestarts,
           \/ poll' = Idle
           \/ poll' = [st |-> "sent", since |-> mem.cursor] /\ mem' = mem
           \/ mem' = mem /\ \E ans \in Response : Complete(ans) /\ poll' = [st |-> "answered", res |-> ans]
           \/ poll' = [st |-> "persist", snap |-> mem']
    PROVE  PurgeInv'
<1>1. UNCHANGED <<kind, journal, lastSeq, minSeq, inc, Relevant>>
  BY DEF cp, Relevant, Issued
<1>2. /\ poll' \in [st : {"idle"}] \cup [st : {"sent"}, since : Seqs]
                   \cup [st : {"answered"}, res : Response] \cup [st : {"persist"}, snap : State]
  <2>1. mem.cursor \in Seqs
    BY DEF PurgeInv, TypeOK, State
  <2> QED
    BY <2>1 DEF Idle
<1>3. TypeOK'
  BY <1>1, <1>2 DEF PurgeInv, TypeOK
<1>4. JournalOK'
  BY <1>1 DEF PurgeInv, JournalOK
<1>5. Covers(mem)' /\ Covers(disk)'
  BY <1>1 DEF Covers, UpTo
<1>6. PollOK'
  <2>1. CASE poll' = Idle
    BY <2>1 DEF PollOK, Idle
  <2>2. CASE poll' = [st |-> "sent", since |-> mem.cursor] /\ mem' = mem
    BY <2>2 DEF PollOK
  <2>3. CASE mem' = mem /\ \E ans \in Response : Complete(ans) /\ poll' = [st |-> "answered", res |-> ans]
    <3>1. PICK ans \in Response : Complete(ans) /\ poll' = [st |-> "answered", res |-> ans]
      BY <2>3
    <3>2. Complete(ans)'
      BY <1>1, <2>3, <3>1 DEF Complete, UpTo
    <3> QED
      BY <3>1, <3>2 DEF PollOK
  <2>4. CASE poll' = [st |-> "persist", snap |-> mem']
    BY <1>5, <2>4 DEF PollOK
  <2> QED
    BY <2>1, <2>2, <2>3, <2>4
<1> QED
  BY <1>3, <1>4, <1>5, <1>6 DEF PurgeInv

\* The journal and both tables are empty at first.
LEMMA PurgeInvInit == Init => PurgeInv
<1> SUFFICES ASSUME Init PROVE PurgeInv
  OBVIOUS
<1>1. TypeOK
  <2>1. poll \in [st : {"idle"}] /\ mem \in State /\ disk \in State
    BY FreshState DEF Init, Idle
  <2> QED
    BY <2>1, BoundsAssumption DEF Init, TypeOK, Seqs, Incs
<1>2. JournalOK
  BY DEF Init, JournalOK
<1>3. Covers(mem) /\ Covers(disk)
  BY <1>1, <1>2, FreshState DEF Init
<1> QED
  BY <1>1, <1>2, <1>3 DEF PurgeInv, PollOK, Init, Idle

\* Every step keeps it.
LEMMA PurgeInvStep == PurgeInv /\ [Next]_vars => PurgeInv'
<1> SUFFICES ASSUME PurgeInv, [Next]_vars PROVE PurgeInv'
  OBVIOUS
<1>0. /\ TypeOK /\ JournalOK /\ Covers(mem) /\ Covers(disk) /\ PollOK
      /\ mem \in State /\ disk \in State /\ crashes \in 0..MaxEdgeRestarts
  BY DEF PurgeInv, TypeOK
<1>1. ASSUME NEW k \in Kinds, Add(k) PROVE PurgeInv'
  <2>1. TypeOK' /\ JournalOK'
    BY <1>0, <1>1, AddJournal
  <2>2. UNCHANGED <<mem, disk, poll>>
    BY <1>1 DEF Add
  <2>3. /\ \A s \in State : Covers(s) => Covers(s)'
        /\ \A ans \in Response : Complete(ans) => Complete(ans)'
    BY <1>0, <1>1, AddKeeps
  <2>4. Covers(mem)' /\ Covers(disk)'
    BY <1>0, <2>2, <2>3 DEF Covers
  <2>5. PollOK'
    BY <1>0, <2>2, <2>3, PollShapes DEF PollOK, Covers, Complete
  <2> QED
    BY <2>1, <2>4, <2>5 DEF PurgeInv
<1>2. CASE CPRestart
  <2>1. TypeOK' /\ JournalOK'
    <3>1. inc' \in Incs /\ lastSeq' \in Seqs /\ minSeq' \in 1..(MaxPurges + 1)
      BY <1>0, <1>2, BoundsAssumption DEF CPRestart, TypeOK, Incs, Seqs
    <3>2. inc' # 1
      BY <1>0, <1>2, BoundsAssumption DEF CPRestart, TypeOK, Incs
    <3>3. TypeOK'
      BY <1>0, <1>2, <3>1, BoundsAssumption DEF CPRestart, TypeOK
    <3> QED
      BY <1>0, <1>2, <3>2, <3>3, Counters DEF CPRestart, JournalOK
  <2>2. UNCHANGED <<mem, disk, poll>>
    BY <1>2 DEF CPRestart
  <2>3. /\ \A s \in State : Covers(s) => Covers(s)'
        /\ \A ans \in Response : Complete(ans) => Complete(ans)'
    BY <1>0, <1>2, RestartKeeps
  <2>4. Covers(mem)' /\ Covers(disk)'
    BY <1>0, <2>2, <2>3 DEF Covers
  <2>5. PollOK'
    BY <1>0, <2>2, <2>3, PollShapes DEF PollOK, Covers, Complete
  <2> QED
    BY <2>1, <2>4, <2>5 DEF PurgeInv
<1>3. CASE Poll
  BY <1>0, <1>3, EdgeStep DEF Poll
<1>4. CASE Serve
  BY <1>0, <1>4, EdgeStep, SinceComplete DEF Serve, PollOK
<1>5. CASE PollFail
  BY <1>0, <1>5, EdgeStep DEF PollFail
<1>6. CASE Handle
  <2>1. poll.res \in Response /\ Complete(poll.res)
    BY <1>0, <1>6, PollShapes DEF Handle, PollOK
  <2>2. mem' \in State /\ Covers(mem')
    BY <1>0, <1>6, <2>1, FlushCovers, ApplyCovers DEF Handle
  <2> QED
    BY <1>0, <1>6, <2>2, EdgeStep DEF Handle
<1>7. CASE Persist
  BY <1>0, <1>7, PollShapes, EdgeStep DEF Persist, PollOK
<1>8. CASE PersistFail
  BY <1>0, <1>8, PollShapes, EdgeStep DEF PersistFail, PollOK
<1>9. ASSUME NEW s \in State, Covers(s), Reboot(s), UNCHANGED disk PROVE PurgeInv'
  <2>1. crashes' \in 0..MaxEdgeRestarts
    BY <1>0, <1>9, BoundsAssumption DEF Reboot
  <2> QED
    BY <1>0, <1>9, <2>1, EdgeStep DEF Reboot
<1>10. CASE EdgeRestart
  BY <1>0, <1>9, <1>10 DEF EdgeRestart
<1>11. CASE EdgeRestartCorrupt
  BY <1>0, <1>9, <1>11, FreshState DEF EdgeRestartCorrupt
<1>12. CASE UNCHANGED vars
  BY <1>0, <1>12 DEF vars, PurgeInv, TypeOK, JournalOK, Covers, UpTo, Relevant, Issued, PollOK, Complete
<1> QED
  BY <1>1, <1>2, <1>3, <1>4, <1>5, <1>6, <1>7, <1>8, <1>10, <1>11, <1>12
     DEF Next, PollStep, Fault

-----------------------------------------------------------------------------
\* The journal stays within maxKeep, and cursors and answers stay within the
\* numbers the control plane has given out.
THEOREM TypeCorrect == Spec => []TypeOK
<1>1. PurgeInv => TypeOK
  BY DEF PurgeInv
<1> QED
  BY <1>1, PurgeInvInit, PurgeInvStep, PTL DEF Spec

\* An edge that has caught up with the journal enforces every purge issued for
\* its hosts, in this and in every earlier incarnation of the control plane,
\* however often answers are lost, the journal is trimmed and the edge crashes.
THEOREM CaughtUpHolds == Spec => []CaughtUpEnforces
<1>1. PurgeInv => CaughtUpEnforces
  <2> SUFFICES ASSUME PurgeInv, CaughtUp, ~mem.masked, NEW i \in Relevant
               PROVE  i \in mem.enforced
    BY DEF CaughtUpEnforces
  <2>1. UpTo(i, mem.cursor)
    BY Counters DEF PurgeInv, CaughtUp, UpTo, Relevant, Issued
  <2> QED
    BY <2>1 DEF PurgeInv, Covers, CaughtUp
<1> QED
  BY <1>1, PurgeInvInit, PurgeInvStep, PTL DEF Spec

-----------------------------------------------------------------------------
(***************************************************************************)
(* The certificates, for any number of names, handshakes and slots.  That  *)
(* a name has one leader at a time is what makes the bound per name        *)
(* inductive: a handshake leads only when nobody else does.                *)
(***************************************************************************)

\* A name has one leader at a time.
OneLeader == \A g, h \in InFlight : dom[g] = dom[h] => g = h

CertInv == CertTypeOK /\ Cardinality(InFlight) <= MaxInFlight /\ OneLeader

\* The leaders are finitely many, the missed names too.
LEMMA FiniteFlights ==
    ASSUME CertTypeOK
    PROVE  IsFiniteSet(InFlight) /\ Cardinality(InFlight) \in Nat
           /\ IsFiniteSet(miss) /\ Cardinality(miss) \in Nat
<1>1. InFlight \subseteq Handshakes /\ miss \subseteq Domains
  BY DEF InFlight, CertTypeOK
<1>2. IsFiniteSet(InFlight) /\ IsFiniteSet(miss)
  BY <1>1, FS_Subset, ConfiguredAssumption, ThreadsAssumption
<1>3. QED
  BY <1>2, FS_CardinalityType

\* Fewer missed names are within the limit.
LEMMA LiftMiss ==
    ASSUME CertTypeOK, NEW d
    PROVE  miss \ {d} \subseteq Domains /\ Cardinality(miss \ {d}) <= MaxMiss
<1>1. Cardinality(miss \ {d}) <= Cardinality(miss) /\ Cardinality(miss \ {d}) \in Nat
  BY FiniteFlights, FS_Subset, FS_CardinalityType
<1>2. QED
  BY <1>1, FiniteFlights, LimitsAssumption DEF CertTypeOK

\* The negative cache takes a name only below its limit.
LEMMA AddMiss ==
    ASSUME CertTypeOK, NEW d \in Domains, Cardinality(miss) < MaxMiss
    PROVE  miss \cup {d} \subseteq Domains /\ Cardinality(miss \cup {d}) <= MaxMiss
<1>1. Cardinality(miss \cup {d}) \in {Cardinality(miss), Cardinality(miss) + 1}
  BY FiniteFlights, FS_AddElement
<1>2. QED
  BY <1>1, FiniteFlights, LimitsAssumption DEF CertTypeOK

\* The store starts empty, the negative cache too.
LEMMA CertTypeInit == CertInit => CertTypeOK
<1>1. (CHOOSE d \in Domains : TRUE) \in Domains
  BY ConfiguredAssumption
<1>2. Cardinality({}) = 0
  BY FS_EmptySet
<1>3. QED
  BY <1>1, <1>2, LimitsAssumption DEF CertInit, CertTypeOK, None, CertVersion

\* Every step keeps the variables in their types, and the negative cache
\* within its limit.
LEMMA CertTypeStep == ASSUME CertTypeOK, [CertNext]_certVars PROVE CertTypeOK'
<1> USE DEF CertTypeOK, fetching
<1>1. CASE UNCHANGED certVars
  BY <1>1 DEF certVars
<1>2. ASSUME NEW d \in Domains, Rotate(d) PROVE CertTypeOK'
  BY <1>2, LimitsAssumption DEF Rotate, CertVersion
<1>3. ASSUME NEW d \in Domains, ExpireMiss(d) PROVE CertTypeOK'
  BY <1>3, LiftMiss DEF ExpireMiss
<1>4. ASSUME NEW h \in Handshakes, NEW d \in Domains, Hello(h, d) PROVE CertTypeOK'
  BY <1>4 DEF Hello, Threads
<1>5. ASSUME NEW h \in Handshakes, LandHit(h) PROVE CertTypeOK'
  BY <1>5, LiftMiss DEF LandHit, Land
<1>6. ASSUME NEW h \in Handshakes, CheckMiss(h) PROVE CertTypeOK'
  BY <1>6 DEF CheckMiss
<1>7. ASSUME NEW h \in Handshakes, RecordMiss(h) PROVE CertTypeOK'
  <2>1. dom[h] \in Domains
    BY DEF Threads
  <2>2. miss' \subseteq Domains /\ Cardinality(miss') <= MaxMiss
    BY <1>7, <2>1, AddMiss DEF RecordMiss
  <2>3. QED
    BY <1>7, <2>2 DEF RecordMiss, Land
<1>8. ASSUME NEW u \in Threads, RefreshCert(u) PROVE CertTypeOK'
  <2>0. 0 \in CertVersion /\ None \in [Domains -> CertVersion]
    BY LimitsAssumption DEF CertVersion, None
  <2>1. CASE Fetch(u) \/ KeepCached(u)
    BY <2>0, <2>1 DEF Fetch, KeepCached
  <2>2. CASE Answer(u)
    BY <2>0, <2>2 DEF Answer
  <2>3. CASE UpdateCache(u)
    BY <2>0, <2>3 DEF UpdateCache
  <2>4. CASE SwapTable(u)
    BY <2>0, <2>4, LiftMiss DEF SwapTable
  <2>5. QED
    BY <1>8, <2>1, <2>2, <2>3, <2>4 DEF RefreshCert
<1>9. CASE TickCerts
  BY <1>9, ConfiguredAssumption DEF TickCerts
<1>10. CASE LoopDone
  BY <1>10 DEF LoopDone
<1>11. ASSUME NEW d \in Domains, NextDomain(d) PROVE CertTypeOK'
  BY <1>11 DEF NextDomain, Threads
<1>12. QED
  BY <1>1, <1>2, <1>3, <1>4, <1>5, <1>6, <1>7, <1>8, <1>9, <1>10, <1>11
  DEF CertNext, HandshakeStep, RunLoop, Threads

\* Only a Hello with a free slot and no flight for its name leads a new one.
LEMMA LeaderStep ==
    ASSUME CertTypeOK, [CertNext]_certVars
    PROVE  \/ InFlight' \subseteq InFlight /\ \A h \in InFlight : dom'[h] = dom[h]
           \/ \E h \in Handshakes \ InFlight, d \in Domains :
                /\ Flight(d) = {} /\ Cardinality(InFlight) < MaxInFlight
                /\ InFlight' \subseteq InFlight \cup {h}
                /\ dom' = [dom EXCEPT ![h] = d]
<1> DEFINE Kept == InFlight' \subseteq InFlight /\ \A h \in InFlight : dom'[h] = dom[h]
<1> USE DEF CertTypeOK, InFlight, Leading, Threads, fetching
<1>1. CASE UNCHANGED certVars
  BY <1>1 DEF certVars
<1>2. ASSUME NEW d \in Domains, Rotate(d) \/ ExpireMiss(d) PROVE Kept
  BY <1>2 DEF Rotate, ExpireMiss
<1>3. ASSUME NEW h \in Handshakes, NEW d \in Domains, Hello(h, d), Flight(d) # {} PROVE Kept
  BY <1>3 DEF Hello
<1>4. ASSUME NEW h \in Handshakes, NEW d \in Domains, Hello(h, d), Flight(d) = {}
      PROVE  /\ h \notin InFlight /\ Cardinality(InFlight) < MaxInFlight
             /\ InFlight' \subseteq InFlight \cup {h}
             /\ dom' = [dom EXCEPT ![h] = d]
  BY <1>4 DEF Hello
<1>5. ASSUME NEW h \in Handshakes, LandHit(h) \/ CheckMiss(h) \/ RecordMiss(h) PROVE Kept
  BY <1>5 DEF LandHit, CheckMiss, RecordMiss, Land
<1>6. ASSUME NEW u \in Threads, RefreshCert(u) PROVE Kept
  BY <1>6 DEF RefreshCert, Fetch, Answer, KeepCached, UpdateCache, SwapTable
<1>7. CASE TickCerts \/ LoopDone
  BY <1>7, ThreadsAssumption DEF TickCerts, LoopDone
<1>8. ASSUME NEW d \in Domains, NextDomain(d) PROVE Kept
  BY <1>8, ThreadsAssumption DEF NextDomain
<1> DEFINE Started(h, d) ==
             /\ Flight(d) = {} /\ Cardinality(InFlight) < MaxInFlight
             /\ InFlight' \subseteq InFlight \cup {h}
             /\ dom' = [dom EXCEPT ![h] = d]
<1>9. ASSUME NEW h \in Handshakes, NEW d \in Domains, Hello(h, d)
      PROVE  Kept \/ (h \notin InFlight /\ Started(h, d))
  BY <1>3, <1>4, <1>9
<1> HIDE DEF InFlight
<1>10. QED
  BY <1>1, <1>2, <1>5, <1>6, <1>7, <1>8, <1>9 DEF CertNext, HandshakeStep, RunLoop

\* The slots and the leaders are taken and left together.
LEMMA CertInvStep == CertInv /\ [CertNext]_certVars => CertInv'
<1> SUFFICES ASSUME CertInv, [CertNext]_certVars PROVE CertInv'
  OBVIOUS
<1>1. CertTypeOK /\ CertTypeOK'
  BY CertTypeStep DEF CertInv
<1>2. IsFiniteSet(InFlight) /\ Cardinality(InFlight) \in Nat
  BY <1>1, FiniteFlights
<1>3. CASE InFlight' \subseteq InFlight /\ \A h \in InFlight : dom'[h] = dom[h]
  <2>1. Cardinality(InFlight') <= Cardinality(InFlight) /\ Cardinality(InFlight') \in Nat
    BY <1>2, <1>3, FS_Subset, FS_CardinalityType
  <2>2. OneLeader'
    BY <1>3 DEF CertInv, OneLeader
  <2>3. QED
    BY <1>1, <1>2, <2>1, <2>2, LimitsAssumption DEF CertInv
<1>4. ASSUME NEW h \in Handshakes \ InFlight, NEW d \in Domains,
             Flight(d) = {}, Cardinality(InFlight) < MaxInFlight,
             InFlight' \subseteq InFlight \cup {h}, dom' = [dom EXCEPT ![h] = d]
      PROVE  CertInv'
  <2>1. IsFiniteSet(InFlight \cup {h}) /\ Cardinality(InFlight \cup {h}) = Cardinality(InFlight) + 1
    BY <1>2, FS_AddElement
  <2>2. Cardinality(InFlight') <= Cardinality(InFlight \cup {h}) /\ Cardinality(InFlight') \in Nat
    BY <1>4, <2>1, FS_Subset, FS_CardinalityType
  <2>3. \A g \in InFlight : dom'[g] = dom[g] /\ dom[g] # d
    BY <1>1, <1>4 DEF Flight, CertTypeOK
  <2>4. dom'[h] = d
    BY <1>1, <1>4 DEF CertTypeOK, Threads
  <2>5. OneLeader'
    BY <1>4, <2>3, <2>4 DEF CertInv, OneLeader
  <2>6. QED
    BY <1>1, <1>2, <1>4, <2>1, <2>2, <2>5, LimitsAssumption DEF CertInv
<1>5. QED
  BY <1>1, <1>3, <1>4, LeaderStep

\* The semaphore and the single-flight of fetchOnDemand bound the requests to
\* the control plane, whatever names the handshakes ask for.
THEOREM BoundedFetchesHolds == CertSpec => []BoundedFetches
<1>1. CertInit => CertInv
  <2> SUFFICES ASSUME CertInit PROVE CertInv
    OBVIOUS
  <2>1. InFlight = {}
    BY DEF CertInit, InFlight, Leading, Threads
  <2>2. QED
    BY <2>1, CertTypeInit, FS_EmptySet, LimitsAssumption DEF CertInv, OneLeader
<1>2. CertInv => BoundedFetches
  <2> SUFFICES ASSUME CertInv, NEW d \in Domains PROVE Cardinality(Flight(d)) <= 1
    BY DEF CertInv, BoundedFetches
  <2>1. CASE Flight(d) = {}
    BY <2>1, FS_EmptySet
  <2>2. ASSUME NEW h \in Flight(d) PROVE Cardinality(Flight(d)) = 1
    <3>1. Flight(d) = {h}
      BY <2>2 DEF CertInv, OneLeader, Flight
    <3>2. QED
      BY <3>1, FS_Singleton
  <2>3. QED
    BY <2>1, <2>2
<1>3. QED
  BY <1>1, <1>2, CertInvStep, PTL DEF CertSpec

-----------------------------------------------------------------------------
(***************************************************************************)
(* The rules, for any cluster content and any number of faults.            *)
(***************************************************************************)
\* The edge enforces the content whose ETag it sends, unless the last Update
\* was rejected in part: a 304 then hides nothing.
EtagServed == etag # Absent /\ ~dirty => Serves(etag)

PolicyInv == PolicyTypeOK /\ ClaimNotAtBoot /\ EtagServed

\* Content with one part replaced is content.
LEMMA ContentParts ==
    ASSUME NEW c \in Content
    PROVE  /\ c.rules \in [Parts -> Docs] /\ c.bind \in [Hosts -> Zones \cup {Absent}]
           /\ \A d \in Docs : [c EXCEPT !.rules["global"] = d] \in Content
           /\ \A f \in [Parts -> Docs] : [c EXCEPT !.rules = f] \in Content
           /\ \A b \in [Hosts -> Zones \cup {Absent}] : [c EXCEPT !.bind = b] \in Content
  BY DEF Content, Parts

\* What an edge may get is content.
LEMMA ScopedContent == ASSUME NEW c \in Content PROVE Scoped(c) \in Content
  BY ContentParts DEF Scoped, Content, Docs

\* The parts of a snapshot together are content.
LEMMA RestartContent ==
    ASSUME NEW c \in Content, NEW ok \in SUBSET Aspects
    PROVE  [k \in Aspects |-> IF k \in ok THEN c[k] ELSE Empty[k]] \in Content
<1> DEFINE r == [k \in Aspects |-> IF k \in ok THEN c[k] ELSE Empty[k]]
<1>1. Empty.rules \in [Parts -> Docs] /\ Empty.bind \in [Hosts -> Zones \cup {Absent}]
  BY DEF Empty, Docs
<1>2. r["rules"] \in [Parts -> Docs] /\ r["bind"] \in [Hosts -> Zones \cup {Absent}]
  BY <1>1, ContentParts DEF Aspects
<1>3. r = [rules |-> r["rules"], bind |-> r["bind"]]
  BY DEF Aspects
<1>4. QED
  BY <1>2, <1>3 DEF Content

\* The state of a new edge and a control plane that has loaded is well typed.
LEMMA PolicyTypeInit == PolicyInit => PolicyTypeOK
<1> SUFFICES ASSUME PolicyInit PROVE PolicyTypeOK
  OBVIOUS
<1>1. cluster \in Content
  BY ContentsAssumption DEF PolicyInit
<1>2. edge \in [rules : [Parts -> Valid \cup {Absent, Boot}], bind : [Hosts -> Zones \cup {Absent}]]
  BY DEF PolicyInit, Empty
<1>3. faults \in 0..MaxFaults /\ turns \in 0..MaxTurns
  BY TurnsAssumption DEF PolicyInit
<1>4. listed \in [Zones -> Docs]
  BY DEF PolicyInit, Docs
<1>5. QED
  BY <1>1, <1>2, <1>3, <1>4 DEF PolicyInit, PolicyTypeOK

\* The reloaders, the writes and the restarts of the control plane.
LEMMA PolicyReloadType ==
    ASSUME PolicyTypeOK,
           \/ \E c \in Contents : Write(c)
           \/ \E ok \in SUBSET Aspects : Restart(ok)
           \/ SetZones \/ \E k \in Aspects : Reload(k)
    PROVE  PolicyTypeOK'
<1>0. faults' \in 0..MaxFaults /\ turns' \in 0..MaxTurns
  <2>1. UNCHANGED <<faults, turns>> \/ (Turn /\ UNCHANGED faults) \/ FaultTurn
    BY DEF Write, Restart, SetZones, Reload, Watch, List, ListFails, Drain, Close, FaultTurn
  <2>2. QED
    BY <2>1, TurnsAssumption DEF PolicyTypeOK, Turn, FaultTurn
<1>1. ASSUME NEW c \in Contents, Write(c) PROVE PolicyTypeOK'
  BY <1>0, <1>1, ContentsAssumption DEF Write, PolicyTypeOK, streamVars, edgeVars
<1>2. ASSUME NEW ok \in SUBSET Aspects, Restart(ok) PROVE PolicyTypeOK'
  <2>1. stored' \in Content
    BY <1>2, RestartContent DEF Restart, PolicyTypeOK
  <2>2. sampled' \in Content \cup {Boot}
    BY <1>2, <2>1 DEF Restart
  <2>3. listed' \in [Zones -> Docs]
    BY <1>2 DEF Restart, Docs
  <2>4. QED
    BY <1>0, <1>2, <2>1, <2>2, <2>3 DEF Restart, PolicyTypeOK
<1>3. ASSUME NEW c \in Content, Recompute(c)
      PROVE  stored' \in Content /\ loaded' \in BOOLEAN /\ blink' \in BOOLEAN
  BY <1>3 DEF Recompute, PolicyTypeOK
<1>4. CASE SetZones
  <2>1. [p \in Parts |-> IF p \in Zones THEN listed[p] ELSE stored.rules[p]] \in [Parts -> Docs]
    BY ContentParts DEF PolicyTypeOK
  <2>2. [stored EXCEPT !.rules = [p \in Parts |-> IF p \in Zones THEN listed[p] ELSE @[p]]] \in Content
    BY <2>1, ContentParts DEF PolicyTypeOK
  <2>3. stored' \in Content /\ loaded' \in BOOLEAN /\ blink' \in BOOLEAN
    BY <1>3, <1>4, <2>2 DEF SetZones
  <2>4. listed' \in [Zones -> Docs]
    BY <1>4 DEF SetZones, Docs
  <2>5. QED
    BY <1>0, <1>4, <2>3, <2>4 DEF SetZones, PolicyTypeOK, streamVars, edgeVars
<1>5. ASSUME NEW k \in Aspects, List(k) PROVE PolicyTypeOK'
  <2>1. CASE k = "rules"
    <3>1. cluster.rules["global"] \in Docs /\ [q \in Zones |-> cluster.rules[q]] \in [Zones -> Docs]
      BY ContentParts DEF PolicyTypeOK, Parts
    <3>2. [stored EXCEPT !.rules["global"] = cluster.rules["global"]] \in Content
      BY <3>1, ContentParts DEF PolicyTypeOK
    <3>3. stored' \in Content /\ loaded' \in BOOLEAN /\ blink' \in BOOLEAN
      BY <1>3, <1>5, <2>1, <3>2 DEF List, Listed, SetGlobal
    <3>4. QED
      BY <1>0, <1>5, <2>1, <3>1, <3>3 DEF List, Listed, SetGlobal, PolicyTypeOK, streamVars, edgeVars, Aspects
  <2>2. CASE k = "bind"
    <3>1. [stored EXCEPT !.bind = cluster.bind] \in Content
      BY ContentParts DEF PolicyTypeOK
    <3>2. stored' \in Content /\ loaded' \in BOOLEAN /\ blink' \in BOOLEAN
      BY <1>3, <1>5, <2>2, <3>1 DEF List, Listed, SetIngressDerived
    <3>3. QED
      BY <1>0, <1>5, <2>2, <3>2 DEF List, Listed, SetIngressDerived, PolicyTypeOK, streamVars, edgeVars, Aspects
  <2>3. QED
    BY <2>1, <2>2 DEF Aspects
<1>6. ASSUME NEW k \in Aspects, Watch(k) \/ ListFails(k) \/ Drain(k) \/ Close(k) PROVE PolicyTypeOK'
  <2>1. /\ rpc' \in [Aspects -> {"connect", "list", "zones", "drain", "stale"}]
        /\ event' \in [Aspects -> BOOLEAN]
    BY <1>6 DEF Watch, ListFails, Drain, Close, PolicyTypeOK
  <2>2. UNCHANGED <<cluster, listed, stored, loaded, streamVars, poke, edgeVars, blink>>
    BY <1>6 DEF Watch, ListFails, Drain, Close
  <2>3. QED
    BY <1>0, <2>1, <2>2 DEF PolicyTypeOK, streamVars, edgeVars
<1>7. QED
  BY <1>1, <1>2, <1>4, <1>5, <1>6 DEF Reload

\* The event stream.
LEMMA PolicyStreamType ==
    ASSUME PolicyTypeOK, Sample \/ Cut \/ \E h \in Handlers : Stream(h) PROVE PolicyTypeOK'
<1> USE DEF PolicyTypeOK, cpVars, edgeVars
<1>1. Version \in Content \cup {Boot}
  BY DEF Version
<1>2. CASE Sample
  BY <1>1, <1>2 DEF Sample
<1>3. CASE Cut
  <2>1. faults' \in 0..MaxFaults /\ turns' \in 0..MaxTurns
    BY <1>3, TurnsAssumption DEF Cut, Turn, FaultTurn
  <2>2. QED
    BY <1>3, <2>1 DEF Cut
<1>4. ASSUME NEW h \in Handlers, Stream(h) PROVE PolicyTypeOK'
  <2>1. CASE Subscribe(h) \/ Cancel(h)
    BY <2>1 DEF Subscribe, Cancel
  <2>2. CASE SendCurrent(h) \/ Connected(h)
    BY <1>1, <2>2 DEF SendCurrent, Connected
  <2>3. CASE Receive(h)
    BY <2>3 DEF Receive
  <2>4. QED
    BY <1>4, <2>1, <2>2, <2>3 DEF Stream
<1>5. QED
  BY <1>2, <1>3, <1>4

\* The refresh loop: what the edge loads compiles.
LEMMA PolicyRefreshType == ASSUME PolicyTypeOK, Refresh PROVE PolicyTypeOK'
<1>1. CASE Tick \/ Poked \/ NotModified \/ FetchFails
  BY <1>1 DEF Tick, Poked, Start, NotModified, FetchFails, PolicyTypeOK, cpVars, streamVars
<1>2. CASE Update
  <2>1. Scoped(stored) \in Content
    BY ScopedContent DEF PolicyTypeOK
  <2>2. ASSUME NEW p \in Parts PROVE Load(p, Scoped(stored).rules[p]) \in Valid \cup {Absent, Boot}
    BY <2>1, ContentParts DEF Load, PolicyTypeOK, Docs
  <2>3. edge' \in [rules : [Parts -> Valid \cup {Absent, Boot}], bind : [Hosts -> Zones \cup {Absent}]]
    BY <1>2, <2>1, <2>2, ContentParts DEF Update, ApplySnapshot
  <2>4. etag' \in Content \cup {Absent} /\ claim' \in BOOLEAN /\ dirty' \in BOOLEAN
    BY <1>2, <2>1 DEF Update, ApplySnapshot, PolicyTypeOK
  <2>5. QED
    BY <1>2, <2>3, <2>4 DEF Update, ApplySnapshot, PolicyTypeOK, cpVars, streamVars
<1>3. QED
  BY <1>1, <1>2 DEF Refresh, Fetched

\* Every step keeps the variables in their types.
LEMMA PolicyTypeStep == ASSUME PolicyTypeOK, [PolicyNext]_policyVars PROVE PolicyTypeOK'
<1>1. CASE UNCHANGED policyVars
  BY <1>1 DEF policyVars, cpVars, streamVars, edgeVars, PolicyTypeOK
<1>2. QED
  BY <1>1, PolicyReloadType, PolicyStreamType, PolicyRefreshType DEF PolicyNext

\* Nothing but an Update touches what the edge enforces and says of it.
LEMMA OnlyUpdate == [PolicyNext]_policyVars => Update \/ UNCHANGED <<edge, claim, etag, dirty>>
  BY DEF PolicyNext, policyVars, Write, Restart, SetZones, Reload, Watch, List,
         ListFails, Drain, Close, Sample, Cut, Stream, Subscribe,
         SendCurrent, Connected, Receive, Cancel, Refresh, Tick, Poked,
         Start, Fetched, NotModified, FetchFails, edgeVars

\* Only a clean Update sets the claim, with a global document that compiles.
LEMMA ClaimStep == ASSUME PolicyInv, [PolicyNext]_policyVars PROVE ClaimNotAtBoot'
<1>1. CASE Update
  <2>1. Scoped(stored) \in Content
    BY ScopedContent DEF PolicyTypeOK, PolicyInv
  <2>2. /\ "global" \in Parts /\ Scoped(stored).rules["global"] \in Docs
        /\ edge'.rules["global"] = Load("global", Scoped(stored).rules["global"])
    BY <1>1, <2>1, ContentParts DEF Update, ApplySnapshot, Parts
  <2>3. CASE Clean(Scoped(stored))
    BY <2>2, <2>3, MarksAssumption DEF Clean, Load, ClaimNotAtBoot
  <2>4. CASE ~Clean(Scoped(stored))
    <3>1. UNCHANGED claim
      BY <1>1, <2>4 DEF Update
    <3>2. edge.rules["global"] # Boot => edge'.rules["global"] # Boot
      BY <2>2, ZonesAssumption, MarksAssumption DEF Load
    <3>3. QED
      BY <3>1, <3>2 DEF PolicyInv, ClaimNotAtBoot
  <2>5. QED
    BY <2>3, <2>4
<1>2. CASE UNCHANGED <<edge, claim>>
  BY <1>2 DEF PolicyInv, ClaimNotAtBoot
<1>3. QED
  BY <1>1, <1>2, OnlyUpdate

\* Only an Update changes what the edge enforces, and one that is clean sets
\* the ETag to what it has applied.
LEMMA EtagStep == ASSUME PolicyInv, [PolicyNext]_policyVars PROVE EtagServed'
<1>1. CASE Update /\ Clean(Scoped(stored))
  <2>1. /\ etag' = Scoped(stored) /\ edge'.bind = Scoped(stored).bind
        /\ \A p \in Parts : edge'.rules[p] = Scoped(stored).rules[p]
    BY <1>1 DEF Update, ApplySnapshot, Load, Clean
  <2>2. QED
    BY <2>1 DEF EtagServed, Serves
<1>2. CASE Update /\ ~Clean(Scoped(stored))
  BY <1>2 DEF Update, ApplySnapshot, EtagServed
<1>3. CASE UNCHANGED <<edge, etag, dirty>>
  BY <1>3 DEF PolicyInv, EtagServed, Serves
<1>4. QED
  BY <1>1, <1>2, <1>3, OnlyUpdate

\* What the edge's invariant establishes in every reachable state.
LEMMA PolicyInvariant == PolicySpec => []PolicyInv
<1>1. PolicyInit => PolicyInv
  BY PolicyTypeInit DEF PolicyInit, PolicyInv, ClaimNotAtBoot, EtagServed
<1>2. PolicyInv /\ [PolicyNext]_policyVars => PolicyInv'
  BY PolicyTypeStep, ClaimStep, EtagStep DEF PolicyInv
<1>3. QED
  BY <1>1, <1>2, PTL DEF PolicySpec

\* An edge never claims (ClaimStamp) to have checked a request against the
\* platform's rules while its global instance is the one it booted with.
THEOREM ClaimHolds == PolicySpec => []ClaimNotAtBoot
<1>1. PolicyInv => ClaimNotAtBoot
  BY DEF PolicyInv
<1>2. QED
  BY <1>1, PolicyInvariant, PTL

\* A 304 (handleWAF) tells an edge whose last Update was clean the truth: what
\* it enforces is the content with that ETag.
THEOREM EtagServedHolds == PolicySpec => []EtagServed
<1>1. PolicyInv => EtagServed
  BY DEF PolicyInv
<1>2. QED
  BY <1>1, PolicyInvariant, PTL
==============================================================================
