------------------------------ MODULE LogStore ------------------------------
(***************************************************************************)
(* A node's log as it is stored: the log bucket of internal/storage/       *)
(* bbolt_store.go, a map from big-endian keys to entries, and the slice    *)
(* rn.persistent.Log that the node keeps beside it.  The slice is treated  *)
(* exactly as the entries of internal/storage/memory_store.go are, the     *)
(* backend that the unit tests of the consensus code run on.               *)
(*                                                                         *)
(* RaftNode takes the log for a sequence whose k-th element is the entry   *)
(* of index k.  This module is where that is checked: nothing in the code  *)
(* of the bucket makes the indexes consecutive or keeps the sentinel.      *)
(***************************************************************************)
EXTENDS Integers, Sequences, FiniteSets, SequencesExt, FiniteSetsExt

CONSTANTS Base,      \* the values of a byte
          Width,     \* the bytes of a key (8 in the code)
          MaxIndex,  \* bound: the longest log
          MaxTerm    \* bound: the highest term of an entry

\* What the d-th lowest byte of a number counts, d starting at 0: Base ^ d.
Place[d \in 0..Width] == IF d = 0 THEN 1 ELSE Base * Place[d - 1]

ASSUME StoreAssumption == /\ Base \in Nat \ {0, 1} /\ Width \in Nat \ {0}
                          /\ MaxIndex \in Nat /\ MaxIndex + 1 < Place[Width]
                          /\ MaxTerm \in Nat

VARIABLES bucket,  \* the log bucket: what survives a crash
          slice,   \* rn.persistent.Log, sentinel first; <<>> while the node is down
          up       \* whether the node runs

vars == <<bucket, slice, up>>

Sentinel == [index |-> 0, term |-> 0]

-----------------------------------------------------------------------------
(* Keys.  bbolt orders them as byte strings.                                 *)

\* Mutant: the least significant byte first.
LittleEndian(n) == [d \in 1..Width |-> (n \div Place[d - 1]) % Base]

uint64ToBytes(n) == [d \in 1..Width |-> (n \div Place[Width - d]) % Base]

bytesToUint64(b) ==
    LET value[d \in 0..Width] == IF d = 0 THEN 0 ELSE Base * value[d - 1] + b[d]
    IN  value[Width]

\* bytes.Compare, for keys of one length.
Before(a, b) == \E d \in 1..Width : a[d] < b[d] /\ \A e \in 1..(d - 1) : a[e] = b[e]

-----------------------------------------------------------------------------
(* bbolt_store.go.                                                           *)

\* What a cursor meets from key k on, in the order of the keys.
Scan(b, k) ==
    LET met == {l \in DOMAIN b : ~Before(l, k)}
    IN  [p \in 1..Cardinality(met) |->
            CHOOSE l \in met : Cardinality({j \in met : Before(j, l)}) = p - 1]

Values(b, keys) == [l \in DOMAIN keys |-> b[keys[l]]]

\* bucket.Put, once per entry: a key that is there is overwritten.
AppendEntries(b, entries) ==
    LET put == {uint64ToBytes(entries[l].index) : l \in DOMAIN entries}
    IN  [k \in DOMAIN b \cup put |->
            IF k \in put THEN entries[Max({l \in DOMAIN entries :
                                             uint64ToBytes(entries[l].index) = k})]
            ELSE b[k]]

Found(b, index) == uint64ToBytes(index) \in DOMAIN b

GetEntry(b, index) == b[uint64ToBytes(index)]

GetEntriesFrom(b, index) == Values(b, Scan(b, uint64ToBytes(index)))

\* Mutant: only the conflicting entry is deleted.
TruncateOne(b, index) == [k \in DOMAIN b \ {uint64ToBytes(index)} |-> b[k]]

TruncateFrom(b, index) ==
    [k \in DOMAIN b \ ToSet(Scan(b, uint64ToBytes(index))) |-> b[k]]

LoadAllEntries(b) == GetEntriesFrom(b, 0)

LastIndex(b) == LET keys == Scan(b, uint64ToBytes(0))
                IN  IF keys = <<>> THEN 0 ELSE bytesToUint64(Last(keys))

LastTerm(b) == LET all == LoadAllEntries(b)
               IN  IF all = <<>> THEN 0 ELSE Last(all).term

\* Mutant: an empty log is left empty.
NewBboltStoreBare(b) == b

\* Opening the database puts the sentinel if it is not there.
NewBboltStore(b) == IF Found(b, 0) THEN b ELSE AppendEntries(b, <<Sentinel>>)

-----------------------------------------------------------------------------
(* memory_store.go, and what the node does to rn.persistent.Log.             *)

NewMemoryStore == <<Sentinel>>

SliceAppendEntries(s, entries) == s \o entries

SliceTruncateFrom(s, index) == IF index < Len(s) THEN SubSeq(s, 1, index) ELSE s

SliceFound(s, index) == index < Len(s)

SliceGetEntry(s, index) == s[index + 1]

SliceGetEntriesFrom(s, index) == IF index >= Len(s) THEN <<>> ELSE SubSeq(s, index + 1, Len(s))

SliceLastIndex(s) == Len(s) - 1

SliceLastTerm(s) == IF s = <<>> THEN 0 ELSE Last(s).term

-----------------------------------------------------------------------------
(* The two places that write the log.  n is a record of the bucket and the   *)
(* slice, and of quota, the number of transactions that still succeed: a     *)
(* transaction that fails is rolled back and its caller returns.             *)

\* The bucket, and only then the slice, takes the entries.
Store(n, entries) ==
    IF n.quota = 0 THEN n
    ELSE [bucket |-> AppendEntries(n.bucket, entries), slice |-> SliceAppendEntries(n.slice, entries),
          quota |-> n.quota - 1]

\* becomeLeader and ProposeCommand: one entry behind the last.
LeaderAppend(n, t) == Store(n, <<[index |-> LastIndex(n.bucket) + 1, term |-> t]>>)

PrevMatches(n, m) ==
    m.prevLogIndex > 0 => /\ Found(n.bucket, m.prevLogIndex)
                          /\ GetEntry(n.bucket, m.prevLogIndex).term = m.prevLogTerm

Unstored(n, m) ==
    {k \in 1..Len(m.entries) :
        LET index == m.prevLogIndex + k
        IN  ~Found(n.bucket, index) \/ GetEntry(n.bucket, index).term # m.entries[k].term}

\* Mutant: the slice is cut only together with the append that follows.
CutSliceLate(n, index) ==
    IF n.quota = 0 THEN n
    ELSE [bucket |-> TruncateFrom(n.bucket, index),
          slice |-> IF n.quota = 1 THEN n.slice ELSE SliceTruncateFrom(n.slice, index),
          quota |-> n.quota - 1]

Cut(n, index) ==
    IF n.quota = 0 THEN n
    ELSE [bucket |-> TruncateFrom(n.bucket, index),
          slice |-> SliceTruncateFrom(n.slice, index),
          quota |-> n.quota - 1]

\* The loop over req.Entries in HandleAppendEntries.
Reconcile(n, m) ==
    LET first == Min(Unstored(n, m))
        from == m.prevLogIndex + first
        rest == SubSeq(m.entries, first, Len(m.entries))
    IN  IF ~PrevMatches(n, m) \/ Unstored(n, m) = {} THEN n
        ELSE IF ~Found(n.bucket, from) THEN Store(n, rest)
        ELSE Store(Cut(n, from), rest)

-----------------------------------------------------------------------------
\* Batches as a leader's GetEntriesFrom builds them: the indexes follow on
\* prevLogIndex and the terms do not fall.
Batch == {m \in [prevLogIndex : 0..MaxIndex, prevLogTerm : 0..MaxTerm,
                 terms : UNION {[1..k -> 1..MaxTerm] : k \in 0..2}] :
            /\ m.prevLogIndex = 0 <=> m.prevLogTerm = 0
            /\ m.prevLogIndex + Len(m.terms) <= MaxIndex
            /\ \A k \in DOMAIN m.terms :
                  /\ m.prevLogTerm <= m.terms[k]
                  /\ k > 1 => m.terms[k - 1] <= m.terms[k]}

Request(m) == [prevLogIndex |-> m.prevLogIndex, prevLogTerm |-> m.prevLogTerm,
               entries |-> [k \in DOMAIN m.terms |-> [index |-> m.prevLogIndex + k,
                                                      term |-> m.terms[k]]]]

Quota == 0..2

With(w) == [bucket |-> bucket, slice |-> slice, quota |-> w]

\* A handler returns, or the process dies at its end or after the last
\* transaction that was made.
Ends(n) ==
    /\ bucket' = n.bucket
    /\ \/ slice' = n.slice /\ up' = TRUE
       \/ slice' = <<>> /\ up' = FALSE

Init == bucket = [k \in {} |-> Sentinel] /\ slice = <<>> /\ up = FALSE

\* The database is opened and NewRaftNode loads the log.
Open == /\ ~up
        /\ bucket' = NewBboltStore(bucket)
        /\ slice' = LoadAllEntries(bucket')
        /\ up' = TRUE

Lead(t) == /\ up /\ LastTerm(bucket) <= t /\ LastIndex(bucket) < MaxIndex
           /\ \E w \in Quota : Ends(LeaderAppend(With(w), t))

Follow(m) == up /\ \E w \in Quota : Ends(Reconcile(With(w), Request(m)))

Next == \/ Open
        \/ \E t \in 1..MaxTerm : Lead(t)
        \/ \E m \in Batch : Follow(m)

Spec == Init /\ [][Next]_vars

-----------------------------------------------------------------------------
(* Properties.                                                               *)

\* AppendEntries, TruncateFrom and the cursor: whatever transactions failed and
\* wherever the process died, a cursor meets the sentinel and then the entries
\* 1, 2, 3, ... without a gap, their terms never falling.
LogDense ==
    LET all == LoadAllEntries(bucket)
    IN  /\ up => Len(all) > 0
        /\ \A k \in 1..Len(all) : /\ all[k].index = k - 1
                                  /\ GetEntry(bucket, k - 1) = all[k]
                                  /\ k > 1 => all[k - 1].term <= all[k].term
        /\ Len(all) > 0 => all[1] = Sentinel

\* memory_store.go against bbolt_store.go: while the node runs, the slice and
\* the bucket hold the same log, and every query of the one backend gives what
\* it gives on the other, beyond the ends of the log too.
BackendsAgree ==
    up => /\ LoadAllEntries(bucket) = slice /\ IsPrefix(NewMemoryStore, slice)
          /\ LastIndex(bucket) = SliceLastIndex(slice)
          /\ LastTerm(bucket) = SliceLastTerm(slice)
          /\ \A k \in 0..(MaxIndex + 1) :
                /\ Found(bucket, k) <=> SliceFound(slice, k)
                /\ Found(bucket, k) => GetEntry(bucket, k) = SliceGetEntry(slice, k)
                /\ GetEntriesFrom(bucket, k) = SliceGetEntriesFrom(slice, k)

\* The node of RaftNode, whose log is a sequence.
N == INSTANCE RaftNode WITH Node <- {"n"}, Command <- {}, None <- "none", NoOp <- "noop",
                            MaxEntriesPerAppend <- 1, MaxRounds <- 1

\* The sequence that a bucket stands for.
LogOf(entries) == [k \in 1..Len(entries) |-> [term |-> entries[k].term, command |-> "noop"]]

Sequence(b) == LogOf(Tail(LoadAllEntries(b)))

\* HandleAppendEntries and the storage: in every reachable state, for every
\* batch and however many transactions succeed, the bucket ends as the sequence
\* of RaftNode does; and RaftNode's queries are the bucket's.
SequenceFaithful ==
    up => \A m \in Batch, w \in Quota :
            LET r == Request(m)
                seq == [log |-> Sequence(bucket), quota |-> w]
                req == [r EXCEPT !.entries = LogOf(@)]
                done == IF N!PrevMatches(seq, req) THEN N!Reconcile(seq, req) ELSE seq
            IN  /\ PrevMatches(With(w), r) <=> N!PrevMatches(seq, req)
                /\ Sequence(Reconcile(With(w), r).bucket) = done.log
                /\ LastIndex(bucket) = N!LastIndex(seq) /\ LastTerm(bucket) = N!LastTerm(seq)
=============================================================================
