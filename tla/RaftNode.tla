------------------------------ MODULE RaftNode ------------------------------
(***************************************************************************)
(* One Raftra node: internal/raft (raft.go, election.go, replication.go,   *)
(* state.go) over the storage interface of internal/storage.               *)
(*                                                                         *)
(* Every handler of the code runs from Lock to Unlock of rn.mu, so it is   *)
(* an operator from a node's state, a record, to the state it leaves.  Two *)
(* fields of the record exist only while a handler runs:                   *)
(*   quota  how many more storage transactions succeed.  A transaction     *)
(*          with none left returns an error and changes nothing.  The      *)
(*          cluster module gives a handler less than MaxWrites to let the  *)
(*          process die, or the disk fail, in the middle of it;            *)
(*   out    the messages the handler sent: the answer it returned, or the  *)
(*          calls its goroutines place.                                    *)
(* The fields diskTerm, diskVote and log are the storage; all others are   *)
(* memory and are lost in a crash.                                         *)
(***************************************************************************)
EXTENDS Integers, Sequences, FiniteSets, FiniteSetsExt

CONSTANTS Node,                \* the members of the cluster (config.Peers and self)
          Command,             \* client commands, each proposed at most once
          None,                \* no vote, no known leader ("" in the code)
          NoOp,                \* the empty command of a new leader's first entry
          MaxEntriesPerAppend, \* maxEntriesPerAppend
          MaxRounds            \* bound: pre-vote rounds of one node alive at once

ASSUME NodeAssumption == IsFiniteSet(Node) /\ Node # {}
ASSUME NoneAssumption == None \notin Node /\ NoOp \notin Command
ASSUME BoundAssumption == /\ MaxEntriesPerAppend \in Nat \ {0}
                          /\ MaxRounds \in Nat \ {0}

Role == {"Follower", "Candidate", "Leader"}

Round == 1..MaxRounds

\* No handler makes more storage transactions than this (campaignLocked and
\* becomeLeader together make three).
MaxWrites == 4

Entry == [term : Nat, command : Command \cup {NoOp}]

\* What a channel of the waiting room holds: nothing yet, nil, or an error.
Delivery == {"empty", "nil", "ErrNotLeader"}

-----------------------------------------------------------------------------
(* Messages.  A call is one goroutine's RPC: it is first a request, then a   *)
(* response.  open is FALSE once the caller has crashed: *)
(* the request may still arrive, its answer goes nowhere.  A response keeps  *)
(* what the goroutine's closure remembers of the request.                    *)

VoteRequest == [type : {"PreVote", "RequestVote"}, caller : Node, peer : Node,
                open : BOOLEAN, term : Nat, round : Round,
                lastLogIndex : Nat, lastLogTerm : Nat]

VoteResponse == [type : {"PreVoteResponse", "RequestVoteResponse"},
                 caller : Node, peer : Node, reqTerm : Nat,
                 round : Round, term : Nat, granted : BOOLEAN]

AppendRequest == [type : {"AppendEntries"}, caller : Node, peer : Node,
                  open : BOOLEAN, term : Nat,
                  prevLogIndex : Nat, prevLogTerm : Nat,
                  entries : Seq(Entry), leaderCommit : Nat]

AppendResponse == [type : {"AppendEntriesResponse"}, caller : Node, peer : Node,
                   reqTerm : Nat, prevLogIndex : Nat,
                   numEntries : Nat, term : Nat, success : BOOLEAN]

Request == VoteRequest \cup AppendRequest
Response == VoteResponse \cup AppendResponse
Message == Request \cup Response

-----------------------------------------------------------------------------
(* The state of a node.                                                      *)

Vote == Node \cup {None}
Log == Seq(Entry)
Tally == [Round -> Nat]
Indexes == [Node -> Nat]
Applied == SUBSET (Nat \X Command)
Waiters == SUBSET Command
Registration == [Command -> Nat]
Deliveries == [Command -> Delivery]
Quota == 0..MaxWrites
Outbox == SUBSET Message

NodeState ==
    [role : Role, currentTerm : Nat, votedFor : Vote, leaderID : Vote,
     leaderContact : BOOLEAN,          \* lastLeaderContact is recent
     preVotes : Tally,                 \* votes per round, 0 once its answers are stale
     votesReceived : Nat,              \* 0 unless Candidate
     nextIndex : Indexes, matchIndex : Indexes,  \* 0 while leader = nil
     commitIndex : Nat, lastApplied : Nat,
     kv : Applied,                     \* commands applied, with their index
     pendingCommits : Waiters,         \* waiting room, c at key newIndex[c]
     newIndex : Registration,          \* of a blocked ProposeCommand, else 0
     commitCh : Deliveries,
     diskTerm : Nat, diskVote : Vote, log : Log,
     quota : Quota, out : Outbox]

NoRounds == [r \in Round |-> 0]
NoIndex == [j \in Node |-> 0]

\* The state NewRaftNode builds from the storage that n leaves behind.
NewRaftNode(n) ==
    [role |-> "Follower", currentTerm |-> n.diskTerm, votedFor |-> n.diskVote,
     leaderID |-> None, leaderContact |-> FALSE, preVotes |-> NoRounds,
     votesReceived |-> 0, nextIndex |-> NoIndex, matchIndex |-> NoIndex,
     commitIndex |-> 0, lastApplied |-> 0, kv |-> {}, pendingCommits |-> {},
     newIndex |-> [c \in Command |-> 0],
     commitCh |-> [c \in Command |-> "empty"],
     diskTerm |-> n.diskTerm, diskVote |-> n.diskVote, log |-> n.log,
     quota |-> MaxWrites, out |-> {}]

-----------------------------------------------------------------------------
(* Storage.  Each operation is one transaction.                              *)

CanWrite(n) == n.quota > 0

SaveTerm(n, t) ==
    IF CanWrite(n) THEN [n EXCEPT !.diskTerm = t, !.quota = @ - 1] ELSE n

SaveVotedFor(n, v) ==
    IF CanWrite(n) THEN [n EXCEPT !.diskVote = v, !.quota = @ - 1] ELSE n

AppendEntries(n, entries) ==
    IF CanWrite(n) THEN [n EXCEPT !.log = @ \o entries, !.quota = @ - 1] ELSE n

TruncateFrom(n, k) ==
    IF CanWrite(n) THEN [n EXCEPT !.log = SubSeq(@, 1, k - 1), !.quota = @ - 1]
                   ELSE n

LastIndex(n) == Len(n.log)

TermAt(n, k) == IF k \in 1..Len(n.log) THEN n.log[k].term ELSE 0

LastTerm(n) == TermAt(n, LastIndex(n))

-----------------------------------------------------------------------------
(* Terms and committing.                                                     *)

Majority == Cardinality(Node) \div 2 + 1

Peers(i) == Node \ {i}

\* The memory of a node that learns of term t: a follower without a vote, and
\* every proposal in the waiting room is told it lost its leader.
StepDown(n, t) ==
    [n EXCEPT !.currentTerm = t, !.votedFor = None, !.role = "Follower",
              !.votesReceived = 0, !.preVotes = NoRounds,
              !.nextIndex = NoIndex, !.matchIndex = NoIndex,
              !.commitCh = [c \in Command |-> IF c \in n.pendingCommits
                                              THEN "ErrNotLeader" ELSE @[c]],
              !.pendingCommits = {}]

\* Mutant: the vote is cleared on disk before the new term is saved.
CheckTermVoteFirst(n, t) ==
    IF t > n.currentTerm
    THEN SaveTerm(SaveVotedFor(StepDown(n, t), None), t)
    ELSE n

\* Mutant: the proposals of a deposed leader stay in the waiting room.
CheckTermKeepsPending(n, t) ==
    IF t > n.currentTerm
    THEN [SaveVotedFor(SaveTerm(StepDown(n, t), t), None)
             EXCEPT !.pendingCommits = n.pendingCommits, !.commitCh = n.commitCh]
    ELSE n

CheckTerm(n, t) ==
    IF t > n.currentTerm
    THEN SaveVotedFor(SaveTerm(StepDown(n, t), t), None)
    ELSE n

\* The loop of applyCommittedEntriesLocked: everything up to commitIndex is
\* applied, no-ops skipped, and each applied index wakes its waiter.
ApplyCommitted(n) ==
    LET applied == {k \in (n.lastApplied + 1)..n.commitIndex :
                        k <= Len(n.log) /\ n.log[k].command # NoOp}
        woken == {c \in n.pendingCommits : n.newIndex[c] \in applied}
    IN  [n EXCEPT !.lastApplied = IF @ < n.commitIndex THEN n.commitIndex ELSE @,
                  !.kv = @ \cup {<<k, n.log[k].command>> : k \in applied},
                  !.commitCh = [c \in Command |-> IF c \in woken THEN "nil" ELSE @[c]],
                  !.pendingCommits = @ \ woken]

\* Mutant: half of the cluster is taken for a majority.
ReplicatedByHalf(n, k) ==
    1 + Cardinality({j \in Node : n.matchIndex[j] >= k}) >= Cardinality(Node) \div 2

\* Whether a majority holds n's log up to index k, by the leader's matchIndex.
\* The leader counts itself.
Replicated(n, k) == 1 + Cardinality({j \in Node : n.matchIndex[j] >= k}) >= Majority

\* Mutant: entries of earlier terms are committed by counting replicas (the
\* case of section 5.4.2 of the Raft paper).
CheckAndUpdateCommitIndexAnyTerm(n) ==
    LET ready == {k \in (n.commitIndex + 1)..LastIndex(n) : Replicated(n, k)}
    IN  IF n.role # "Leader" THEN n
        ELSE ApplyCommitted([n EXCEPT !.commitIndex = IF ready = {} THEN @ ELSE Max(ready)])

CheckAndUpdateCommitIndex(n) ==
    LET ready == {k \in (n.commitIndex + 1)..LastIndex(n) :
                      TermAt(n, k) = n.currentTerm /\ Replicated(n, k)}
    IN  IF n.role # "Leader" THEN n
        ELSE ApplyCommitted([n EXCEPT !.commitIndex = IF ready = {} THEN @ ELSE Max(ready)])

-----------------------------------------------------------------------------
(* Sending AppendEntries.                                                    *)

\* The request for one peer.
AppendRequestTo(i, n, j) ==
    LET next == n.nextIndex[j]
        last == next + MaxEntriesPerAppend - 1
    IN  [type |-> "AppendEntries", caller |-> i, peer |-> j,
         open |-> TRUE, term |-> n.currentTerm,
         prevLogIndex |-> next - 1, prevLogTerm |-> TermAt(n, next - 1),
         entries |-> SubSeq(n.log, next, IF last < LastIndex(n) THEN last ELSE LastIndex(n)),
         leaderCommit |-> n.commitIndex]

\* sendAppendEntriesToPeerLocked, for every peer of js.  An index of 0 is
\* first raised to 1.
SendAppendEntries(i, n, js) ==
    LET m == [n EXCEPT !.nextIndex = [j \in Node |-> IF j \in js /\ @[j] = 0 THEN 1 ELSE @[j]]]
    IN  IF n.role # "Leader" THEN n
        ELSE [m EXCEPT !.out = @ \cup {AppendRequestTo(i, m, j) : j \in js}]

BroadcastAppendEntries(i, n) == SendAppendEntries(i, n, Peers(i))

-----------------------------------------------------------------------------
(* Elections.                                                                *)

\* The leader state of a node that has just won: nothing is known to match.
FreshLeader(i, n) ==
    [n EXCEPT !.role = "Leader", !.votesReceived = 0, !.preVotes = NoRounds,
              !.nextIndex = [j \in Node |-> IF j = i THEN 0 ELSE LastIndex(n) + 1],
              !.matchIndex = NoIndex]

NoOpEntry(n) == [term |-> n.currentTerm, command |-> NoOp]

\* Mutant: the no-op waits for an acknowledgement even if nobody can give one.
BecomeLeaderUncommitted(i, n) ==
    IF n.role # "Candidate" THEN n
    ELSE BroadcastAppendEntries(i, AppendEntries(FreshLeader(i, n), <<NoOpEntry(n)>>))

\* The winner appends a no-op of its term (a failed append is only logged) and
\* sends its first heartbeats.
BecomeLeader(i, n) ==
    IF n.role # "Candidate" THEN n
    ELSE BroadcastAppendEntries(i,
            CheckAndUpdateCommitIndex(AppendEntries(FreshLeader(i, n), <<NoOpEntry(n)>>)))

\* Mutant: the last index of a log that starts at zero.
VoteRequestsFromZero(i, n, type, term, r) ==
    {[type |-> type, caller |-> i, peer |-> j, open |-> TRUE,
      term |-> term, round |-> r,
      lastLogIndex |-> LastIndex(n) - 1, lastLogTerm |-> LastTerm(n)] : j \in Peers(i)}

VoteRequests(i, n, type, term, r) ==
    {[type |-> type, caller |-> i, peer |-> j, open |-> TRUE,
      term |-> term, round |-> r,
      lastLogIndex |-> LastIndex(n), lastLogTerm |-> LastTerm(n)] : j \in Peers(i)}

\* The memory of a node that stands for the next term and votes for itself.
Candidacy(i, n) ==
    [n EXCEPT !.currentTerm = @ + 1, !.role = "Candidate", !.votedFor = i,
              !.votesReceived = 1, !.preVotes = NoRounds,
              !.nextIndex = NoIndex, !.matchIndex = NoIndex]

\* Mutant: the term the node stands for is not saved.
CampaignTermUnsaved(i, n) ==
    LET m == SaveVotedFor(Candidacy(i, n), i)
    IN  IF Majority <= 1 THEN BecomeLeader(i, m)
        ELSE [m EXCEPT !.out = VoteRequests(i, m, "RequestVote", m.currentTerm, 1)]

\* campaignLocked: the real election.  One vote is a majority of a cluster of
\* one.
Campaign(i, n) ==
    LET m == SaveVotedFor(SaveTerm(Candidacy(i, n), n.currentTerm + 1), i)
    IN  IF Majority <= 1 THEN BecomeLeader(i, m)
        ELSE [m EXCEPT !.out = VoteRequests(i, m, "RequestVote", m.currentTerm, 1)]

\* startElection, once its guards have passed: pre-vote round r, or in a
\* cluster of one the campaign itself.
StartElection(i, n, r) ==
    IF Peers(i) = {} THEN Campaign(i, n)
    ELSE [n EXCEPT !.preVotes[r] = 1,
                   !.out = VoteRequests(i, n, "PreVote", n.currentTerm + 1, r)]

\* Mutant: a response is counted whatever term the vote was asked for.
HandleRequestVoteResponseAnyTerm(i, n, m) ==
    LET counted == [n EXCEPT !.votesReceived = @ + 1]
    IN  IF m.term > n.currentTerm THEN CheckTerm(n, m.term)
        ELSE IF n.role # "Candidate" \/ ~m.granted THEN n
        ELSE IF counted.votesReceived >= Majority THEN BecomeLeader(i, counted)
        ELSE counted

\* The goroutine of campaignLocked that has its answer.
HandleRequestVoteResponse(i, n, m) ==
    LET counted == [n EXCEPT !.votesReceived = @ + 1]
    IN  IF m.term > n.currentTerm THEN CheckTerm(n, m.term)
        ELSE IF n.role # "Candidate" \/ n.currentTerm # m.reqTerm \/ ~m.granted THEN n
        ELSE IF counted.votesReceived >= Majority THEN BecomeLeader(i, counted)
        ELSE counted

\* The goroutine of startElection that has its answer.  An answer is stale
\* when the term moved on or a leader made contact after the round started.
HandlePreVoteResponse(i, n, m) ==
    LET counted == [n EXCEPT !.preVotes[m.round] = @ + 1]
    IN  IF m.term > n.currentTerm THEN CheckTerm(n, m.term)
        ELSE IF \/ n.role = "Leader"
                \/ n.currentTerm + 1 # m.reqTerm
                \/ n.preVotes[m.round] = 0
                \/ ~m.granted
             THEN n
        ELSE IF counted.preVotes[m.round] >= Majority THEN Campaign(i, counted)
        ELSE counted

-----------------------------------------------------------------------------
(* Answering votes.                                                          *)

VoteReply(n, m, granted) ==
    [n EXCEPT !.out = IF ~m.open THEN {} ELSE
        {[type |-> IF m.type = "PreVote" THEN "PreVoteResponse" ELSE "RequestVoteResponse",
          caller |-> m.caller, peer |-> m.peer, reqTerm |-> m.term,
          round |-> m.round, term |-> n.currentTerm, granted |-> granted]}]

CandidateLogUpToDate(n, m) ==
    \/ m.lastLogTerm > LastTerm(n)
    \/ m.lastLogTerm = LastTerm(n) /\ m.lastLogIndex >= LastIndex(n)

\* Mutant: the vote is kept in memory only.
HandleRequestVoteUnsaved(n, m) ==
    LET voter == CheckTerm(n, m.term)
    IN  IF m.term < n.currentTerm THEN VoteReply(n, m, FALSE)
        ELSE IF voter.votedFor \in {None, m.caller} /\ CandidateLogUpToDate(voter, m)
        THEN VoteReply([voter EXCEPT !.votedFor = m.caller], m, TRUE)
        ELSE VoteReply(voter, m, FALSE)

HandleRequestVote(n, m) ==
    LET voter == CheckTerm(n, m.term)
    IN  IF m.term < n.currentTerm THEN VoteReply(n, m, FALSE)
        ELSE IF voter.votedFor \in {None, m.caller} /\ CandidateLogUpToDate(voter, m)
        THEN VoteReply(SaveVotedFor([voter EXCEPT !.votedFor = m.caller], m.caller), m, TRUE)
        ELSE VoteReply(voter, m, FALSE)

\* Mutant: a follower that hears from a leader grants pre-votes all the same.
HandlePreVoteDespiteLeader(n, m) ==
    VoteReply(n, m, /\ m.term > n.currentTerm
                    /\ n.role # "Leader"
                    /\ CandidateLogUpToDate(n, m))

\* handlePreVoteLocked: the node does not change.
HandlePreVote(n, m) ==
    VoteReply(n, m, /\ m.term > n.currentTerm
                    /\ n.role # "Leader" /\ ~n.leaderContact
                    /\ CandidateLogUpToDate(n, m))

-----------------------------------------------------------------------------
(* AppendEntries on the follower.                                            *)

AppendReply(n, m, success) ==
    [n EXCEPT !.out = IF ~m.open THEN {} ELSE
        {[type |-> "AppendEntriesResponse", caller |-> m.caller, peer |-> m.peer,
          reqTerm |-> m.term, prevLogIndex |-> m.prevLogIndex,
          numEntries |-> Len(m.entries), term |-> n.currentTerm, success |-> success]}]

\* Mutant: it is enough that some entry stands at prevLogIndex.
PrevMatchesIndexOnly(n, m) == m.prevLogIndex <= LastIndex(n)

PrevMatches(n, m) ==
    m.prevLogIndex > 0 => /\ m.prevLogIndex <= LastIndex(n)
                          /\ TermAt(n, m.prevLogIndex) = m.prevLogTerm

\* The positions in m.entries that the log lacks or contradicts.
Unstored(n, m) == {k \in 1..Len(m.entries) :
                      \/ m.prevLogIndex + k > LastIndex(n)
                      \/ TermAt(n, m.prevLogIndex + k) # m.entries[k].term}

\* The loop over req.Entries: from the first position that is missing or
\* conflicts, the log is cut (if there is something to cut) and the rest of
\* the batch appended.  A transaction that fails ends the loop; Unstored is
\* then not empty.
Reconcile(n, m) ==
    IF Unstored(n, m) = {} THEN n
    ELSE LET first == Min(Unstored(n, m))
             from == m.prevLogIndex + first
             rest == SubSeq(m.entries, first, Len(m.entries))
         IN  IF from > LastIndex(n) THEN AppendEntries(n, rest)
             ELSE IF CanWrite(n) THEN AppendEntries(TruncateFrom(n, from), rest)
             ELSE n

\* Mutant: the follower trusts leaderCommit beyond the entries it was sent.
FollowerCommitUncapped(n, m) ==
    IF m.leaderCommit > n.commitIndex
    THEN ApplyCommitted([n EXCEPT !.commitIndex = m.leaderCommit]) ELSE n

FollowerCommit(n, m) ==
    LET lastNew == m.prevLogIndex + Len(m.entries)
        new == IF lastNew < m.leaderCommit THEN lastNew ELSE m.leaderCommit
    IN  IF new > n.commitIndex THEN ApplyCommitted([n EXCEPT !.commitIndex = new]) ELSE n

\* Mutant: the leader is taken to be the node that got the vote.
AcceptLeaderVotedFor(n, m) ==
    LET f == CheckTerm(n, m.term)
    IN  [f EXCEPT !.role = IF @ = "Candidate" THEN "Follower" ELSE @,
                  !.votesReceived = 0, !.preVotes = NoRounds,
                  !.leaderID = n.votedFor, !.leaderContact = TRUE]

\* The node takes m's sender for the leader: the contact makes every pre-vote
\* round that was under way stale.
AcceptLeader(n, m) ==
    LET f == CheckTerm(n, m.term)
    IN  [f EXCEPT !.role = IF @ = "Candidate" THEN "Follower" ELSE @,
                  !.votesReceived = 0, !.preVotes = NoRounds,
                  !.leaderID = m.caller, !.leaderContact = TRUE]

\* Mutant: an AppendEntries of an earlier term is not refused.
HandleAppendEntriesAnyTerm(n, m) ==
    LET f == AcceptLeader(n, m)
        g == Reconcile(f, m)
    IN  IF ~PrevMatches(f, m) THEN AppendReply(f, m, FALSE)
        ELSE IF Unstored(g, m) # {} THEN AppendReply(g, m, FALSE)
        ELSE AppendReply(FollowerCommit(g, m), m, TRUE)

HandleAppendEntries(n, m) ==
    LET f == AcceptLeader(n, m)
        g == Reconcile(f, m)
    IN  IF m.term < n.currentTerm THEN AppendReply(n, m, FALSE)
        ELSE IF ~PrevMatches(f, m) THEN AppendReply(f, m, FALSE)
        ELSE IF Unstored(g, m) # {} THEN AppendReply(g, m, FALSE)
        ELSE AppendReply(FollowerCommit(g, m), m, TRUE)

-----------------------------------------------------------------------------
(* The leader's side.                                                        *)

\* Mutant: a success is taken for the whole log of the leader.
HandleAppendEntriesResponseWholeLog(i, n, m) ==
    LET j == m.peer
        last == LastIndex(n)
        advanced == [n EXCEPT !.nextIndex[j] = last + 1, !.matchIndex[j] = last]
        retreated == [n EXCEPT !.nextIndex[j] = @ - 1]
    IN  IF m.term > n.currentTerm THEN CheckTerm(n, m.term)
        ELSE IF n.role # "Leader" \/ n.currentTerm # m.reqTerm THEN n
        ELSE IF m.success THEN CheckAndUpdateCommitIndex(advanced)
        ELSE IF n.nextIndex[j] > 1 THEN SendAppendEntries(i, retreated, {j})
        ELSE n

\* Mutant: a refusal is repeated with the same nextIndex.
HandleAppendEntriesResponseNoRetreat(i, n, m) ==
    LET j == m.peer
        match == m.prevLogIndex + m.numEntries
        advanced == [n EXCEPT !.nextIndex[j] = IF match + 1 > @ THEN match + 1 ELSE @,
                              !.matchIndex[j] = IF match > @ THEN match ELSE @]
    IN  IF m.term > n.currentTerm THEN CheckTerm(n, m.term)
        ELSE IF n.role # "Leader" \/ n.currentTerm # m.reqTerm THEN n
        ELSE IF m.success THEN CheckAndUpdateCommitIndex(advanced)
        ELSE SendAppendEntries(i, n, {j})

\* The goroutine of sendAppendEntriesToPeerLocked that has its answer.
HandleAppendEntriesResponse(i, n, m) ==
    LET j == m.peer
        match == m.prevLogIndex + m.numEntries
        advanced == [n EXCEPT !.nextIndex[j] = IF match + 1 > @ THEN match + 1 ELSE @,
                              !.matchIndex[j] = IF match > @ THEN match ELSE @]
        retreated == [n EXCEPT !.nextIndex[j] = @ - 1]
    IN  IF m.term > n.currentTerm THEN CheckTerm(n, m.term)
        ELSE IF n.role # "Leader" \/ n.currentTerm # m.reqTerm THEN n
        ELSE IF m.success THEN CheckAndUpdateCommitIndex(advanced)
        ELSE IF n.nextIndex[j] > 1 THEN SendAppendEntries(i, retreated, {j})
        ELSE n

\* Mutant: a cluster of one takes the fast path before it has stored the entry.
ProposeCommandUnsaved(i, n, c) == IF Peers(i) = {} THEN ApplyCommitted(n) ELSE n

\* ProposeCommand on a leader, up to the point where it blocks.  A cluster of
\* one commits at once.  Registering at an index replaces what was there.
ProposeCommand(i, n, c) ==
    LET new == LastIndex(n) + 1
        m == AppendEntries(n, <<[term |-> n.currentTerm, command |-> c]>>)
    IN  IF ~CanWrite(n) THEN n
        ELSE IF Peers(i) = {} THEN ApplyCommitted([m EXCEPT !.commitIndex = new])
        ELSE BroadcastAppendEntries(i,
               [m EXCEPT !.pendingCommits = {d \in @ : n.newIndex[d] # new} \cup {c},
                         !.newIndex[c] = new, !.commitCh[c] = "empty"])

\* A blocked ProposeCommand ends: it returns what the channel holds.
ProposalReturns(n, c) == [n EXCEPT !.newIndex[c] = 0, !.commitCh[c] = "empty"]

\* The five-second timer won the select: whatever is registered at the
\* proposal's index is deleted.
ProposalTimesOut(n, c) ==
    [n EXCEPT !.pendingCommits = {d \in @ : n.newIndex[d] # n.newIndex[c]},
              !.newIndex[c] = 0, !.commitCh[c] = "empty"]
=============================================================================
