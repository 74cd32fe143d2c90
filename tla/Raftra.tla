------------------------------- MODULE Raftra -------------------------------
(***************************************************************************)
(* A Raftra cluster: the nodes of RaftNode, the calls between them         *)
(* (internal/transport/client.go), crashes, and the clients whose          *)
(* ProposeCommand is blocked on a leader.                                  *)
(*                                                                         *)
(* A step is one critical section of rn.mu.  The section either completes, *)
(* or the process dies in the middle of it, after some of its storage      *)
(* transactions and before it has sent anything.  A dead process restarts  *)
(* from its storage in the same step: a node that is down is one that      *)
(* takes no steps.  Calls may fail at any point and answers arrive in any  *)
(* order.                                                                  *)
(***************************************************************************)
EXTENDS RaftNode, SequencesExt

CONSTANTS MaxTerm,     \* bound: no node stands for a term above this
          MaxCrashes,  \* bound: crashes in a behaviour
          MaxVoteCalls,    \* bound: RequestVote calls under way at once
          MaxAppendCalls,  \* bound: AppendEntries calls under way at once
          FaultyDisk   \* whether storage transactions may return errors

ASSUME ClusterAssumption == /\ MaxTerm \in Nat /\ MaxCrashes \in Nat
                            /\ MaxVoteCalls \in Nat /\ MaxAppendCalls \in Nat
                            /\ FaultyDisk \in BOOLEAN

VARIABLES node,       \* the state of each node
          rpcs,       \* the calls under way
          outcome,    \* what the client of each command knows
          crashes,    \* crashes so far
          ballots,    \* history: every vote a node has held, with its term
          elected,    \* history: every leader, with its term
          committed   \* history: the longest log a leader has committed

vars == <<node, rpcs, outcome, crashes, ballots, elected, committed>>

Outcome == {"new", "waiting", "ok", "failed"}

Ballot == [voter : Node, term : Nat, candidate : Node]

EmptyDisk == [diskTerm |-> 0, diskVote |-> None, log |-> <<>>]

Init ==
    /\ node = [i \in Node |-> NewRaftNode(EmptyDisk)]
    /\ rpcs = {}
    /\ outcome = [c \in Command |-> "new"]
    /\ crashes = 0
    /\ ballots = {}
    /\ elected = {}
    /\ committed = <<>>

-----------------------------------------------------------------------------
(* The network.                                                              *)

IsAppend(m) == m.type \in {"AppendEntries", "AppendEntriesResponse"}

IsRequest(m) == m.type \in {"PreVote", "RequestVote", "AppendEntries"}

\* A handler's messages reach the network.  An answer takes the place of its
\* request; of the new calls some may fail at once, and those for which
\* the bounds leave no room do.
Send(net, out) ==
    \E calls \in SUBSET {m \in out : IsRequest(m)} :
        /\ Cardinality({m \in net \cup calls : IsAppend(m)}) <= MaxAppendCalls
        /\ Cardinality({m \in net \cup calls : ~IsAppend(m)}) <= MaxVoteCalls
        /\ rpcs' = net \cup calls \cup {m \in out : ~IsRequest(m)}

\* The goroutines of a dead node are gone.  What they asked may still arrive.
Orphan(net, i) ==
    {m \in net : m.caller # i}
        \cup {[m EXCEPT !.open = FALSE] : m \in {q \in net : IsRequest(q) /\ q.caller = i}}

-----------------------------------------------------------------------------
(* How a critical section of node i ends.                                    *)

CommittedLog(n) ==
    SubSeq(n.log, 1, IF n.commitIndex < LastIndex(n) THEN n.commitIndex ELSE LastIndex(n))

\* The history a node's new state adds.
Witness(i, n) ==
    /\ ballots' = IF n.votedFor = None THEN ballots
                  ELSE ballots \cup {[voter |-> i, term |-> n.currentTerm,
                                      candidate |-> n.votedFor]}
    /\ elected' = IF n.role = "Leader" THEN elected \cup {[term |-> n.currentTerm, leader |-> i]}
                  ELSE elected
    /\ committed' = IF n.role = "Leader" /\ n.commitIndex > Len(committed)
                    THEN CommittedLog(n) ELSE committed

Become(i, n) == node' = [node EXCEPT ![i] = n] /\ Witness(i, n)

\* Unlock: n is what the handler left, told what the clients then know.
Completes(i, n, handled, told) ==
    /\ Become(i, [n EXCEPT !.quota = MaxWrites, !.out = {}])
    /\ Send(rpcs \ handled, n.out)
    /\ outcome' = told
    /\ UNCHANGED crashes

\* The process dies and restarts from the storage n.  Its clients see the
\* connection break.
Dies(i, n, handled) ==
    /\ crashes < MaxCrashes
    /\ crashes' = crashes + 1
    /\ Become(i, NewRaftNode(n))
    /\ rpcs' = Orphan(rpcs \ handled, i)
    /\ outcome' = [c \in Command |-> IF node[i].newIndex[c] > 0 THEN "failed" ELSE outcome[c]]

\* The handler was run with w transactions left and reached n.  It was cut
\* short if it used them up.
Settles(i, w, n, handled, told) ==
    \/ (w = MaxWrites \/ FaultyDisk) /\ Completes(i, n, handled, told)
    \/ w < MaxWrites /\ n.quota = 0 /\ Dies(i, n, handled)

\* A handler can only be cut short by an error or a crash.
Quotas == IF FaultyDisk \/ crashes < MaxCrashes THEN 0..MaxWrites ELSE {MaxWrites}

With(i, w) == [node[i] EXCEPT !.quota = w]

-----------------------------------------------------------------------------
(* Actions.                                                                  *)

\* run, electionTimer.C: the deadline has passed since a leader's last contact.
\* Round ids are reused once no call of the round is left.
ElectionTimeout(i, r) ==
    /\ node[i].role # "Leader" /\ ~node[i].leaderContact
    /\ node[i].currentTerm < MaxTerm
    /\ ~\E m \in rpcs : /\ m.type \in {"PreVote", "PreVoteResponse"}
                        /\ m.caller = i /\ m.round = r
    /\ \E w \in Quotas : Settles(i, w, StartElection(i, With(i, w), r), {}, outcome)

\* run, heartbeatTimer.C: only a leader has something to do.
HeartbeatTimeout(i) ==
    Completes(i, BroadcastAppendEntries(i, node[i]), {}, outcome)

\* ElectionTimeoutMin has passed since the last AppendEntries of a leader.
LeaderContactExpires(i) ==
    /\ node[i].leaderContact
    /\ Completes(i, [node[i] EXCEPT !.leaderContact = FALSE], {}, outcome)

ReceivePreVote(m) ==
    /\ m.type = "PreVote"
    /\ Completes(m.peer, HandlePreVote(node[m.peer], m), {m}, outcome)

ReceiveRequestVote(m) ==
    /\ m.type = "RequestVote"
    /\ \E w \in Quotas :
          Settles(m.peer, w, HandleRequestVote(With(m.peer, w), m), {m}, outcome)

ReceiveAppendEntries(m) ==
    /\ m.type = "AppendEntries"
    /\ \E w \in Quotas :
          Settles(m.peer, w, HandleAppendEntries(With(m.peer, w), m), {m}, outcome)

ReceivePreVoteResponse(m) ==
    /\ m.type = "PreVoteResponse"
    /\ \E w \in Quotas :
          Settles(m.caller, w, HandlePreVoteResponse(m.caller, With(m.caller, w), m),
                  {m}, outcome)

ReceiveRequestVoteResponse(m) ==
    /\ m.type = "RequestVoteResponse"
    /\ \E w \in Quotas :
          Settles(m.caller, w, HandleRequestVoteResponse(m.caller, With(m.caller, w), m),
                  {m}, outcome)

ReceiveAppendEntriesResponse(m) ==
    /\ m.type = "AppendEntriesResponse"
    /\ \E w \in Quotas :
          Settles(m.caller, w, HandleAppendEntriesResponse(m.caller, With(m.caller, w), m),
                  {m}, outcome)

\* The transport returns an error (refused, broken or 100 ms passed): the
\* goroutine gives up.
CallFails(m) ==
    /\ rpcs' = rpcs \ {m}
    /\ UNCHANGED <<node, outcome, crashes, ballots, elected, committed>>

\* What the client of c knows when ProposeCommand reaches its select, or has
\* failed to append, or has committed c on its own.
Proposed(i, w, c) ==
    [outcome EXCEPT ![c] = IF w = 0 THEN "failed"
                           ELSE IF Peers(i) = {} THEN "ok" ELSE "waiting"]

\* On a node that is not the leader the call returns ErrNotLeader and changes
\* nothing.
Propose(i, c) ==
    /\ node[i].role = "Leader"
    /\ outcome[c] = "new"
    /\ \E w \in Quotas :
          Settles(i, w, ProposeCommand(i, With(i, w), c), {}, Proposed(i, w, c))

\* The select of ProposeCommand takes the channel.
ProposeReturns(i, c) ==
    /\ node[i].newIndex[c] > 0
    /\ node[i].commitCh[c] # "empty"
    /\ Completes(i, ProposalReturns(node[i], c), {},
          [outcome EXCEPT ![c] = IF node[i].commitCh[c] = "nil" THEN "ok" ELSE "failed"])

\* The select of ProposeCommand takes the timer, which it may do although the
\* channel is ready.
ProposeTimesOut(i, c) ==
    /\ node[i].newIndex[c] > 0
    /\ Completes(i, ProposalTimesOut(node[i], c), {}, [outcome EXCEPT ![c] = "failed"])

\* The process dies, or is stopped, between two critical sections.
Crash(i) == Dies(i, node[i], {})

Next ==
    \/ \E i \in Node : \/ \E r \in Round : ElectionTimeout(i, r)
                       \/ HeartbeatTimeout(i)
                       \/ LeaderContactExpires(i)
                       \/ Crash(i)
    \/ \E m \in rpcs : \/ ReceivePreVote(m)
                       \/ ReceiveRequestVote(m)
                       \/ ReceiveAppendEntries(m)
                       \/ ReceivePreVoteResponse(m)
                       \/ ReceiveRequestVoteResponse(m)
                       \/ ReceiveAppendEntriesResponse(m)
                       \/ CallFails(m)
    \/ \E i \in Node, c \in Command : \/ Propose(i, c)
                                      \/ ProposeReturns(i, c)
                                      \/ ProposeTimesOut(i, c)

Spec == Init /\ [][Next]_vars

-----------------------------------------------------------------------------
(* Properties.                                                               *)

Elected == [term : Nat, leader : Node]

\* Every variable, field and message has its type.  Between two critical
\* sections nothing is left in a node's outbox.
TypeOK ==
    /\ node \in [Node -> NodeState]
    /\ \A i \in Node : node[i].quota = MaxWrites /\ node[i].out = {}
    /\ rpcs \subseteq Message
    /\ outcome \in [Command -> Outcome]
    /\ crashes \in 0..MaxCrashes
    /\ ballots \subseteq Ballot
    /\ elected \subseteq Elected
    /\ committed \in Log

\* HandleRequestVote and campaignLocked: over its whole life, crashes in the
\* middle of checkTerm included, a node holds at most one vote in a term.
OneVotePerTerm ==
    \A a, b \in ballots : a.voter = b.voter /\ a.term = b.term => a = b

\* becomeLeader: at most one node is ever the leader of a term.
ElectionSafety ==
    \A a, b \in elected : a.term = b.term => a = b

\* HandleRequestVote saves the vote before it answers: a granted vote that is
\* still on its way is on the voter's disk, or the voter's disk is past the
\* term of the vote.
VoteDurable ==
    \A m \in rpcs : m.type = "RequestVoteResponse" /\ m.granted =>
        LET v == node[m.peer]
        IN  \/ v.diskTerm > m.reqTerm
            \/ v.diskTerm = m.reqTerm /\ v.diskVote = m.caller

\* checkTerm and campaignLocked save the term before anyone hears of it: no
\* step, not even a crash, takes a node back to an earlier term.
TermNeverDecreases ==
    [][\A i \in Node : node'[i].currentTerm >= node[i].currentTerm]_vars

-----------------------------------------------------------------------------
(* Why elections are safe: the inductive invariant behind OneVotePerTerm,    *)
(* VoteDurable and ElectionSafety (proved in RaftraProofs).                  *)

VoteCall(m) == m.type \in {"RequestVote", "RequestVoteResponse"}

CallTerm(m) == IF m.type = "RequestVote" THEN m.term ELSE m.reqTerm

SameCall(k, m) == k.caller = m.caller /\ k.peer = m.peer /\ CallTerm(k) = CallTerm(m)

\* The nodes that ever voted for i in term t.
Supporters(i, t) == {j \in Node : [voter |-> j, term |-> t, candidate |-> i] \in ballots}

\* Those of them from which candidate i expects no answer any more.
Answered(i) ==
    {j \in Supporters(i, node[i].currentTerm) :
        ~\E m \in rpcs : /\ VoteCall(m) /\ m.caller = i /\ m.peer = j
                         /\ CallTerm(m) = node[i].currentTerm}

\* Between two critical sections the disk holds the term and vote of memory.
Saved == \A i \in Node : /\ node[i].diskTerm = node[i].currentTerm
                         /\ node[i].diskVote = node[i].votedFor

\* No vote is from the future, and one of the current term is the vote held.
VotesHeld == \A b \in ballots :
                /\ b.term <= node[b.voter].currentTerm
                /\ b.term = node[b.voter].currentTerm => b.candidate = node[b.voter].votedFor

BallotInv == Saved /\ VotesHeld /\ OneVotePerTerm

\* A node asks each other node for its vote at most once in a term, and a
\* granted answer stands for a vote that was held.
CallsSound ==
    /\ \A m \in rpcs : VoteCall(m) => /\ m.peer # m.caller
                                      /\ CallTerm(m) <= node[m.caller].currentTerm
    /\ \A m \in rpcs : m.type = "RequestVoteResponse" /\ m.granted
                      => m.peer \in Supporters(m.caller, m.reqTerm)
    /\ \A k, m \in rpcs : VoteCall(k) /\ VoteCall(m) /\ SameCall(k, m) => k = m

\* campaignLocked's goroutines: the counter of a candidate never exceeds the
\* number of distinct nodes that voted for it and whose answer is in, although
\* it is a mere number that late, lost and repeated answers could inflate.
TallySound ==
    \A i \in Node : node[i].role = "Candidate" => node[i].votesReceived <= Cardinality(Answered(i))

\* Whoever leads was elected, by a majority.
LeadersElected ==
    /\ \A i \in Node : node[i].role = "Leader" => [term |-> node[i].currentTerm, leader |-> i] \in elected
    /\ \A e \in elected : Cardinality(Supporters(e.leader, e.term)) >= Majority

\* campaignLocked, HandleRequestVote and becomeLeader, step by step: votes and
\* terms are saved and never taken back, each candidate asks a node once per
\* term, counts no vote twice, and leads only with a majority behind it.
ElectionInv == BallotInv /\ CallsSound /\ TallySound /\ LeadersElected

-----------------------------------------------------------------------------
\* HandleAppendEntries: two logs with an entry of the same term at an index
\* are the same up to it.
LogMatching ==
    \A i, j \in Node :
        \A k \in 1..Len(node[i].log) :
            k <= Len(node[j].log) /\ node[i].log[k].term = node[j].log[k].term
            => SubSeq(node[i].log, 1, k) = SubSeq(node[j].log, 1, k)

\* The election restriction of HandleRequestVote applied to a log.
AtLeastUpToDate(i, j) ==
    CandidateLogUpToDate(node[j], [lastLogIndex |-> LastIndex(node[i]),
                                   lastLogTerm |-> LastTerm(node[i])])

\* A majority could vote for i.
Electable(i) ==
    Cardinality({j \in Node : AtLeastUpToDate(i, j)}) >= Majority

\* checkAndUpdateCommitIndexLocked with the election restriction: whoever can
\* win an election has every entry that a leader ever committed.
LeaderCompleteness ==
    \A i \in Node : Electable(i) => IsPrefix(committed, node[i].log)

\* ProposeCommand: a write that a client was told is committed is in the log
\* of every node that can win an election.
AckedDurable ==
    \A c \in Command : outcome[c] = "ok" =>
        \A i \in Node : Electable(i) =>
            \E k \in 1..Len(node[i].log) : node[i].log[k].command = c

\* applyCommittedEntriesLocked: each node has applied exactly the commands of
\* the committed log up to its lastApplied, each at its place.
StateMachineSafety ==
    \A i \in Node :
        node[i].kv = {<<k, committed[k].command>> :
                         k \in {l \in 1..node[i].lastApplied :
                                   l <= Len(committed) /\ committed[l].command # NoOp}}

\* sendAppendEntriesToPeerLocked's response handler: while a peer is in the
\* leader's term it holds what matchIndex claims, whatever calls were lost,
\* repeated or answered late.
MatchIndexSound ==
    \A i, j \in Node :
        node[i].role = "Leader" /\ node[j].currentTerm = node[i].currentTerm =>
            /\ node[i].matchIndex[j] <= LastIndex(node[j])
            /\ IsPrefix(SubSeq(node[i].log, 1, node[i].matchIndex[j]), node[j].log)

\* ProposeCommand, checkTerm and applyCommittedEntriesLocked: what is in the
\* waiting room belongs to a blocked call of this leader, whose entry stands at
\* the index and is not applied yet, and the channel is empty, so that neither
\* send, made while rn.mu is held, can block.
WaitingRoomSound ==
    \A i \in Node : \A c \in node[i].pendingCommits :
        LET k == node[i].newIndex[c]
        IN  /\ node[i].role = "Leader"
            /\ k \in (node[i].lastApplied + 1)..LastIndex(node[i])
            /\ node[i].log[k] = [term |-> node[i].currentTerm, command |-> c]
            /\ node[i].commitCh[c] = "empty"

\* HandleAppendEntries: a leader never cuts or rewrites its own log while it
\* stays the leader.
LeaderAppendOnly ==
    [][\A i \in Node :
          node[i].role = "Leader" /\ node'[i].role = "Leader"
          => IsPrefix(node[i].log, node'[i].log)]_vars

\* The promise, as the state of the cluster shows it.
Promise == INSTANCE ReplicatedLog
             WITH chosen <- [k \in 1..Len(committed) |-> committed[k].command],
                  applied <- [i \in Node |-> node[i].lastApplied],
                  store <- [i \in Node |-> node[i].kv],
                  acked <- {c \in Command : outcome[c] = "ok"}

\* checkAndUpdateCommitIndexLocked, applyCommittedEntriesLocked and
\* ProposeCommand implement ReplicatedLog: one log that only grows, of which
\* every node applies a prefix and every acknowledged write is part.
Refinement == Promise!Spec

\* Who leads, as the state of the cluster shows it.
Leaders == INSTANCE Leadership
             WITH term <- [i \in Node |-> node[i].currentTerm],
                  leads <- {i \in Node : node[i].role = "Leader"},
                  leaderID <- [i \in Node |-> node[i].leaderID]

\* checkTerm, campaignLocked, becomeLeader and HandleAppendEntries implement
\* Leadership: a term has one leader, no node goes back to an earlier term or
\* follows a node that was not elected in the term it is in.
LeadershipPromise == Leaders!Spec
=============================================================================
