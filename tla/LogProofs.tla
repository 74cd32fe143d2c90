----------------------------- MODULE LogProofs ------------------------------
(***************************************************************************)
(* The logs of a cluster of any size are safe, whatever calls are lost,    *)
(* delayed or answered out of order and wherever processes crash, as long  *)
(* as storage transactions do not return errors.                           *)
(***************************************************************************)
EXTENDS ReplicationProofs

-----------------------------------------------------------------------------
(* What the handlers of an election do to the log.                           *)

\* The vote requests of r carry r's own log.
Asks(r) ==
    \A k \in r.out : k.type = "RequestVote" =>
        k.lastLogIndex = LastIndex(r) /\ k.lastLogTerm = LastTerm(r)

\* Candidate c, which n has become, is about to lead: it has n's log, and its
\* term is on disk unless the process died before.
Winner(n, c) ==
    /\ c \in NodeState /\ c.role = "Candidate" /\ c.log = n.log /\ SameCommit(n, c)
    /\ c.out = {}
    /\ n.quota = MaxWrites => CanWrite(c)
    /\ CanWrite(c) => c.diskTerm = c.currentTerm

\* Node n, in a cluster of one, won the next term.
WinsAlone(i, n, r) ==
    /\ Majority <= 1
    /\ \E c \in NodeState : /\ Winner(n, c) /\ c.currentTerm = n.currentTerm + 1
                            /\ CanWrite(c) => c.diskVote = i
                            /\ r = BecomeLeader(i, c)

\* What a pre-vote round or a campaign does.
Elects(i, n, r) == (Still(n, r) /\ NoAppends(r) /\ Asks(r)) \/ WinsAlone(i, n, r)

\* campaignLocked leaves the log as it is, or makes the only node the leader.
LEMMA CampaignElects ==
    ASSUME NEW n \in NodeState, NEW i \in Node, IsSaved(n), n.out = {}
    PROVE  Elects(i, n, Campaign(i, n))
  <1>. DEFINE t == n.currentTerm + 1
              c == Candidacy(i, n)
              s == SaveTerm(c, t)
              v == SaveVotedFor(s, i)
              calls == VoteRequests(i, v, "RequestVote", v.currentTerm, 1)
              asked == [v EXCEPT !.out = calls]
  <1>0. n.quota \in 0..4 /\ n.currentTerm \in Nat /\ t \in Nat /\ i \in Vote
    BY ConstantType DEF NodeState, Quota, MaxWrites
  <1>1. /\ c.currentTerm = t /\ c.role = "Candidate" /\ c.quota = n.quota /\ c.out = {}
        /\ c.log = n.log /\ SameCommit(n, c)
    BY DEF Candidacy, NodeState, SameCommit
  <1>2. c \in NodeState /\ s \in NodeState /\ v \in NodeState
    <2>1. c \in NodeState
      BY <1>0, ConstantType DEF Candidacy, NodeState
    <2>2. s \in NodeState
      BY <1>0, <2>1, SaveType
    <2>. HIDE DEF s
    <2>. QED BY <1>0, <2>1, <2>2, SaveType
  <1>. HIDE DEF c
  <1>3. /\ s.currentTerm = t /\ s.role = "Candidate" /\ s.out = {}
        /\ s.log = n.log /\ SameCommit(n, s)
        /\ n.quota = 0 => s.quota = 0
        /\ n.quota > 0 => s.diskTerm = t /\ s.quota = n.quota - 1
    BY <1>0, <1>1, <1>2 DEF SaveTerm, CanWrite, NodeState, SameCommit
  <1>. HIDE DEF s
  <1>4. /\ v.currentTerm = t /\ v.role = "Candidate" /\ v.out = {}
        /\ v.log = n.log /\ SameCommit(n, v)
        /\ s.quota = 0 => v.quota = 0
        /\ s.quota > 0 => v.diskVote = i /\ v.diskTerm = s.diskTerm /\ v.quota = s.quota - 1
    BY <1>0, <1>2, <1>3 DEF SaveVotedFor, CanWrite, NodeState, SameCommit
  <1>. HIDE DEF v
  <1>5. /\ n.quota = MaxWrites => CanWrite(v)
        /\ CanWrite(v) => v.diskTerm = v.currentTerm /\ v.diskVote = i
    BY <1>0, <1>3, <1>4 DEF MaxWrites, CanWrite
  <1>6. Winner(n, v)
    BY <1>2, <1>4, <1>5 DEF Winner
  <1>7. /\ asked.log = v.log /\ SameCommit(v, asked) /\ asked.role = "Candidate"
        /\ asked.out = calls
    <2>. HIDE DEF calls
    <2>. QED BY <1>2, <1>4 DEF NodeState, SameCommit
  <1>8. /\ \A m \in calls : /\ m.type = "RequestVote"
                            /\ m.lastLogIndex = LastIndex(v) /\ m.lastLogTerm = LastTerm(v)
    BY DEF VoteRequests
  <1>. HIDE DEF asked, calls
  <1>9. LastIndex(asked) = LastIndex(v) /\ LastTerm(asked) = LastTerm(v)
    BY <1>7, Zenon DEF LastIndex, LastTerm, TermAt
  <1>10. Still(n, asked) /\ NoAppends(asked) /\ Asks(asked)
    BY <1>4, <1>7, <1>8, <1>9 DEF Still, NoAppends, IsAppend, Asks, SameCommit
  <1>11. Campaign(i, n) = IF Majority <= 1 THEN BecomeLeader(i, v) ELSE asked
    BY Zenon DEF Campaign, asked, calls, v, s, c, t
  <1>12. Majority <= 1 => WinsAlone(i, n, BecomeLeader(i, v))
    BY <1>2, <1>4, <1>5, <1>6 DEF WinsAlone
  <1>. QED BY <1>10, <1>11, <1>12 DEF Elects

\* A pre-vote round touches nothing; in a cluster of one it is the campaign.
LEMMA StartElectionElects ==
    ASSUME NEW n \in NodeState, NEW i \in Node, NEW r \in Round, IsSaved(n), n.out = {}
    PROVE  Elects(i, n, StartElection(i, n, r))
  <1>. DEFINE calls == VoteRequests(i, n, "PreVote", n.currentTerm + 1, r)
              asked == [n EXCEPT !.preVotes[r] = 1, !.out = calls]
  <1>1. \A m \in calls : m.type = "PreVote"
    BY DEF VoteRequests
  <1>2. Still(n, asked) /\ asked.out = calls
    <2>. HIDE DEF calls
    <2>. QED BY DEF NodeState, Still, Indexes
  <1>3. Elects(i, n, asked)
    <2>. HIDE DEF asked, calls
    <2>. QED BY <1>1, <1>2 DEF Elects, NoAppends, Asks, IsAppend
  <1>. QED BY <1>3, CampaignElects, Zenon DEF StartElection

\* An answer to a pre-vote is counted or starts the campaign.
LEMMA HandlePreVoteResponseElects ==
    ASSUME NEW n \in NodeState, NEW i \in Node, NEW m \in VoteResponse, IsSaved(n), n.out = {}
    PROVE  Elects(i, n, HandlePreVoteResponse(i, n, m))
  <1>. DEFINE counted == [n EXCEPT !.preVotes[m.round] = @ + 1]
  <1>1. counted \in NodeState
    <2>1. [n.preVotes EXCEPT ![m.round] = n.preVotes[m.round] + 1] \in Tally
      BY DEF NodeState, Tally, VoteResponse
    <2>2. counted = [n EXCEPT !.preVotes =
                        [n.preVotes EXCEPT ![m.round] = n.preVotes[m.round] + 1]]
      OBVIOUS
    <2>. QED BY <2>1, <2>2 DEF NodeState
  <1>2. /\ counted.role = n.role /\ counted.currentTerm = n.currentTerm
        /\ counted.log = n.log /\ SameCommit(n, counted)
        /\ counted.matchIndex = n.matchIndex /\ counted.nextIndex = n.nextIndex
        /\ counted.out = {} /\ counted.quota = n.quota /\ IsSaved(counted)
    BY DEF NodeState, SameCommit, IsSaved
  <1>. HIDE DEF counted
  <1>3. Still(n, counted) /\ Still(n, n)
    <2>1. \A j \in Node : n.nextIndex[j] <= n.nextIndex[j]
      BY DEF NodeState, Indexes
    <2>. QED BY <1>2, <2>1 DEF Still, SameCommit
  <1>4. Elects(i, n, counted) /\ Elects(i, n, n)
    BY <1>2, <1>3 DEF Elects, NoAppends, Asks
  <1>5. Elects(i, n, CheckTerm(n, m.term))
    <2>1. Still(n, CheckTerm(n, m.term)) /\ CheckTerm(n, m.term).out = {}
      BY CheckTermStill DEF VoteResponse
    <2>. QED BY <2>1 DEF Elects, NoAppends, Asks
  <1>6. Elects(i, n, Campaign(i, counted))
    <2>. DEFINE r == Campaign(i, counted)
    <2>1. Elects(i, counted, r) /\ r \in NodeState
      BY <1>1, <1>2, CampaignElects, CampaignType
    <2>. HIDE DEF r
    <2>2. CASE Still(counted, r) /\ NoAppends(r) /\ Asks(r)
      BY <1>1, <1>3, <2>1, <2>2, StillTrans DEF Elects, r
    <2>3. CASE WinsAlone(i, counted, r)
      <3>1. \A c : Winner(counted, c) => Winner(n, c)
        BY <1>2 DEF Winner, SameCommit
      <3>2. WinsAlone(i, n, r)
        BY <1>2, <2>3, <3>1 DEF WinsAlone
      <3>. QED BY <3>2 DEF Elects, r
    <2>. QED BY <2>1, <2>2, <2>3 DEF Elects
  <1>. QED BY <1>4, <1>5, <1>6, Zenon DEF HandlePreVoteResponse, counted

\* Candidate n won with the vote that answer m grants.
WinsWith(i, n, m, r) ==
    /\ n.role = "Candidate" /\ n.currentTerm = m.reqTerm /\ m.granted
    /\ n.votesReceived + 1 >= Majority
    /\ \E c \in NodeState : /\ Winner(n, c) /\ c.currentTerm = n.currentTerm
                            /\ r = BecomeLeader(i, c)

\* A vote is counted, which leaves the log alone, or it is the decisive one.
LEMMA HandleRequestVoteResponseElects ==
    ASSUME NEW n \in NodeState, NEW i \in Node, NEW m \in VoteResponse, IsSaved(n), n.out = {}
    PROVE  LET r == HandleRequestVoteResponse(i, n, m)
           IN  (Still(n, r) /\ r.out = {}) \/ WinsWith(i, n, m, r)
  <1>. DEFINE counted == [n EXCEPT !.votesReceived = @ + 1]
  <1>1. counted \in NodeState /\ n.quota \in 0..4
    BY DEF NodeState, Quota, MaxWrites
  <1>2. /\ counted.role = n.role /\ counted.currentTerm = n.currentTerm
        /\ counted.votesReceived = n.votesReceived + 1
        /\ counted.log = n.log /\ SameCommit(n, counted)
        /\ counted.matchIndex = n.matchIndex /\ counted.nextIndex = n.nextIndex
        /\ counted.out = {} /\ counted.quota = n.quota /\ IsSaved(counted)
    BY DEF NodeState, SameCommit, IsSaved
  <1>. HIDE DEF counted
  <1>3. Still(n, counted) /\ Still(n, n)
    <2>1. \A j \in Node : n.nextIndex[j] <= n.nextIndex[j]
      BY DEF NodeState, Indexes
    <2>. QED BY <1>2, <2>1 DEF Still, SameCommit
  <1>4. Still(n, CheckTerm(n, m.term)) /\ CheckTerm(n, m.term).out = {}
    BY CheckTermStill DEF VoteResponse
  <1>5. ASSUME n.role = "Candidate", n.currentTerm = m.reqTerm, m.granted,
               counted.votesReceived >= Majority
        PROVE  WinsWith(i, n, m, BecomeLeader(i, counted))
    <2>1. Winner(n, counted)
      BY <1>1, <1>2, <1>5 DEF Winner, IsSaved, CanWrite, MaxWrites
    <2>. QED BY <1>1, <1>2, <1>5, <2>1 DEF WinsWith
  <1>. QED BY <1>2, <1>3, <1>4, <1>5, Zenon DEF HandleRequestVoteResponse, counted

\* The end of a blocked proposal leaves everything but the waiting room alone.
LEMMA ProposalEndStill ==
    ASSUME NEW n \in NodeState, NEW c \in Command
    PROVE  /\ Still(n, ProposalReturns(n, c)) /\ ProposalReturns(n, c).out = n.out
           /\ Still(n, ProposalTimesOut(n, c)) /\ ProposalTimesOut(n, c).out = n.out
  <1>1. \A j \in Node : n.nextIndex[j] <= n.nextIndex[j]
    BY DEF NodeState, Indexes
  <1>2. Still(n, ProposalReturns(n, c)) /\ ProposalReturns(n, c).out = n.out
    BY <1>1 DEF NodeState, Still, ProposalReturns
  <1>3. Still(n, ProposalTimesOut(n, c)) /\ ProposalTimesOut(n, c).out = n.out
    BY <1>1 DEF NodeState, Still, ProposalTimesOut
  <1>. QED BY <1>2, <1>3

\* So does the passing of a leader's contact.
LEMMA ContactEndStill ==
    ASSUME NEW n \in NodeState
    PROVE  LET r == [n EXCEPT !.leaderContact = FALSE]
           IN  Still(n, r) /\ r.out = n.out
  <1>1. \A j \in Node : n.nextIndex[j] <= n.nextIndex[j]
    BY DEF NodeState, Indexes
  <1>. QED BY <1>1 DEF NodeState, Still

\* No answer to AppendEntries touches the log, wherever the handler ends.
LEMMA HandleAppendEntriesResponseLog ==
    ASSUME NEW n \in NodeState, NEW i \in Node, NEW m \in AppendResponse
    PROVE  HandleAppendEntriesResponse(i, n, m).log = n.log
  <1>. DEFINE j == m.peer
              match == m.prevLogIndex + m.numEntries
              advanced == [n EXCEPT !.nextIndex[j] = IF match + 1 > @ THEN match + 1 ELSE @,
                                    !.matchIndex[j] = IF match > @ THEN match ELSE @]
              retreated == [n EXCEPT !.nextIndex[j] = @ - 1]
  <1>1. advanced \in NodeState /\ (n.nextIndex[j] > 1 => retreated \in NodeState)
    BY ResponseType, Zenon
  <1>2. advanced.log = n.log /\ retreated.log = n.log
    BY DEF NodeState
  <1>3. CheckTerm(n, m.term).log = n.log
    BY CheckTermStill DEF AppendResponse, Still
  <1>4. ASSUME NEW q \in NodeState PROVE CheckAndUpdateCommitIndex(q).log = q.log
    BY DEF CheckAndUpdateCommitIndex, ApplyCommitted, NodeState
  <1>5. ASSUME NEW q \in NodeState, NEW js PROVE SendAppendEntries(i, q, js).log = q.log
    BY DEF SendAppendEntries, NodeState
  <1>. HIDE DEF advanced, retreated
  <1>6. CheckAndUpdateCommitIndex(advanced).log = n.log
    BY <1>1, <1>2, <1>4
  <1>7. n.nextIndex[j] > 1 => SendAppendEntries(i, retreated, {j}).log = n.log
    BY <1>1, <1>2, <1>5
  <1>. QED BY <1>3, <1>6, <1>7, Zenon DEF HandleAppendEntriesResponse, advanced, retreated

-----------------------------------------------------------------------------
(* What a step of one node does to the invariant.                            *)

\* One critical section of node i, which leaves it as d.
Moves(i, d) ==
    /\ TypeOK /\ TypeOK' /\ ElectionInv /\ ElectionInv'
    /\ i \in Node /\ d \in NodeState /\ Become(i, d) /\ VoteStep(node[i], d)

LEMMA MovesFacts ==
    ASSUME NEW i, NEW d, Moves(i, d)
    PROVE  /\ i \in Node /\ d \in NodeState
           /\ node'[i] = d /\ \A j \in Node : j # i => node'[j] = node[j]
           /\ \A j \in Node : node[j] \in NodeState /\ node'[j] \in NodeState
           /\ \A j \in Node : /\ Terms[j] = node[j].currentTerm
                              /\ Terms'[j] = node'[j].currentTerm
                              /\ Terms[j] \in Nat /\ Terms'[j] \in Nat /\ Terms[j] <= Terms'[j]
           /\ Terms \in [Node -> Nat] /\ Terms' \in [Node -> Nat]
           /\ committed \in Log /\ committed' = Longest(committed, d)
           /\ ballots \subseteq ballots' /\ elected \subseteq elected'
           /\ d.role = "Leader" => [term |-> d.currentTerm, leader |-> i] \in elected'
           /\ rpcs \subseteq Message /\ rpcs' \subseteq Message
  <1>0. /\ TypeOK /\ TypeOK' /\ ElectionInv /\ i \in Node /\ d \in NodeState
        /\ Become(i, d) /\ VoteStep(node[i], d)
    BY DEF Moves
  <1>1. /\ node \in [Node -> NodeState] /\ node' \in [Node -> NodeState]
        /\ node' = [node EXCEPT ![i] = d] /\ committed \in Log
        /\ rpcs \subseteq Message /\ rpcs' \subseteq Message
    BY <1>0 DEF TypeOK, Become
  <1>2. node'[i] = d /\ \A j \in Node : j # i => node'[j] = node[j]
    BY <1>0, <1>1
  <1>3. \A j \in Node : node[j] \in NodeState /\ node'[j] \in NodeState
    BY <1>1
  <1>4. \A q \in NodeState : q.currentTerm \in Nat
    BY DEF NodeState
  <1>5. \A j \in Node : node[j].currentTerm \in Nat /\ node'[j].currentTerm \in Nat
    BY <1>3, <1>4
  <1>6. \A j \in Node : node[j].currentTerm <= node'[j].currentTerm
    <2>1. node[i].currentTerm <= node'[i].currentTerm
      BY <1>0, <1>2, <1>5 DEF VoteStep
    <2>. QED BY <1>2, <1>5, <2>1
  <1>7. /\ \A j \in Node : Terms[j] = node[j].currentTerm /\ Terms'[j] = node'[j].currentTerm
        /\ Terms \in [Node -> Nat] /\ Terms' \in [Node -> Nat]
    BY <1>5 DEF Terms
  <1>8. committed' = Longest(committed, d) /\ elected \subseteq elected'
        /\ (d.role = "Leader" => [term |-> d.currentTerm, leader |-> i] \in elected')
    BY <1>0 DEF Become, Witness, Longest
  <1>9. ballots \subseteq ballots'
    BY <1>0, BallotStep DEF ElectionInv
  <1>. QED BY <1>0, <1>1, <1>2, <1>3, <1>5, <1>6, <1>7, <1>8, <1>9

\* What is true of an AppendEntries call stays true.
LEMMA AppendGrows ==
    ASSUME NEW G, NEW A, NEW T, NEW H, NEW B, NEW U, GhostType(G, A, T), GhostType(H, B, U),
           Grows(G, A, T, H, B, U), NEW com \in Log, NEW com2 \in Log,
           Agree(com, com2, Len(com)), NEW m \in Message, AppendSound(G, A, com, m)
    PROVE  AppendSound(H, B, com2, m)
  <1>1. Len(com) \in Nat /\ Len(com2) \in Nat /\ Len(com) <= Len(com2)
    BY LogLength DEF Agree
  <1>2. ASSUME m.type = "AppendEntries"
        PROVE  /\ m.prevLogIndex + Len(m.entries) <= Len(H[m.term])
               /\ \A k \in 1..Len(m.entries) : m.entries[k] = H[m.term][m.prevLogIndex + k]
               /\ m.prevLogIndex > 0 => m.prevLogTerm = H[m.term][m.prevLogIndex].term
               /\ m.leaderCommit <= Len(com2)
               /\ Settled(H, B, H[m.term], m.leaderCommit, m.term)
    <2>. DEFINE t == m.term
                p == m.prevLogIndex
                e == Len(m.entries)
    <2>0. m \in AppendRequest
      BY <1>2, MessageKind
    <2>1. t \in Nat /\ p \in Nat /\ e \in Nat /\ p + e \in Nat /\ m.leaderCommit \in Nat
      BY <2>0, BatchValues
    <2>2. /\ p + e <= Len(G[t]) /\ \A k \in 1..e : m.entries[k] = G[t][p + k]
          /\ p > 0 => m.prevLogTerm = G[t][p].term
          /\ m.leaderCommit <= Len(com)
          /\ Settled(G, A, G[t], m.leaderCommit, t)
      BY <1>2 DEF AppendSound
    <2>. HIDE DEF t, p, e
    <2>3. Agree(G[t], H[t], Len(G[t])) /\ G[t] \in Log /\ H[t] \in Log
          /\ Len(G[t]) \in Nat /\ Len(H[t]) \in Nat
      BY <2>1, GhostValues DEF Grows
    <2>4. Len(G[t]) <= Len(H[t]) /\ \A k \in 1..Len(G[t]) : G[t][k] = H[t][k]
      BY <2>3 DEF Agree
    <2>5. p + e <= Len(H[t])
      BY <2>1, <2>2, <2>3, <2>4
    <2>6. \A k \in 1..e : p + k \in 1..Len(G[t])
      BY <2>1, <2>2, <2>3
    <2>7. p > 0 => p \in 1..Len(G[t])
      BY <2>1, <2>2, <2>3
    <2>8. Settled(H, B, H[t], m.leaderCommit, t)
      <3>1. Settled(H, B, G[t], m.leaderCommit, t)
        BY <2>1, <2>2, <2>3, SettledGrows
      <3>2. m.leaderCommit <= Len(G[t])
        BY <2>1, <2>2, <2>3, SettledLength
      <3>3. Agree(G[t], H[t], m.leaderCommit)
        BY <2>1, <2>3, <3>2 DEF Agree
      <3>4. H \in [Nat -> Log]
        BY DEF GhostType
      <3>. QED BY <2>1, <2>3, <3>1, <3>3, <3>4, SettledCopies
    <2>9. m.leaderCommit <= Len(com2)
      BY <1>1, <2>1, <2>2
    <2>10. \A k \in 1..e : m.entries[k] = H[t][p + k]
      BY <2>2, <2>4, <2>6
    <2>11. p > 0 => m.prevLogTerm = H[t][p].term
      BY <2>2, <2>4, <2>7
    <2>. QED BY <2>5, <2>8, <2>9, <2>10, <2>11 DEF t, p, e
  <1>3. ASSUME m.type = "AppendEntriesResponse", m.success
        PROVE  m.prevLogIndex + m.numEntries <= B[m.peer][m.reqTerm]
    <2>1. /\ m.peer \in Node /\ m.reqTerm \in Nat /\ m.prevLogIndex \in Nat /\ m.numEntries \in Nat
      BY <1>3, MessageKind DEF AppendResponse
    <2>2. m.prevLogIndex + m.numEntries <= A[m.peer][m.reqTerm]
      BY <1>3 DEF AppendSound
    <2>3. A[m.peer][m.reqTerm] <= B[m.peer][m.reqTerm]
      BY <2>1 DEF Grows
    <2>4. A[m.peer][m.reqTerm] \in Nat /\ B[m.peer][m.reqTerm] \in Nat
      BY <2>1, GhostValues
    <2>. QED BY <2>1, <2>2, <2>3, <2>4
  <1>. QED BY <1>2, <1>3 DEF AppendSound

-----------------------------------------------------------------------------
(* Votes: whoever a candidate counts has nothing that the candidate lacks.   *)

\* Request k repeats one that was under way, or is one of d's candidacy.
Asked(k, i, d) ==
    \/ \E m \in rpcs : /\ m.type = "RequestVote" /\ SameCall(k, m)
                       /\ k.lastLogIndex = m.lastLogIndex /\ k.lastLogTerm = m.lastLogTerm
    \/ Begins(k, i, d) /\ k.lastLogIndex = LastIndex(d) /\ k.lastLogTerm = LastTerm(d)

\* Answer k was under way, or node i just gave it, having compared the logs.
Granted(k, i, d) ==
    \/ k \in rpcs
    \/ \E m \in rpcs : /\ m.type = "RequestVote" /\ SameCall(k, m) /\ m.peer = i
                       /\ d.currentTerm = m.term /\ d.log = node[i].log
                       /\ CandidateLogUpToDate(node[i], m)

\* Candidate i counted the vote that was on its way.
Counts(i, d) ==
    /\ node[i].role = "Candidate" /\ d.currentTerm = node[i].currentTerm
    /\ d.votesReceived = node[i].votesReceived + 1
    /\ \E m \in rpcs : /\ m.type = "RequestVoteResponse" /\ m.granted /\ m.caller = i
                       /\ m.reqTerm = node[i].currentTerm
                       /\ \A k \in rpcs' : VoteCall(k) /\ k.caller = i => k \in rpcs /\ k # m

\* Candidate d has the log of i and still stands, or just began to, or counts.
Stands(i, d) ==
    /\ d.log = node[i].log
    /\ \/ /\ node[i].role = "Candidate" /\ d.currentTerm = node[i].currentTerm
          /\ d.votesReceived <= node[i].votesReceived
       \/ d.currentTerm > node[i].currentTerm /\ d.votesReceived = 1
       \/ Counts(i, d)

Votes(i, d) ==
    /\ \A k \in rpcs' : VoteCall(k) => Continues(k) \/ Begins(k, i, d)
    /\ \A k \in rpcs' : k.type = "RequestVote" => Asked(k, i, d)
    /\ \A k \in rpcs' : k.type = "RequestVoteResponse" /\ k.granted => Granted(k, i, d)
    /\ d.role = "Candidate" => Stands(i, d)

\* The ghosts go from G and A to H and B.
Turns(G, A, H, B) ==
    /\ GhostType(G, A, Terms) /\ GhostType(H, B, Terms') /\ Grows(G, A, Terms, H, B, Terms')
    /\ GhostSound(G, A, Terms) /\ GhostSound(H, B, Terms')

\* A voter that is past the terms in question has them covered for good.
LEMMA VoterCovers ==
    ASSUME NEW G, NEW A, NEW H, NEW B, Turns(G, A, H, B), NEW j \in Node, NEW L \in Log,
           NEW u \in Nat, Terms[j] >= u, Terms[j] \in Nat, Covers(G, A, Terms, j, L, u)
    PROVE  Covers(H, B, Terms', j, L, u)
  <1>1. /\ GhostType(G, A, Terms) /\ GhostType(H, B, Terms') /\ Grows(G, A, Terms, H, B, Terms')
        /\ GhostSound(G, A, Terms)
    BY DEF Turns
  <1>2. \A t \in Nat : t < u => B[j][t] = A[j][t] /\ A[j][t] <= Len(G[t])
    BY <1>1 DEF Grows, GhostSound
  <1>. QED BY <1>1, <1>2, CoversGrows

\* A candidate of node i after the step was one before, in the same term and
\* with the same log, or is a new one of which no earlier call speaks.
LEMMA StandsBefore ==
    ASSUME NEW i, NEW d, Moves(i, d), Votes(i, d), NEW c \in Node, NEW t \in Nat,
           Standing(c, t)', t <= node[c].currentTerm
    PROVE  /\ Standing(c, t) /\ node'[c].log = node[c].log
           /\ node'[c].currentTerm = node[c].currentTerm
  <1>1. /\ i \in Node /\ node'[i] = d /\ \A j \in Node : j # i => node'[j] = node[j]
        /\ node[c].currentTerm \in Nat
    BY MovesFacts
  <1>2. CASE c = i
    <2>1. d.role = "Candidate" /\ d.currentTerm = t
      BY <1>1, <1>2 DEF Standing
    <2>2. Stands(i, d)
      BY <2>1 DEF Votes
    <2>. QED BY <1>1, <1>2, <2>1, <2>2 DEF Stands, Counts, Standing
  <1>3. CASE c # i
    BY <1>1, <1>3 DEF Standing
  <1>. QED BY <1>2, <1>3

\* Who stands behind a candidate does so for good.
LEMMA BehindGrows ==
    ASSUME NEW i, NEW d, Moves(i, d), Votes(i, d), NEW G, NEW A, NEW H, NEW B,
           Turns(G, A, H, B), NEW c \in Node, node'[c].currentTerm = node[c].currentTerm,
           node'[c].log = node[c].log
    PROVE  Behind(G, A, Terms, c) \subseteq Behind(H, B, Terms, c)'
  <1>. SUFFICES ASSUME NEW v \in Behind(G, A, Terms, c)
                PROVE  v \in Behind(H, B, Terms, c)'
    OBVIOUS
  <1>1. /\ v \in Node /\ Terms[v] >= node[c].currentTerm
        /\ Covers(G, A, Terms, v, node[c].log, node[c].currentTerm)
        /\ ~\E m \in rpcs : /\ VoteCall(m) /\ m.caller = c /\ m.peer = v
                            /\ CallTerm(m) = node[c].currentTerm
    BY DEF Behind
  <1>2. /\ node[c].currentTerm \in Nat /\ Terms[v] \in Nat /\ Terms'[v] \in Nat
        /\ Terms[v] <= Terms'[v] /\ node[c].log \in Log /\ i \in Node /\ node'[i] = d
    BY <1>1, MovesFacts DEF NodeState
  <1>3. Covers(H, B, Terms', v, node'[c].log, node'[c].currentTerm)
    BY <1>1, <1>2, VoterCovers
  <1>4. ASSUME NEW k \in rpcs', VoteCall(k), k.caller = c, k.peer = v,
               CallTerm(k) = node'[c].currentTerm
        PROVE  FALSE
    <2>1. ~Begins(k, i, d)
      BY <1>2, <1>4 DEF Begins
    <2>2. Continues(k)
      BY <1>4, <2>1 DEF Votes
    <2>. QED BY <1>1, <1>4, <2>2 DEF Continues, SameCall
  <1>5. Terms'[v] >= node'[c].currentTerm
    BY <1>1, <1>2
  <1>. QED BY <1>1, <1>3, <1>4, <1>5 DEF Behind

\* The log of each node after the step.
LogsHeld(H, B) ==
    \A j \in Node : LogHeld(H, B, Terms', j, node'[j].log, node'[j].currentTerm)

\* The comparison of HandleRequestVote is the one of UpToDateHolds.
LEMMA FinalTermIsLast ==
    ASSUME NEW n \in NodeState
    PROVE  LastTerm(n) = FinalTerm(n.log) /\ LastIndex(n) = Len(n.log)
  <1>1. n.log \in Log
    BY DEF NodeState
  <1>2. Len(n.log) \in Nat /\ (n.log # <<>> <=> Len(n.log) > 0)
    BY <1>1, LogLength
  <1>. QED BY <1>2 DEF LastTerm, LastIndex, TermAt, FinalTerm

\* Node i, whose log is no more up to date than the one the candidate has, has
\* nothing that the candidate lacks.
LEMMA UpToDateCovers ==
    ASSUME NEW H, NEW B, NEW U, GhostType(H, B, U), GhostSound(H, B, U), NEW i \in Node,
           NEW L \in Log, NEW t \in Nat, LogHeld(H, B, U, i, L, t), NEW K \in Log, Backed(H, K),
           \/ FinalTerm(K) > FinalTerm(L)
           \/ FinalTerm(K) = FinalTerm(L) /\ Len(K) >= Len(L),
           NEW u \in Nat
    PROVE  Covers(H, B, U, i, K, u)
  <1>. SUFFICES ASSUME NEW s \in Nat, s < u, NEW k \in 1..B[i][s], Own(H, s, k)
                PROVE  Agree(H[s], K, k) \/ Blocked(B, U, s, k)
    BY DEF Covers
  <1>1. B[i][s] \in Nat
    BY GhostValues
  <1>2. k \in Nat
    BY <1>1
  <1>3. Backed(H, L) /\ Covers(H, B, U, i, L, u)
    BY DEF LogHeld
  <1>4. Agree(H[s], L, k) \/ Blocked(B, U, s, k)
    BY <1>3 DEF Covers
  <1>. QED BY <1>2, <1>3, <1>4, UpToDateHolds

LEMMA RequestsStep ==
    ASSUME NEW i, NEW d, Moves(i, d), Votes(i, d), NEW G, NEW A, VotesSound(G, A, Terms),
           NEW k \in rpcs', k.type = "RequestVote", Standing(k.caller, k.term)'
    PROVE  /\ k.lastLogIndex = LastIndex(node'[k.caller])
           /\ k.lastLogTerm = LastTerm(node'[k.caller])
  <1>0. /\ i \in Node /\ node'[i] = d /\ ElectionInv /\ rpcs \subseteq Message
        /\ rpcs' \subseteq Message
    BY MovesFacts DEF Moves
  <1>1. Asked(k, i, d) /\ k.caller \in Node /\ k.term \in Nat
    BY <1>0, MessageKind DEF Votes, VoteRequest
  <1>2. ASSUME NEW m \in rpcs, m.type = "RequestVote", SameCall(k, m),
               k.lastLogIndex = m.lastLogIndex, k.lastLogTerm = m.lastLogTerm
        PROVE  /\ k.lastLogIndex = LastIndex(node'[k.caller])
               /\ k.lastLogTerm = LastTerm(node'[k.caller])
    <2>1. m.caller = k.caller /\ m.term = k.term
      BY <1>2 DEF SameCall, CallTerm
    <2>2. m.term <= node[m.caller].currentTerm
      BY <1>0, <1>2 DEF ElectionInv, CallsSound, VoteCall, CallTerm
    <2>3. Standing(m.caller, m.term) /\ node'[k.caller].log = node[k.caller].log
      BY <1>1, <2>1, <2>2, StandsBefore
    <2>4. m.lastLogIndex = LastIndex(node[m.caller]) /\ m.lastLogTerm = LastTerm(node[m.caller])
      BY <1>2, <2>3 DEF VotesSound
    <2>. QED BY <1>2, <2>1, <2>3, <2>4 DEF LastIndex, LastTerm, TermAt
  <1>3. CASE Begins(k, i, d) /\ k.lastLogIndex = LastIndex(d) /\ k.lastLogTerm = LastTerm(d)
    BY <1>0, <1>3 DEF Begins
  <1>. QED BY <1>1, <1>2, <1>3 DEF Asked

LEMMA AnswersStep ==
    ASSUME NEW i, NEW d, Moves(i, d), Votes(i, d), NEW G, NEW A, NEW H, NEW B,
           Turns(G, A, H, B), VotesSound(G, A, Terms), LogsHeld(H, B),
           NEW k \in rpcs', k.type = "RequestVoteResponse", k.granted,
           Standing(k.caller, k.reqTerm)'
    PROVE  /\ Terms'[k.peer] >= k.reqTerm
           /\ Covers(H, B, Terms', k.peer, node'[k.caller].log, k.reqTerm)
  <1>0. /\ i \in Node /\ node'[i] = d /\ ElectionInv /\ rpcs \subseteq Message
        /\ rpcs' \subseteq Message /\ \A j \in Node : j # i => node'[j] = node[j]
        /\ \A j \in Node : node[j] \in NodeState /\ node'[j] \in NodeState
        /\ \A j \in Node : /\ Terms'[j] = node'[j].currentTerm
                           /\ Terms[j] \in Nat /\ Terms'[j] \in Nat /\ Terms[j] <= Terms'[j]
    BY MovesFacts DEF Moves
  <1>1. Granted(k, i, d) /\ k.caller \in Node /\ k.peer \in Node /\ k.reqTerm \in Nat
    BY <1>0, MessageKind DEF Votes, VoteResponse
  <1>2. CASE k \in rpcs
    <2>1. k.reqTerm <= node[k.caller].currentTerm
      BY <1>0, <1>2 DEF ElectionInv, CallsSound, VoteCall, CallTerm
    <2>2. Standing(k.caller, k.reqTerm) /\ node'[k.caller].log = node[k.caller].log
      BY <1>1, <2>1, StandsBefore
    <2>3. /\ Terms[k.peer] >= k.reqTerm
          /\ Covers(G, A, Terms, k.peer, node[k.caller].log, k.reqTerm)
      BY <1>2, <2>2 DEF VotesSound
    <2>4. node[k.caller].log \in Log
      BY <1>0, <1>1 DEF NodeState
    <2>5. Covers(H, B, Terms', k.peer, node'[k.caller].log, k.reqTerm)
      BY <1>0, <1>1, <2>2, <2>3, <2>4, VoterCovers
    <2>6. Terms'[k.peer] >= k.reqTerm
      BY <1>0, <1>1, <2>3
    <2>. QED BY <2>5, <2>6
  <1>3. ASSUME NEW m \in rpcs, m.type = "RequestVote", SameCall(k, m), m.peer = i,
               d.currentTerm = m.term, d.log = node[i].log, CandidateLogUpToDate(node[i], m)
        PROVE  /\ Terms'[k.peer] >= k.reqTerm
               /\ Covers(H, B, Terms', k.peer, node'[k.caller].log, k.reqTerm)
    <2>. DEFINE c == k.caller
    <2>1. m.caller = c /\ m.term = k.reqTerm /\ k.peer = i
      BY <1>3 DEF SameCall, CallTerm
    <2>2. m.term <= node[c].currentTerm /\ c # i
      BY <1>0, <1>3, <2>1 DEF ElectionInv, CallsSound, VoteCall, CallTerm
    <2>3. Standing(c, m.term) /\ node'[c] = node[c]
      BY <1>0, <1>1, <2>1, <2>2 DEF Standing
    <2>4. m.lastLogIndex = LastIndex(node[c]) /\ m.lastLogTerm = LastTerm(node[c])
      BY <1>3, <2>1, <2>3 DEF VotesSound
    <2>5. /\ LastIndex(node[c]) = Len(node[c].log) /\ LastTerm(node[c]) = FinalTerm(node[c].log)
          /\ LastIndex(node[i]) = Len(node[i].log) /\ LastTerm(node[i]) = FinalTerm(node[i].log)
      BY <1>0, <1>1, FinalTermIsLast
    <2>6. \/ FinalTerm(node[c].log) > FinalTerm(d.log)
          \/ FinalTerm(node[c].log) = FinalTerm(d.log) /\ Len(node[c].log) >= Len(d.log)
      BY <1>3, <2>4, <2>5 DEF CandidateLogUpToDate
    <2>7. LogHeld(H, B, Terms', i, d.log, d.currentTerm) /\ Backed(H, node[c].log)
      BY <1>0, <1>1, <2>3 DEF LogsHeld, LogHeld
    <2>8. /\ d.log \in Log /\ d.currentTerm \in Nat /\ node[c].log \in Log
      BY <1>0, <1>1 DEF NodeState
    <2>9. GhostType(H, B, Terms') /\ GhostSound(H, B, Terms')
      BY DEF Turns
    <2>10. Covers(H, B, Terms', i, node[c].log, k.reqTerm)
      BY <1>0, <1>1, <2>6, <2>7, <2>8, <2>9, UpToDateCovers
    <2>11. Terms'[i] >= k.reqTerm
      BY <1>0, <1>1, <1>3, <2>1
    <2>. QED BY <2>1, <2>3, <2>10, <2>11
  <1>. QED BY <1>1, <1>2, <1>3 DEF Granted

\* The counter of a candidate never exceeds those behind it.
LEMMA CountsStep ==
    ASSUME NEW i, NEW d, Moves(i, d), Votes(i, d), NEW G, NEW A, NEW H, NEW B,
           Turns(G, A, H, B), VotesSound(G, A, Terms), LogsHeld(H, B),
           NEW c \in Node, node'[c].role = "Candidate"
    PROVE  /\ node'[c].currentTerm >= 1
           /\ node'[c].votesReceived <= Cardinality(Behind(H, B, Terms, c)')
  <1>. DEFINE old == Behind(G, A, Terms, c)
              new == Behind(H, B, Terms, c)'
  <1>0. /\ i \in Node /\ node'[i] = d /\ ElectionInv /\ ElectionInv' /\ rpcs \subseteq Message
        /\ rpcs' \subseteq Message /\ \A j \in Node : j # i => node'[j] = node[j]
        /\ \A j \in Node : node[j] \in NodeState /\ node'[j] \in NodeState
        /\ \A j \in Node : /\ Terms'[j] = node'[j].currentTerm
                           /\ Terms[j] \in Nat /\ Terms'[j] \in Nat /\ Terms[j] <= Terms'[j]
    BY MovesFacts DEF Moves
  <1>1. /\ node[c].currentTerm \in Nat /\ node'[c].currentTerm \in Nat
        /\ node[c].votesReceived \in Nat /\ node'[c].votesReceived \in Nat
        /\ node'[c].log \in Log /\ node[c].log \in Log
    BY <1>0 DEF NodeState
  <1>2. old \in SUBSET Node /\ new \in SUBSET Node
    BY DEF Behind
  <1>3. /\ Cardinality(old) \in Nat /\ Cardinality(new) \in Nat /\ IsFiniteSet(old)
    BY <1>2, NodeCardinality
  <1>4. ASSUME node[c].role = "Candidate", node'[c].currentTerm = node[c].currentTerm,
               node'[c].log = node[c].log
        PROVE  /\ node'[c].currentTerm >= 1 /\ node[c].votesReceived <= Cardinality(old)
               /\ old \subseteq new
    BY <1>4, BehindGrows DEF VotesSound
  <1>. HIDE DEF old, new
  <1>5. ASSUME node[c].role = "Candidate", node'[c].currentTerm = node[c].currentTerm,
               node'[c].log = node[c].log, node'[c].votesReceived <= node[c].votesReceived
        PROVE  node'[c].currentTerm >= 1 /\ node'[c].votesReceived <= Cardinality(new)
    <2>1. node'[c].currentTerm >= 1 /\ node[c].votesReceived <= Cardinality(old) /\ old \subseteq new
      BY <1>4, <1>5
    <2>2. Cardinality(old) <= Cardinality(new)
      BY <1>2, <2>1, NodeCardinality
    <2>. QED BY <1>1, <1>3, <1>5, <2>1, <2>2
  <1>6. CASE c # i
    <2>1. node'[c] = node[c]
      BY <1>0, <1>6
    <2>. QED BY <1>1, <1>5, <2>1 DEF new
  <1>7. CASE c = i /\ d.currentTerm > node[i].currentTerm /\ d.votesReceived = 1
    <2>1. i \in new
      <3>1. Covers(H, B, Terms', i, d.log, d.currentTerm)
        BY <1>0, <1>1, <1>7 DEF LogsHeld, LogHeld
      <3>2. ~\E k \in rpcs' : /\ VoteCall(k) /\ k.caller = i /\ k.peer = i
                              /\ CallTerm(k) = d.currentTerm
        BY <1>0 DEF ElectionInv, CallsSound
      <3>3. Terms'[i] >= d.currentTerm
        BY <1>0
      <3>. QED BY <1>0, <1>7, <3>1, <3>2, <3>3 DEF Behind, new
    <2>2. Cardinality({i}) = 1
      BY FS_Singleton
    <2>3. Cardinality({i}) <= Cardinality(new)
      BY <1>2, <2>1, NodeCardinality
    <2>. QED BY <1>0, <1>1, <1>7, <2>2, <2>3 DEF new
  <1>8. CASE c = i /\ d.log = node[i].log /\ Counts(i, d)
    <2>1. /\ node[c].role = "Candidate" /\ node'[c].currentTerm = node[c].currentTerm
          /\ node'[c].log = node[c].log /\ node'[c].votesReceived = node[c].votesReceived + 1
      BY <1>0, <1>8 DEF Counts
    <2>2. /\ node'[c].currentTerm >= 1 /\ node[c].votesReceived <= Cardinality(old)
          /\ old \subseteq new
      BY <1>4, <2>1
    <2>3. PICK m \in rpcs :
            /\ m.type = "RequestVoteResponse" /\ m.granted /\ m.caller = i
            /\ m.reqTerm = node[i].currentTerm
            /\ \A k \in rpcs' : VoteCall(k) /\ k.caller = i => k \in rpcs /\ k # m
      BY <1>8 DEF Counts
    <2>4. VoteCall(m) /\ CallTerm(m) = node[i].currentTerm /\ m.peer \in Node
      BY <1>0, <2>3, MessageKind DEF VoteCall, CallTerm
    <2>5. m.peer \notin old
      BY <1>8, <2>3, <2>4 DEF old, Behind
    <2>6. m.peer \in new
      <3>1. /\ Terms[m.peer] >= node[c].currentTerm
            /\ Covers(G, A, Terms, m.peer, node[c].log, node[c].currentTerm)
        BY <1>8, <2>1, <2>3 DEF VotesSound, Standing
      <3>2. Covers(H, B, Terms', m.peer, node'[c].log, node'[c].currentTerm)
        BY <1>0, <1>1, <2>1, <2>4, <3>1, VoterCovers
      <3>3. Terms'[m.peer] >= node'[c].currentTerm
        BY <1>0, <1>1, <2>1, <2>4, <3>1
      <3>4. ASSUME NEW k \in rpcs', VoteCall(k), k.caller = c, k.peer = m.peer,
                   CallTerm(k) = node'[c].currentTerm
            PROVE  FALSE
        <4>1. k \in rpcs /\ k # m
          BY <1>8, <2>3, <3>4
        <4>2. SameCall(k, m)
          BY <1>8, <2>1, <2>3, <2>4, <3>4 DEF SameCall
        <4>. QED BY <1>0, <2>4, <3>4, <4>1, <4>2 DEF ElectionInv, CallsSound
      <3>. QED BY <2>4, <3>2, <3>3, <3>4 DEF new, Behind
    <2>7. Cardinality(old \cup {m.peer}) = Cardinality(old) + 1
      BY <1>3, <2>5, FS_AddElement
    <2>8. Cardinality(old \cup {m.peer}) <= Cardinality(new)
      BY <1>2, <2>2, <2>6, NodeCardinality
    <2>. QED BY <1>1, <1>3, <2>1, <2>2, <2>7, <2>8 DEF new
  <1>9. CASE c = i
    <2>1. Stands(i, d)
      BY <1>0, <1>9 DEF Votes
    <2>. QED BY <1>0, <1>1, <1>5, <1>7, <1>8, <1>9, <2>1 DEF Stands, new
  <1>. QED BY <1>6, <1>9

LEMMA VotesStep ==
    ASSUME NEW i, NEW d, Moves(i, d), Votes(i, d), NEW G, NEW A, NEW H, NEW B,
           Turns(G, A, H, B), VotesSound(G, A, Terms), LogsHeld(H, B)
    PROVE  VotesSound(H, B, Terms)'
  <1>1. \A k \in rpcs' : k.type = "RequestVote" /\ Standing(k.caller, k.term)' =>
            /\ k.lastLogIndex = LastIndex(node'[k.caller])
            /\ k.lastLogTerm = LastTerm(node'[k.caller])
    BY RequestsStep
  <1>2. \A k \in rpcs' : k.type = "RequestVoteResponse" /\ k.granted
                         /\ Standing(k.caller, k.reqTerm)' =>
            /\ Terms'[k.peer] >= k.reqTerm
            /\ Covers(H, B, Terms', k.peer, node'[k.caller].log, k.reqTerm)
    BY AnswersStep
  <1>3. \A c \in Node : node'[c].role = "Candidate" =>
            /\ node'[c].currentTerm >= 1
            /\ node'[c].votesReceived <= Cardinality(Behind(H, B, Terms, c)')
    BY CountsStep
  <1>. QED BY <1>1, <1>2, <1>3 DEF VotesSound

-----------------------------------------------------------------------------
(* The whole invariant.                                                      *)

\* One vote per node and term makes one winner per term.
LEMMA SoleWinner ==
    ASSUME NEW votes, \A a, b \in votes : a.voter = b.voter /\ a.term = b.term => a = b,
           NEW i, NEW j, NEW t, NEW P \in Quorum, NEW Q \in Quorum,
           \A v \in P : [voter |-> v, term |-> t, candidate |-> i] \in votes,
           \A v \in Q : [voter |-> v, term |-> t, candidate |-> j] \in votes
    PROVE  i = j
  <1>1. PICK v \in Node : v \in P /\ v \in Q
    BY QuorumsMeet
  <1>2. [voter |-> v, term |-> t, candidate |-> i] = [voter |-> v, term |-> t, candidate |-> j]
    BY <1>1
  <1>. QED BY <1>2

\* Supporters only grow.
LEMMA SupportGrows ==
    ASSUME NEW i, NEW d, Moves(i, d), NEW j, NEW t, Supporters(j, t) \in Quorum
    PROVE  Supporters(j, t)' \in Quorum
  <1>1. ballots \subseteq ballots'
    BY MovesFacts
  <1>2. Supporters(j, t) \subseteq Supporters(j, t)' /\ Supporters(j, t)' \in SUBSET Node
    BY <1>1 DEF Supporters
  <1>. QED BY <1>2, QuorumGrows

\* Only the log of i's own term, which i has won, and what i acknowledged may
\* have changed.
Alone(G, A, H, B, i, d) ==
    /\ \A j \in Node : j # i => B[j] = A[j]
    /\ \A t \in Nat : H[t] # G[t] => /\ t = d.currentTerm /\ d.role # "Candidate"
                                     /\ Supporters(i, t)' \in Quorum

\* Whoever else leads has the log it had.
LEMMA OthersLead ==
    ASSUME NEW i, NEW d, Moves(i, d), NEW G, NEW A, NEW H, NEW B, Alone(G, A, H, B, i, d),
           NEW j \in Node, j # i, node[j].role = "Leader"
    PROVE  H[node[j].currentTerm] = G[node[j].currentTerm]
  <1>0. /\ node'[j] = node[j] /\ node[j] \in NodeState /\ ElectionInv'
    BY MovesFacts, ZenonT(60) DEF Moves
  <1>1. PICK t \in Nat : t = node[j].currentTerm
    BY <1>0 DEF NodeState
  <1>. SUFFICES ASSUME H[t] # G[t] PROVE FALSE
    BY <1>1
  <1>2. Supporters(i, t)' \in Quorum
    BY DEF Alone
  <1>3. Supporters(j, t)' \in Quorum
    <2>1. [term |-> t, leader |-> j] \in elected'
      BY <1>0, <1>1 DEF ElectionInv, LeadersElected
    <2>2. Cardinality(Supporters(j, t)') >= Majority
      <3>1. \A e \in elected' : Cardinality(Supporters(e.leader, e.term)') >= Majority
        BY <1>0 DEF ElectionInv, LeadersElected
      <3>. QED BY <2>1, <3>1
    <2>3. Supporters(j, t)' \in SUBSET Node
      BY DEF Supporters
    <2>. QED BY <2>2, <2>3 DEF Quorum
  <1>4. \A a, b \in ballots' : a.voter = b.voter /\ a.term = b.term => a = b
    BY <1>0 DEF ElectionInv, BallotInv, OneVotePerTerm
  <1>5. /\ \A v \in Supporters(i, t)' : [voter |-> v, term |-> t, candidate |-> i] \in ballots'
        /\ \A v \in Supporters(j, t)' : [voter |-> v, term |-> t, candidate |-> j] \in ballots'
    BY DEF Supporters
  <1>6. i = j
    BY <1>2, <1>3, <1>4, <1>5, SoleWinner
  <1>. QED BY <1>6

LEMMA WonStep ==
    ASSUME NEW i, NEW d, Moves(i, d), Votes(i, d), NEW G, NEW A, NEW H, NEW B,
           Alone(G, A, H, B, i, d), Won(G)
    PROVE  Won(H)'
  <1>. SUFFICES ASSUME NEW t \in Nat, H[t] # <<>>
                PROVE  \E w \in Node : /\ Supporters(w, t)' \in Quorum
                                       /\ node'[w].currentTerm >= t
                                       /\ node'[w].currentTerm = t => node'[w].role # "Candidate"
    BY DEF Won
  <1>0. /\ i \in Node /\ node'[i] = d /\ \A j \in Node : j # i => node'[j] = node[j]
        /\ \A j \in Node : node[j].currentTerm \in Nat /\ node'[j].currentTerm \in Nat
        /\ \A j \in Node : node[j].currentTerm <= node'[j].currentTerm
    BY MovesFacts
  <1>1. CASE H[t] # G[t]
    BY <1>0, <1>1 DEF Alone
  <1>2. CASE H[t] = G[t]
    <2>1. PICK w \in Node : /\ Supporters(w, t) \in Quorum
                            /\ node[w].currentTerm >= t
                            /\ node[w].currentTerm = t => node[w].role # "Candidate"
      BY <1>2 DEF Won
    <2>2. Supporters(w, t)' \in Quorum
      BY <2>1, SupportGrows
    <2>3. node'[w].currentTerm >= t
      BY <1>0, <2>1
    <2>4. ASSUME node'[w].currentTerm = t, node'[w].role = "Candidate" PROVE FALSE
      <3>1. node[w].currentTerm = t
        BY <1>0, <2>1, <2>4
      <3>2. w = i
        BY <1>0, <2>1, <2>4, <3>1
      <3>3. Stands(i, d)
        BY <1>0, <2>4, <3>2 DEF Votes
      <3>. QED BY <1>0, <2>1, <2>4, <3>1, <3>2, <3>3 DEF Stands, Counts
    <2>. QED BY <2>2, <2>3, <2>4
  <1>. QED BY <1>1, <1>2

\* What a step owes the invariant, whatever handler made it.
LEMMA LogStep ==
    ASSUME NEW i, NEW d, Moves(i, d), Votes(i, d), NEW G, NEW A, NEW H, NEW B,
           Turns(G, A, H, B), Alone(G, A, H, B, i, d), LogSound(G, A),
           NodeSound(H, B, Terms', Longest(committed, d), i, d),
           \A k \in rpcs' : \/ AppendSound(G, A, committed, k)
                            \/ AppendSound(H, B, Longest(committed, d), k)
    PROVE  LogSound(H, B)' /\ Agree(committed, committed', Len(committed))
  <1>0. /\ i \in Node /\ d \in NodeState
        /\ node'[i] = d /\ \A j \in Node : j # i => node'[j] = node[j]
        /\ \A j \in Node : node[j] \in NodeState /\ node'[j] \in NodeState
        /\ committed \in Log /\ committed' = Longest(committed, d)
        /\ rpcs' \subseteq Message
    BY MovesFacts
  <1>a. \A j \in Node : Terms[j] = node[j].currentTerm /\ Terms'[j] = node'[j].currentTerm
    BY MovesFacts
  <1>1. /\ GhostType(G, A, Terms) /\ GhostType(H, B, Terms') /\ Grows(G, A, Terms, H, B, Terms')
        /\ GhostSound(G, A, Terms) /\ GhostSound(H, B, Terms')
    BY DEF Turns
  <1>2. PICK v \in Nat : Settled(G, A, committed, Len(committed), v)
    BY DEF LogSound
  <1>3. Settled(H, B, committed, Len(committed), v)
    <2>1. Len(committed) \in Nat
      BY <1>0, LogLength
    <2>. QED BY <1>0, <1>1, <1>2, <2>1, SettledGrows
  <1>4. Settled(H, B, d.log, d.commitIndex, d.currentTerm)
    BY DEF NodeSound, CommitSound
  <1>5. /\ committed' \in Log /\ Agree(committed, committed', Len(committed))
        /\ \E u \in Nat : Settled(H, B, committed', Len(committed'), u)
    BY <1>0, <1>1, <1>3, <1>4, LongestKeeps
  <1>6. ASSUME NEW j \in Node PROVE NodeSound(H, B, Terms', committed', j, node'[j])
    <2>1. CASE j = i
      BY <1>0, <2>1
    <2>2. CASE j # i
      <3>1. NodeSound(G, A, Terms, committed, j, node[j]) /\ node'[j] = node[j]
        BY <1>0, <2>2 DEF LogSound
      <3>2. B[j] = A[j]
        BY <2>2 DEF Alone
      <3>3. node[j].log \in Log /\ node[j].currentTerm \in Nat
        BY <1>0 DEF NodeState
      <3>4. LogHeld(H, B, Terms', j, node[j].log, node[j].currentTerm)
        <4>1. LogHeld(G, A, Terms, j, node[j].log, Terms[j])
          BY <1>a, <3>1 DEF NodeSound
        <4>2. LogHeld(H, B, Terms', j, node[j].log, Terms'[j])
          BY <1>1, <3>2, <3>3, <4>1, HeldGrows
        <4>. QED BY <1>a, <3>1, <4>2
      <3>5. LeaderSound(H, B, j, node[j])
        <4>. SUFFICES ASSUME node[j].role = "Leader" PROVE LeaderSound(H, B, j, node[j])
          BY DEF LeaderSound
        <4>1. H[node[j].currentTerm] = G[node[j].currentTerm]
          BY <2>2, OthersLead
        <4>2. LeaderSound(G, A, j, node[j])
          BY <3>1 DEF NodeSound
        <4>3. \A l \in Node : A[l][node[j].currentTerm] <= B[l][node[j].currentTerm]
          BY <1>1, <3>3 DEF Grows
        <4>4. \A l \in Node : A[l][node[j].currentTerm] \in Nat /\ B[l][node[j].currentTerm] \in Nat
          BY <1>1, <3>3, GhostValues
        <4>5. \A l \in Node : node[j].matchIndex[l] \in Nat
          BY <1>0 DEF NodeState, Indexes
        <4>6. \A l \in Node : node[j].matchIndex[l] <= B[l][node[j].currentTerm]
          BY <4>2, <4>3, <4>4, <4>5 DEF LeaderSound
        <4>. QED BY <3>2, <4>1, <4>2, <4>6 DEF LeaderSound
      <3>6. CommitSound(H, B, committed', node[j])
        BY <1>0, <1>1, <1>5, <3>1, CommitGrows DEF NodeSound
      <3>. QED BY <3>1, <3>4, <3>5, <3>6 DEF NodeSound
    <2>. QED BY <2>1, <2>2
  <1>7. ASSUME NEW k \in rpcs' PROVE AppendSound(H, B, committed', k)
    <2>1. CASE AppendSound(G, A, committed, k)
      BY <1>0, <1>1, <1>5, <2>1, AppendGrows
    <2>. QED BY <1>0, <2>1
  <1>8. VotesSound(H, B, Terms)'
    <2>1. LogsHeld(H, B)
      BY <1>6 DEF LogsHeld, NodeSound
    <2>2. VotesSound(G, A, Terms)
      BY DEF LogSound
    <2>. QED BY <2>1, <2>2, VotesStep
  <1>9. Won(H)'
    BY WonStep DEF LogSound
  <1>. QED BY <1>1, <1>5, <1>6, <1>7, <1>8, <1>9 DEF LogSound

-----------------------------------------------------------------------------
(* A critical section that completes.                                        *)

\* What the handler's last state r leaves of node i.
Done(r) == [r EXCEPT !.quota = MaxWrites, !.out = {}]

LEMMA DoneFields ==
    ASSUME NEW r \in NodeState
    PROVE  /\ Done(r) \in NodeState
           /\ Done(r).role = r.role /\ Done(r).currentTerm = r.currentTerm
           /\ Done(r).votedFor = r.votedFor /\ Done(r).votesReceived = r.votesReceived
           /\ Done(r).diskTerm = r.diskTerm /\ Done(r).diskVote = r.diskVote
           /\ Done(r).log = r.log /\ SameCommit(r, Done(r))
           /\ Done(r).nextIndex = r.nextIndex /\ Done(r).matchIndex = r.matchIndex
  BY ConstantType DEF Done, NodeState, SameCommit

\* Being sound does not depend on the outbox.
LEMMA DoneSound ==
    ASSUME NEW r \in NodeState, NEW com, NEW G, NEW A, NEW T, NEW i,
           NodeSound(G, A, T, Longest(com, r), i, r)
    PROVE  /\ Longest(com, Done(r)) = Longest(com, r)
           /\ NodeSound(G, A, T, Longest(com, Done(r)), i, Done(r))
  <1>. DEFINE d == Done(r)
  <1>1. /\ d.role = r.role /\ d.currentTerm = r.currentTerm /\ d.log = r.log
        /\ SameCommit(r, d) /\ d.nextIndex = r.nextIndex /\ d.matchIndex = r.matchIndex
    BY DoneFields
  <1>. HIDE DEF d
  <1>2. Longest(com, d) = Longest(com, r)
    BY <1>1 DEF Longest, SameCommit, CommittedLog, LastIndex
  <1>3. NodeSound(G, A, T, Longest(com, r), i, d)
    BY <1>1 DEF NodeSound, LeaderSound, CommitSound, SameCommit
  <1>. QED BY <1>2, <1>3 DEF d

\* Node i ran a handler to its end, which left r and took handled off the
\* network.
Runs(i, r, handled) ==
    /\ r \in NodeState /\ Moves(i, Done(r))
    /\ \A k \in rpcs' : k \in rpcs \ handled \/ k \in r.out

LEMMA CompletesRuns ==
    ASSUME TypeOK, TypeOK', ElectionInv, ElectionInv', NEW i \in Node, NEW r \in NodeState,
           NEW handled, NEW told, Completes(i, r, handled, told), VoteStep(node[i], r)
    PROVE  Runs(i, r, handled)
  <1>1. /\ Done(r) \in NodeState /\ Become(i, Done(r))
        /\ \A k \in rpcs' : k \in rpcs \ handled \/ k \in r.out
    <2>1. Become(i, Done(r)) /\ Send(rpcs \ handled, r.out)
      BY Zenon DEF Completes, Done
    <2>. QED BY <2>1, DoneFields DEF Send
  <1>2. VoteStep(node[i], Done(r))
    BY DoneFields DEF VoteStep, IsSaved
  <1>. QED BY <1>1, <1>2 DEF Runs, Moves

\* The step keeps the invariant, and the committed log only grows.
LogKept == LogInv' /\ Agree(committed, committed', Len(committed))

\* The calls that concern a log are old ones or r's.
LEMMA CompletedLog ==
    ASSUME NEW i, NEW r, NEW handled, Runs(i, r, handled), Votes(i, Done(r)),
           NEW G, NEW A, NEW H, NEW B, Turns(G, A, H, B), Alone(G, A, H, B, i, r),
           CallersElected, LogSound(G, A),
           NodeSound(H, B, Terms', Longest(committed, r), i, r),
           SendsSound(H, B, Longest(committed, r), i, r)
    PROVE  LogKept
  <1>. DEFINE d == Done(r)
  <1>1. /\ r \in NodeState /\ Moves(i, d) /\ d.role = r.role /\ d.currentTerm = r.currentTerm
        /\ \A k \in rpcs' : k \in rpcs \/ k \in r.out
    BY DoneFields DEF Runs
  <1>2. /\ Longest(committed, d) = Longest(committed, r)
        /\ NodeSound(H, B, Terms', Longest(committed, d), i, d)
    BY <1>1, DoneSound
  <1>. HIDE DEF d
  <1>3. \A k \in rpcs' : \/ AppendSound(G, A, committed, k)
                         \/ AppendSound(H, B, Longest(committed, d), k)
    BY <1>1, <1>2 DEF LogSound, SendsSound
  <1>4. Alone(G, A, H, B, i, d)
    BY <1>1 DEF Alone
  <1>5. LogSound(H, B)' /\ Agree(committed, committed', Len(committed))
    BY <1>1, <1>2, <1>3, <1>4, LogStep DEF d
  <1>6. CallersElected'
    <2>1. /\ elected \subseteq elected'
          /\ r.role = "Leader" => [term |-> r.currentTerm, leader |-> i] \in elected'
      BY <1>1, MovesFacts
    <2>. SUFFICES ASSUME NEW k \in rpcs', IsAppend(k)
                  PROVE  /\ k.caller # k.peer
                         /\ k.type = "AppendEntries"
                            => [term |-> k.term, leader |-> k.caller] \in elected'
      BY DEF CallersElected
    <2>2. CASE k \in rpcs
      BY <2>1, <2>2 DEF CallersElected
    <2>3. CASE k \in r.out
      BY <2>1, <2>3 DEF SendsSound, IsAppend
    <2>. QED BY <1>1, <2>2, <2>3
  <1>7. H \in [Nat -> Log] /\ B \in [Node -> [Nat -> Nat]]
    BY DEF Turns, GhostType
  <1>. QED BY <1>5, <1>6, <1>7 DEF LogInv, LogKept

\* No vote is asked for, given or counted.
LEMMA QuietVotes ==
    ASSUME NEW i, NEW r, NEW handled, Runs(i, r, handled), Quiet(node[i], r),
           r.role = "Candidate" => r.log = node[i].log
    PROVE  Votes(i, Done(r))
  <1>. DEFINE d == Done(r)
  <1>1. /\ r \in NodeState /\ d.role = r.role /\ d.currentTerm = r.currentTerm
        /\ d.votesReceived = r.votesReceived /\ d.log = r.log
        /\ \A k \in rpcs' : k \in rpcs \/ k \in r.out
    BY DoneFields DEF Runs
  <1>. HIDE DEF d
  <1>2. \A k \in rpcs' : VoteCall(k) => k \in rpcs
    BY <1>1 DEF Quiet
  <1>3. \A k \in rpcs' : VoteCall(k) => Continues(k)
    BY <1>2 DEF Continues, SameCall
  <1>4. \A k \in rpcs' : k.type = "RequestVote" => Asked(k, i, d)
    BY <1>2 DEF VoteCall, Asked, SameCall
  <1>5. \A k \in rpcs' : k.type = "RequestVoteResponse" /\ k.granted => Granted(k, i, d)
    BY <1>2 DEF VoteCall, Granted
  <1>6. d.role = "Candidate" => Stands(i, d)
    BY <1>1 DEF Quiet, Stands
  <1>. QED BY <1>3, <1>4, <1>5, <1>6 DEF Votes, d

\* Node i stands for the next term, and says what log it has.
LEMMA CampaignedVotes ==
    ASSUME NEW i, NEW r, NEW handled, Runs(i, r, handled), Campaigned(i, node[i], r), Asks(r),
           r.role = "Candidate" => r.log = node[i].log
    PROVE  Votes(i, Done(r))
  <1>. DEFINE d == Done(r)
  <1>1. /\ r \in NodeState /\ d.role = r.role /\ d.currentTerm = r.currentTerm
        /\ d.votesReceived = r.votesReceived /\ d.log = r.log
        /\ \A k \in rpcs' : k \in rpcs \/ k \in r.out
        /\ Moves(i, d)
    BY DoneFields DEF Runs
  <1>2. LastIndex(d) = LastIndex(r) /\ LastTerm(d) = LastTerm(r)
    BY <1>1 DEF LastIndex, LastTerm, TermAt
  <1>. HIDE DEF d
  <1>3. node[i].currentTerm \in Nat /\ d.currentTerm > node[i].currentTerm
    <2>1. node[i] \in NodeState
      BY <1>1, MovesFacts
    <2>. QED BY <1>1, <2>1 DEF NodeState, Campaigned
  <1>4. \A k \in rpcs' : VoteCall(k) => k \in rpcs \/ (k \in r.out /\ Begins(k, i, d))
    BY <1>1, <1>3 DEF Campaigned, Begins
  <1>5. \A k \in rpcs' : VoteCall(k) => Continues(k) \/ Begins(k, i, d)
    BY <1>4 DEF Continues, SameCall
  <1>6. \A k \in rpcs' : k.type = "RequestVote" => Asked(k, i, d)
    BY <1>2, <1>4 DEF VoteCall, Asked, SameCall, Asks
  <1>7. \A k \in rpcs' : k.type = "RequestVoteResponse" /\ k.granted => Granted(k, i, d)
    BY <1>4 DEF VoteCall, Granted, Begins
  <1>8. d.role = "Candidate" => Stands(i, d)
    BY <1>1, <1>3 DEF Campaigned, Stands
  <1>. QED BY <1>5, <1>6, <1>7, <1>8 DEF Votes, d

\* Candidate i counts the vote that m grants.
LEMMA CountedVotes ==
    ASSUME NEW m \in rpcs, m.type = "RequestVoteResponse", NEW i, i = m.caller, NEW r,
           Runs(i, r, {m}), Counted(node[i], m, r),
           r.role = "Candidate" => r.log = node[i].log
    PROVE  Votes(i, Done(r))
  <1>. DEFINE d == Done(r)
  <1>1. /\ r \in NodeState /\ d.role = r.role /\ d.currentTerm = r.currentTerm
        /\ d.votesReceived = r.votesReceived /\ d.log = r.log
        /\ \A k \in rpcs' : k \in rpcs \ {m} \/ k \in r.out
    BY DoneFields DEF Runs
  <1>. HIDE DEF d
  <1>2. \A k \in rpcs' : VoteCall(k) => k \in rpcs /\ k # m
    BY <1>1 DEF Counted
  <1>3. \A k \in rpcs' : VoteCall(k) => Continues(k)
    BY <1>2 DEF Continues, SameCall
  <1>4. \A k \in rpcs' : k.type = "RequestVote" => Asked(k, i, d)
    BY <1>2 DEF VoteCall, Asked, SameCall
  <1>5. \A k \in rpcs' : k.type = "RequestVoteResponse" /\ k.granted => Granted(k, i, d)
    BY <1>2 DEF VoteCall, Granted
  <1>6. d.role = "Candidate" => Stands(i, d)
    <2>. SUFFICES ASSUME d.role = "Candidate" PROVE Stands(i, d)
      OBVIOUS
    <2>1. Counts(i, d)
      BY <1>1, <1>2 DEF Counted, Counts
    <2>. QED BY <1>1, <2>1 DEF Stands
  <1>. QED BY <1>3, <1>4, <1>5, <1>6 DEF Votes, d

\* Voter i answers request m, having compared the logs.
LEMMA RepliedVotes ==
    ASSUME NEW m \in rpcs, m.type = "RequestVote", NEW i, i = m.peer, NEW r, Runs(i, r, {m}),
           Replied(node[i], m, r), r.log = node[i].log,
           \A k \in r.out : k.type = "RequestVoteResponse" /\ k.granted
                            => CandidateLogUpToDate(node[i], m)
    PROVE  Votes(i, Done(r))
  <1>. DEFINE d == Done(r)
  <1>1. /\ r \in NodeState /\ d.role = r.role /\ d.currentTerm = r.currentTerm
        /\ d.votesReceived = r.votesReceived /\ d.log = r.log
        /\ \A k \in rpcs' : k \in rpcs \/ k \in r.out
    BY DoneFields DEF Runs
  <1>. HIDE DEF d
  <1>2. \A k \in r.out : /\ k.type = "RequestVoteResponse" /\ SameCall(k, m)
                         /\ k.granted => d.currentTerm = m.term
    BY <1>1 DEF Replied
  <1>3. \A k \in rpcs' : VoteCall(k) => Continues(k)
    BY <1>1, <1>2 DEF Continues, SameCall, VoteCall
  <1>4. \A k \in rpcs' : k.type = "RequestVote" => Asked(k, i, d)
    BY <1>1, <1>2 DEF VoteCall, Asked, SameCall
  <1>5. ASSUME NEW k \in rpcs', k.type = "RequestVoteResponse", k.granted PROVE Granted(k, i, d)
    <2>1. CASE k \in rpcs
      BY <2>1 DEF Granted
    <2>2. CASE k \in r.out
      <3>1. SameCall(k, m) /\ d.currentTerm = m.term /\ CandidateLogUpToDate(node[i], m)
        BY <1>2, <1>5, <2>2
      <3>. QED BY <1>1, <3>1 DEF Granted
    <2>. QED BY <1>1, <2>1, <2>2
  <1>6. d.role = "Candidate" => Stands(i, d)
    BY <1>1 DEF Replied, Stands
  <1>. QED BY <1>3, <1>4, <1>5, <1>6 DEF Votes, d

-----------------------------------------------------------------------------
(* A critical section that is cut short by a crash.                          *)

\* Call k is call m, although nobody may wait for its answer any more.
Echoes(k, m) ==
    /\ k.type = m.type /\ k.caller = m.caller /\ k.peer = m.peer
    /\ m.type = "RequestVote" => /\ k.term = m.term
                                 /\ k.lastLogIndex = m.lastLogIndex
                                 /\ k.lastLogTerm = m.lastLogTerm
    /\ m.type = "AppendEntries" => /\ k.term = m.term /\ k.entries = m.entries
                                   /\ k.prevLogIndex = m.prevLogIndex
                                   /\ k.prevLogTerm = m.prevLogTerm
                                   /\ k.leaderCommit = m.leaderCommit
    /\ ~IsRequest(m) => k = m

\* Node i died and left the disk of r.
Falls(i, r) ==
    /\ r \in NodeState /\ Moves(i, NewRaftNode(r))
    /\ \A k \in rpcs' : (k.caller # i => k \in rpcs) /\ \E m \in rpcs : Echoes(k, m)

LEMMA DiesFalls ==
    ASSUME TypeOK, TypeOK', ElectionInv, ElectionInv', NEW i \in Node, NEW r \in NodeState,
           NEW handled, Dies(i, r, handled), DiskStep(node[i], r)
    PROVE  Falls(i, r)
  <1>. DEFINE d == NewRaftNode(r)
  <1>1. d \in NodeState
    BY NewRaftNodeType DEF NodeState
  <1>2. /\ d.currentTerm = r.diskTerm /\ d.votedFor = r.diskVote
        /\ d.diskTerm = r.diskTerm /\ d.diskVote = r.diskVote
    BY DEF NewRaftNode
  <1>3. Become(i, d) /\ rpcs' = Orphan(rpcs \ handled, i)
    BY DEF Dies
  <1>. HIDE DEF d
  <1>4. VoteStep(node[i], d)
    BY <1>2 DEF VoteStep, DiskStep, IsSaved
  <1>5. ASSUME NEW k \in rpcs'
        PROVE  (k.caller # i => k \in rpcs) /\ \E m \in rpcs : Echoes(k, m)
    <2>1. ASSUME NEW m \in rpcs, IsRequest(m) PROVE Echoes([m EXCEPT !.open = FALSE], m)
      <3>1. m \in VoteRequest \/ m \in AppendRequest
        BY <2>1, MessageKind DEF TypeOK, IsRequest
      <3>2. CASE m \in VoteRequest
        BY <2>1, <3>2 DEF VoteRequest, Echoes
      <3>3. CASE m \in AppendRequest
        BY <2>1, <3>3 DEF AppendRequest, Echoes
      <3>. QED BY <3>1, <3>2, <3>3
    <2>2. \/ k \in rpcs /\ k.caller # i
          \/ \E m \in rpcs : IsRequest(m) /\ m.caller = i /\ k = [m EXCEPT !.open = FALSE]
      BY <1>3 DEF Orphan
    <2>3. CASE k \in rpcs
      BY <2>3 DEF Echoes
    <2>4. ASSUME NEW m \in rpcs, IsRequest(m), m.caller = i, k = [m EXCEPT !.open = FALSE]
          PROVE  k.caller = i /\ Echoes(k, m)
      BY <2>1, <2>4 DEF Echoes
    <2>. QED BY <2>2, <2>3, <2>4
  <1>. QED BY <1>1, <1>3, <1>4, <1>5 DEF Falls, Moves, d

\* No vote is asked for, given or counted in a crash.
LEMMA FallsVotes ==
    ASSUME NEW i, NEW r, Falls(i, r)
    PROVE  Votes(i, NewRaftNode(r))
  <1>. DEFINE d == NewRaftNode(r)
  <1>1. d.role = "Follower"
    BY DEF NewRaftNode
  <1>2. \A k \in rpcs' : \E m \in rpcs : Echoes(k, m)
    BY DEF Falls
  <1>. HIDE DEF d
  <1>3. \A k \in rpcs' : VoteCall(k) => Continues(k)
    BY <1>2 DEF Continues, SameCall, VoteCall, Echoes, IsRequest, CallTerm
  <1>4. \A k \in rpcs' : k.type = "RequestVote" => Asked(k, i, d)
    BY <1>2 DEF Echoes, Asked, SameCall, CallTerm
  <1>5. \A k \in rpcs' : k.type = "RequestVoteResponse" /\ k.granted => Granted(k, i, d)
    BY <1>2 DEF Echoes, Granted, IsRequest
  <1>. QED BY <1>1, <1>3, <1>4, <1>5 DEF Votes, d

\* What is on disk must be as sound as the log of a running node: the rest is
\* forgotten.
LEMMA CrashedLog ==
    ASSUME NEW i, NEW r, Falls(i, r), NEW G, NEW A, NEW H, NEW B, Turns(G, A, H, B),
           Alone(G, A, H, B, i, NewRaftNode(r)), CallersElected, LogSound(G, A),
           LogHeld(H, B, Terms', i, r.log, r.diskTerm)
    PROVE  LogKept
  <1>. DEFINE d == NewRaftNode(r)
  <1>1. /\ d.role = "Follower" /\ d.currentTerm = r.diskTerm /\ d.log = r.log
        /\ d.commitIndex = 0 /\ d.lastApplied = 0 /\ d.kv = {}
    BY DEF NewRaftNode
  <1>2. Moves(i, d) /\ \A k \in rpcs' : \E m \in rpcs : Echoes(k, m)
    BY DEF Falls
  <1>. HIDE DEF d
  <1>3. Votes(i, d)
    BY FallsVotes DEF d
  <1>4. Longest(committed, d) = committed /\ committed \in Log
    BY <1>1, <1>2, MovesFacts DEF Longest
  <1>5. NodeSound(H, B, Terms', Longest(committed, d), i, d)
    <2>1. AppliedPrefix(committed, 0) = {}
      BY DEF AppliedPrefix
    <2>2. 0 <= Len(committed)
      BY <1>4, LogLength
    <2>. QED BY <1>1, <1>4, <2>1, <2>2 DEF NodeSound, LeaderSound, CommitSound, Settled
  <1>6. ASSUME NEW k \in rpcs' PROVE AppendSound(G, A, committed, k)
    <2>1. PICK m \in rpcs : Echoes(k, m)
      BY <1>2
    <2>2. AppendSound(G, A, committed, m)
      BY DEF LogSound
    <2>. QED BY <2>1, <2>2 DEF AppendSound, Echoes, IsRequest
  <1>7. LogSound(H, B)' /\ Agree(committed, committed', Len(committed))
    BY <1>2, <1>3, <1>5, <1>6, LogStep DEF d
  <1>8. CallersElected'
    <2>1. elected \subseteq elected'
      BY <1>2, MovesFacts
    <2>. SUFFICES ASSUME NEW k \in rpcs', IsAppend(k)
                  PROVE  /\ k.caller # k.peer
                         /\ k.type = "AppendEntries"
                            => [term |-> k.term, leader |-> k.caller] \in elected'
      BY DEF CallersElected
    <2>2. PICK m \in rpcs : Echoes(k, m)
      BY <1>2
    <2>3. /\ IsAppend(m) /\ m.caller # m.peer
          /\ m.type = "AppendEntries" => [term |-> m.term, leader |-> m.caller] \in elected
      BY <2>2 DEF CallersElected, Echoes, IsAppend
    <2>4. k.type = m.type /\ k.caller = m.caller /\ k.peer = m.peer
          /\ (m.type = "AppendEntries" => k.term = m.term)
      BY <2>2 DEF Echoes
    <2>. QED BY <2>1, <2>3, <2>4
  <1>9. H \in [Nat -> Log] /\ B \in [Node -> [Nat -> Nat]]
    BY DEF Turns, GhostType
  <1>. QED BY <1>7, <1>8, <1>9 DEF LogInv, LogKept

-----------------------------------------------------------------------------
(* The handlers that leave the leaders' logs alone.                          *)

\* The invariant, with its ghosts named.
Holds(G, A) ==
    /\ G \in [Nat -> Log] /\ A \in [Node -> [Nat -> Nat]]
    /\ CallersElected /\ LogSound(G, A)

\* No ghost has to change.
LEMMA SameGhosts ==
    ASSUME NEW i, NEW d, Moves(i, d), NEW G, NEW A, Holds(G, A)
    PROVE  /\ Turns(G, A, G, A) /\ Alone(G, A, G, A, i, d)
           /\ GhostType(G, A, Terms) /\ GhostType(G, A, Terms')
           /\ Grows(G, A, Terms, G, A, Terms') /\ GhostSound(G, A, Terms)
           /\ LogHeld(G, A, Terms', i, node[i].log, d.currentTerm)
  <1>1. /\ i \in Node /\ node'[i] = d
        /\ \A j \in Node : /\ Terms[j] = node[j].currentTerm
                           /\ Terms'[j] = node'[j].currentTerm
                           /\ Terms[j] \in Nat /\ Terms'[j] \in Nat /\ Terms[j] <= Terms'[j]
        /\ Terms \in [Node -> Nat] /\ Terms' \in [Node -> Nat]
        /\ node[i].log \in Log
    BY MovesFacts DEF NodeState
  <1>2. GhostType(G, A, Terms) /\ GhostType(G, A, Terms')
    BY <1>1 DEF Holds, GhostType
  <1>3. Grows(G, A, Terms, G, A, Terms')
    <2>1. \A t \in Nat : Agree(G[t], G[t], Len(G[t]))
      BY <1>2, GhostValues, AgreeRefl
    <2>2. \A j \in Node, t \in Nat : A[j][t] <= A[j][t]
      <3>1. \A j \in Node, t \in Nat : A[j][t] \in Nat
        BY <1>2, GhostValues
      <3>. QED BY <3>1
    <2>. QED BY <1>1, <2>1, <2>2 DEF Grows
  <1>4. GhostSound(G, A, Terms) /\ LogHeld(G, A, Terms, i, node[i].log, Terms[i])
    BY <1>1 DEF Holds, LogSound, NodeSound
  <1>5. GhostSound(G, A, Terms')
    <2>1. \A j \in Node, t \in Nat : A[j][t] <= Len(G[t]) /\ (A[j][t] > 0 => Terms[j] >= t)
      BY <1>4 DEF GhostSound
    <2>2. \A j \in Node, t \in Nat : A[j][t] > 0 => Terms'[j] >= t
      BY <1>1, <2>1
    <2>. QED BY <1>2, <1>3, <1>4, <2>1, <2>2, GhostKeeps
  <1>6. LogHeld(G, A, Terms', i, node[i].log, d.currentTerm)
    BY <1>1, <1>2, <1>3, <1>4, HeldGrows
  <1>. QED BY <1>2, <1>3, <1>4, <1>5, <1>6 DEF Turns, Alone

\* A node that dies with the log it had.
LEMMA SameLogCrash ==
    ASSUME NEW i, NEW r, Falls(i, r), r.log = node[i].log, LogInv
    PROVE  LogKept
  <1>1. PICK G, A : Holds(G, A)
    BY DEF LogInv, Holds
  <1>2. Moves(i, NewRaftNode(r)) /\ NewRaftNode(r).currentTerm = r.diskTerm
    BY DEF Falls, NewRaftNode
  <1>3. /\ Turns(G, A, G, A) /\ Alone(G, A, G, A, i, NewRaftNode(r))
        /\ LogHeld(G, A, Terms', i, r.log, r.diskTerm)
    BY <1>1, <1>2, SameGhosts
  <1>. QED BY <1>1, <1>3, CrashedLog DEF Holds

\* Whatever r sends of a log is a refusal.
Refuses(r) ==
    \A k \in r.out : IsAppend(k) => k.type = "AppendEntriesResponse" /\ ~k.success
                                    /\ k.caller # k.peer

LEMMA RefusesSound ==
    ASSUME NEW r, Refuses(r), NEW G, NEW A, NEW com, NEW i
    PROVE  SendsSound(G, A, com, i, r)
  BY DEF Refuses, SendsSound, AppendSound, IsAppend

\* A completed section that leaves log and commit index alone.
LEMMA StillLog ==
    ASSUME NEW i, NEW r, NEW handled, Runs(i, r, handled), Votes(i, Done(r)),
           Still(node[i], r), Refuses(r), LogInv
    PROVE  LogKept
  <1>. DEFINE n == node[i]
  <1>1. PICK G, A : Holds(G, A)
    BY DEF LogInv, Holds
  <1>2. Moves(i, Done(r)) /\ r \in NodeState /\ Done(r).currentTerm = r.currentTerm
    BY DoneFields DEF Runs
  <1>3. /\ i \in Node /\ n \in NodeState /\ Terms[i] = n.currentTerm
        /\ Terms'[i] = r.currentTerm /\ Terms[i] <= Terms'[i]
        /\ committed \in Log
    <2>. HIDE DEF n
    <2>1. /\ i \in Node /\ node[i] \in NodeState /\ node'[i] = Done(r)
          /\ Terms[i] = node[i].currentTerm /\ Terms'[i] = node'[i].currentTerm
          /\ Terms[i] <= Terms'[i] /\ committed \in Log
      BY <1>2, MovesFacts
    <2>. QED BY <1>2, <2>1 DEF n
  <1>4. /\ Turns(G, A, G, A) /\ Alone(G, A, G, A, i, Done(r))
        /\ GhostType(G, A, Terms) /\ GhostType(G, A, Terms')
        /\ Grows(G, A, Terms, G, A, Terms')
        /\ LogHeld(G, A, Terms', i, n.log, Done(r).currentTerm)
    BY <1>1, <1>2, SameGhosts
  <1>5. NodeSound(G, A, Terms, committed, i, n)
    BY <1>1, <1>3 DEF Holds, LogSound
  <1>6. /\ n.commitIndex \in Nat /\ n.currentTerm \in Nat /\ r.currentTerm \in Nat
        /\ n.log \in Log /\ Len(n.log) \in Nat /\ Len(committed) \in Nat
        /\ \A j \in Node : n.nextIndex[j] \in Nat /\ r.nextIndex[j] \in Nat
    BY <1>2, <1>3, LogLength DEF NodeState, Indexes
  <1>. HIDE DEF n
  <1>s. Still(n, r)
    BY DEF n
  <1>7. Longest(committed, r) = committed
    BY <1>5, <1>6, <1>s DEF NodeSound, CommitSound, Still, Longest
  <1>8. LogHeld(G, A, Terms', i, r.log, r.currentTerm)
    BY <1>2, <1>4, <1>s, DoneFields DEF Still
  <1>9. LeaderSound(G, A, i, r)
    <2>. SUFFICES ASSUME r.role = "Leader" PROVE LeaderSound(G, A, i, r)
      BY DEF LeaderSound
    <2>1. /\ n.role = "Leader" /\ r.currentTerm = n.currentTerm /\ r.log = n.log
          /\ r.matchIndex = n.matchIndex
          /\ \A j \in Node : r.nextIndex[j] <= n.nextIndex[j] \/ r.nextIndex[j] <= 1
      BY <1>s DEF Still
    <2>2. LeaderSound(G, A, i, n)
      BY <1>5 DEF NodeSound
    <2>3. \A j \in Node : r.nextIndex[j] <= Len(n.log) + 1
      BY <1>6, <2>1, <2>2 DEF LeaderSound
    <2>. QED BY <2>1, <2>2, <2>3 DEF LeaderSound
  <1>10. CommitSound(G, A, committed, r)
    <2>1. CommitSound(G, A, committed, n)
      BY <1>5 DEF NodeSound
    <2>2. Settled(G, A, n.log, n.commitIndex, r.currentTerm)
      BY <1>3, <1>4, <1>6, <2>1, SettledGrows DEF CommitSound
    <2>. QED BY <1>s, <2>1, <2>2 DEF Still, CommitSound
  <1>11. Alone(G, A, G, A, i, r)
    BY <1>4 DEF Alone
  <1>. QED BY <1>1, <1>4, <1>7, <1>8, <1>9, <1>10, <1>11, RefusesSound, CompletedLog
           DEF Holds, NodeSound

\* A completed section of a node that stays in its term and stays sound.
LEMMA SameTermLog ==
    ASSUME NEW i, NEW r, NEW handled, Runs(i, r, handled), Votes(i, Done(r)),
           r.currentTerm = node[i].currentTerm, NEW G, NEW A, Holds(G, A),
           NodeSound(G, A, Terms, Longest(committed, r), i, r),
           SendsSound(G, A, Longest(committed, r), i, r)
    PROVE  LogKept
  <1>1. Moves(i, Done(r)) /\ r \in NodeState /\ Done(r).currentTerm = r.currentTerm
    BY DoneFields DEF Runs
  <1>2. Turns(G, A, G, A) /\ Alone(G, A, G, A, i, r)
    BY <1>1, SameGhosts DEF Alone
  <1>3. Terms' = Terms
    <2>1. /\ i \in Node /\ node'[i].currentTerm = node[i].currentTerm
          /\ \A j \in Node : j # i => node'[j] = node[j]
      BY <1>1, MovesFacts
    <2>2. \A j \in Node : node'[j].currentTerm = node[j].currentTerm
      BY <2>1
    <2>. QED BY <2>2 DEF Terms
  <1>. QED BY <1>2, <1>3, CompletedLog DEF Holds

\* What the invariant says of node i.
LEMMA HoldsFacts ==
    ASSUME NEW i, NEW d, Moves(i, d), NEW G, NEW A, Holds(G, A)
    PROVE  /\ i \in Node /\ node[i] \in NodeState /\ node[i].log \in Log
           /\ node[i].currentTerm \in Nat /\ node[i].out = {} /\ IsSaved(node[i])
           /\ node[i].quota = MaxWrites
           /\ Terms[i] = node[i].currentTerm /\ committed \in Log
           /\ GhostType(G, A, Terms) /\ GhostSound(G, A, Terms)
           /\ NodeSound(G, A, Terms, committed, i, node[i])
           /\ \E v \in Nat : Settled(G, A, committed, Len(committed), v)
           /\ \A m \in rpcs : m \in Message /\ AppendSound(G, A, committed, m)
  <1>1. /\ i \in Node /\ node[i] \in NodeState /\ Terms[i] = node[i].currentTerm
        /\ committed \in Log /\ rpcs \subseteq Message
    BY MovesFacts
  <1>2. node[i].out = {} /\ node[i].quota = MaxWrites /\ IsSaved(node[i])
    BY <1>1 DEF Moves, TypeOK, ElectionInv, BallotInv, Saved, IsSaved
  <1>3. GhostType(G, A, Terms) /\ GhostSound(G, A, Terms)
    BY SameGhosts
  <1>4. node[i].log \in Log /\ node[i].currentTerm \in Nat
    BY <1>1 DEF NodeState
  <1>. QED BY <1>1, <1>2, <1>3, <1>4 DEF Holds, LogSound

\* The heartbeats of a leader.
LEMMA HeartbeatLog ==
    ASSUME NEW i, NEW r, r = BroadcastAppendEntries(i, node[i]), Runs(i, r, {}), LogInv
    PROVE  LogKept
  <1>. DEFINE n == node[i]
  <1>1. PICK G, A : Holds(G, A)
    BY DEF LogInv, Holds
  <1>2. Moves(i, Done(r)) /\ r \in NodeState
    BY DEF Runs
  <1>3. /\ i \in Node /\ n \in NodeState /\ n.log \in Log /\ n.out = {} /\ IsSaved(n)
        /\ committed \in Log /\ NodeSound(G, A, Terms, committed, i, n)
    BY <1>1, <1>2, HoldsFacts
  <1>. HIDE DEF n
  <1>4. SendsSound(G, A, committed, i, n) /\ Peers(i) \in SUBSET Peers(i)
    BY <1>3 DEF SendsSound
  <1>5. r = SendAppendEntries(i, n, Peers(i))
    BY DEF BroadcastAppendEntries, n
  <1>6. /\ NodeSound(G, A, Terms, committed, i, r) /\ SendsSound(G, A, committed, i, r)
        /\ r.currentTerm = n.currentTerm /\ r.commitIndex = n.commitIndex /\ r.log = n.log
    BY <1>3, <1>4, <1>5, SendAppendEntriesSound
  <1>7. Longest(committed, r) = committed
    <2>1. n.commitIndex \in Nat /\ n.commitIndex <= Len(committed) /\ Len(committed) \in Nat
      BY <1>3, LogLength DEF NodeSound, CommitSound, NodeState
    <2>. QED BY <1>6, <2>1 DEF Longest
  <1>8. Quiet(n, r)
    BY <1>3, SendAppendEntriesCalm, CalmStep DEF n
  <1>9. Votes(i, Done(r))
    BY <1>6, <1>8, QuietVotes DEF n
  <1>. QED BY <1>1, <1>6, <1>7, <1>9, SameTermLog DEF n

\* An answer to AppendEntries.
LEMMA ResponseLog ==
    ASSUME NEW m \in rpcs, m.type = "AppendEntriesResponse", NEW i, i = m.caller, NEW r,
           r = HandleAppendEntriesResponse(i, node[i], m), Runs(i, r, {m}), LogInv
    PROVE  LogKept
  <1>. DEFINE n == node[i]
  <1>1. PICK G, A : Holds(G, A)
    BY DEF LogInv, Holds
  <1>2. Moves(i, Done(r)) /\ r \in NodeState
    BY DEF Runs
  <1>3. /\ i \in Node /\ n \in NodeState /\ n.log \in Log /\ n.out = {} /\ IsSaved(n)
        /\ committed \in Log /\ NodeSound(G, A, Terms, committed, i, n)
        /\ GhostType(G, A, Terms) /\ GhostSound(G, A, Terms)
        /\ m \in Message /\ AppendSound(G, A, committed, m)
    BY <1>1, <1>2, HoldsFacts
  <1>4. PICK v \in Nat : Settled(G, A, committed, Len(committed), v)
    BY <1>1, <1>2, HoldsFacts
  <1>5. m \in AppendResponse /\ m.peer # i
    <2>1. m \in AppendResponse
      BY <1>3, MessageKind
    <2>2. m.caller # m.peer
      BY <1>1 DEF Holds, CallersElected, IsAppend
    <2>. QED BY <2>1, <2>2
  <1>6. Quiet(n, r) /\ r.log = n.log
    BY <1>3, <1>5, HandleAppendEntriesResponseStep, HandleAppendEntriesResponseLog DEF n
  <1>7. Votes(i, Done(r))
    BY <1>6, QuietVotes DEF n
  <1>8. \/ Still(n, r) /\ r.out = {}
        \/ /\ r.currentTerm = n.currentTerm
           /\ NodeSound(G, A, Terms, Longest(committed, r), i, r)
           /\ SendsSound(G, A, Longest(committed, r), i, r)
    BY <1>3, <1>4, <1>5, HandleAppendEntriesResponseSound DEF n
  <1>9. CASE Still(n, r) /\ r.out = {}
    BY <1>7, <1>9, StillLog DEF Refuses, n
  <1>10. CASE /\ r.currentTerm = n.currentTerm
              /\ NodeSound(G, A, Terms, Longest(committed, r), i, r)
              /\ SendsSound(G, A, Longest(committed, r), i, r)
    BY <1>1, <1>7, <1>10, SameTermLog DEF n
  <1>. QED BY <1>8, <1>9, <1>10

-----------------------------------------------------------------------------
(* A follower stores a batch.                                                *)

\* n is node[i], with any number of transactions left.
Starts(i, n) ==
    /\ n \in NodeState /\ IsSaved(n) /\ n.out = {}
    /\ n.currentTerm = node[i].currentTerm /\ n.role = node[i].role /\ n.log = node[i].log
    /\ n.votesReceived = node[i].votesReceived /\ n.diskTerm = node[i].diskTerm
    /\ n.preVotes = node[i].preVotes

\* No node gets a batch of its own term while it leads.
LEMMA BatchArrives ==
    ASSUME NEW m \in rpcs, m.type = "AppendEntries", NEW i, i = m.peer, NEW d, Moves(i, d),
           NEW G, NEW A, Holds(G, A), NEW n, Starts(i, n), n.currentTerm <= m.term
    PROVE  /\ Arrives(G, n, m) /\ AppendSound(G, A, committed, m) /\ m \in AppendRequest
           /\ m.caller # m.peer /\ m.term \in Nat
  <1>1. /\ i \in Node /\ m \in Message /\ AppendSound(G, A, committed, m)
        /\ GhostType(G, A, Terms) /\ GhostSound(G, A, Terms)
        /\ NodeSound(G, A, Terms, committed, i, node[i])
    BY HoldsFacts
  <1>2. m \in AppendRequest /\ m.term \in Nat
    BY <1>1, MessageKind, BatchValues
  <1>3. m.caller # m.peer /\ [term |-> m.term, leader |-> m.caller] \in elected
    BY DEF Holds, CallersElected, IsAppend
  <1>4. G \in [Nat -> Log] /\ Backed(G, G[m.term]) /\ Backed(G, n.log)
    BY <1>1, <1>2 DEF Holds, GhostSound, NodeSound, LogHeld, Starts
  <1>5. Carries(m, G[m.term])
    BY <1>1 DEF AppendSound, Carries
  <1>6. ASSUME n.role = "Leader", n.currentTerm = m.term PROVE FALSE
    <2>1. [term |-> m.term, leader |-> i] \in elected
      BY <1>1, <1>6 DEF Moves, ElectionInv, LeadersElected, Starts
    <2>2. ASSUME NEW l, [term |-> m.term, leader |-> l] \in elected
          PROVE  Supporters(l, m.term) \in Quorum
      <3>. DEFINE e == [term |-> m.term, leader |-> l]
      <3>1. e.term = m.term /\ e.leader = l
        OBVIOUS
      <3>. HIDE DEF e
      <3>2. Cardinality(Supporters(e.leader, e.term)) >= Majority
        BY <2>2 DEF Moves, ElectionInv, LeadersElected, e
      <3>3. Cardinality(Supporters(l, m.term)) >= Majority
        BY <3>1, <3>2
      <3>. QED BY <3>3 DEF Quorum, Supporters
    <2>3. Supporters(i, m.term) \in Quorum /\ Supporters(m.caller, m.term) \in Quorum
      BY <1>3, <2>1, <2>2
    <2>4. \A a, b \in ballots : a.voter = b.voter /\ a.term = b.term => a = b
      BY DEF Moves, ElectionInv, BallotInv, OneVotePerTerm
    <2>5. /\ \A v \in Supporters(i, m.term) :
                [voter |-> v, term |-> m.term, candidate |-> i] \in ballots
          /\ \A v \in Supporters(m.caller, m.term) :
                [voter |-> v, term |-> m.term, candidate |-> m.caller] \in ballots
      BY DEF Supporters
    <2>6. i = m.caller
      BY <2>3, <2>4, <2>5, SoleWinner
    <2>. QED BY <1>3, <2>6
  <1>7. Arrives(G, n, m)
    BY <1>4, <1>5, <1>6 DEF Arrives, Starts
  <1>. QED BY <1>1, <1>2, <1>3, <1>7

\* Wherever it is cut short, the follower has lost nothing it had of a leader.
LEMMA BatchCrash ==
    ASSUME NEW m \in rpcs, m.type = "AppendEntries", NEW i, i = m.peer, NEW n, Starts(i, n),
           NEW r, r = HandleAppendEntries(n, m), Falls(i, r), LogInv
    PROVE  LogKept
  <1>. DEFINE d == NewRaftNode(r)
              t == m.term
  <1>1. PICK G, A : Holds(G, A)
    BY DEF LogInv, Holds
  <1>2. Moves(i, d) /\ r \in NodeState /\ d.currentTerm = r.diskTerm
    BY DEF Falls, NewRaftNode
  <1>3. m \in AppendRequest /\ n \in NodeState /\ n.log = node[i].log
        /\ n.currentTerm = node[i].currentTerm /\ n.currentTerm \in Nat /\ t \in Nat
    BY <1>1, <1>2, HoldsFacts, MessageKind, BatchValues DEF Starts
  <1>. HIDE DEF d
  <1>4. CASE r.log = n.log
    BY <1>3, <1>4, SameLogCrash
  <1>5. CASE r.log # n.log
    <2>1. t >= n.currentTerm
      BY <1>3, <1>5, RefusalStill DEF Still
    <2>2. Arrives(G, n, m)
      BY <1>1, <1>2, <2>1, BatchArrives
    <2>3. Reconciled(n.log, r.log, G[t]) /\ r.diskTerm = t
      BY <1>3, <1>5, <2>2, HandleAppendEntriesLog
    <2>4. /\ Turns(G, A, G, A) /\ Alone(G, A, G, A, i, d)
          /\ GhostType(G, A, Terms) /\ GhostType(G, A, Terms')
          /\ Grows(G, A, Terms, G, A, Terms') /\ GhostSound(G, A, Terms)
      BY <1>1, <1>2, SameGhosts
    <2>5. /\ i \in Node /\ Terms[i] = node[i].currentTerm /\ node[i].log \in Log
          /\ LogHeld(G, A, Terms, i, node[i].log, Terms[i])
      BY <1>1, <1>2, HoldsFacts DEF NodeSound
    <2>6. r.log \in Log
      BY <1>2 DEF NodeState
    <2>7. LogHeld(G, A, Terms', i, r.log, t)
      BY <1>3, <2>1, <2>3, <2>4, <2>5, <2>6, HeldReconciles
    <2>. QED BY <1>1, <2>3, <2>4, <2>7, CrashedLog DEF Holds, d
  <1>. QED BY <1>4, <1>5

\* The acknowledgements once node i has p entries of the leader of t.
Acked(A, i, t, p) ==
    [A EXCEPT ![i] = [s \in Nat |-> IF s = t /\ A[i][t] < p THEN p ELSE A[i][s]]]

Acks(A, i, t, p, B) ==
    /\ B \in [Node -> [Nat -> Nat]]
    /\ \A j \in Node : j # i => B[j] = A[j]
    /\ \A s \in Nat : s # t => B[i][s] = A[i][s]
    /\ p <= B[i][t] /\ A[i][t] <= B[i][t]
    /\ B[i][t] = A[i][t] \/ B[i][t] = p

LEMMA AckedValues ==
    ASSUME NEW A \in [Node -> [Nat -> Nat]], NEW i \in Node, NEW t \in Nat, NEW p \in Nat
    PROVE  Acks(A, i, t, p, Acked(A, i, t, p))
  <1>. DEFINE f == [s \in Nat |-> IF s = t /\ A[i][t] < p THEN p ELSE A[i][s]]
              B == Acked(A, i, t, p)
  <1>1. \A s \in Nat : A[i][s] \in Nat
    OBVIOUS
  <1>2. f \in [Nat -> Nat]
    BY <1>1
  <1>3. \A s \in Nat : s # t => f[s] = A[i][s]
    OBVIOUS
  <1>4. f[t] = IF A[i][t] < p THEN p ELSE A[i][t]
    OBVIOUS
  <1>. HIDE DEF f
  <1>5. p <= f[t] /\ A[i][t] <= f[t] /\ (f[t] = A[i][t] \/ f[t] = p)
    BY <1>1, <1>4
  <1>6. B = [A EXCEPT ![i] = f]
    BY DEF Acked, f
  <1>7. B \in [Node -> [Nat -> Nat]] /\ B[i] = f /\ \A j \in Node : j # i => B[j] = A[j]
    BY <1>2, <1>6
  <1>. QED BY <1>3, <1>5, <1>7 DEF Acks

\* What a step in which node i may acknowledge more of the leader of t, and
\* nothing else, makes of the ghosts.
LEMMA AckTurns ==
    ASSUME NEW i, NEW d, Moves(i, d), NEW G, NEW A, Holds(G, A), NEW t \in Nat,
           d.currentTerm = t, NEW p \in Nat, p <= Len(G[t])
    PROVE  /\ Turns(G, A, G, Acked(A, i, t, p))
           /\ \A q : Alone(G, A, G, Acked(A, i, t, p), i, q)
  <1>. DEFINE B == Acked(A, i, t, p)
  <1>1. /\ i \in Node /\ GhostType(G, A, Terms) /\ GhostSound(G, A, Terms)
        /\ GhostType(G, A, Terms') /\ Grows(G, A, Terms, G, A, Terms')
    BY HoldsFacts, SameGhosts
  <1>2. /\ B \in [Node -> [Nat -> Nat]]
        /\ \A j \in Node : j # i => B[j] = A[j]
        /\ \A s \in Nat : s # t => B[i][s] = A[i][s]
        /\ A[i][t] <= B[i][t]
        /\ B[i][t] = A[i][t] \/ B[i][t] = p
    <2>1. A \in [Node -> [Nat -> Nat]]
      BY DEF Holds
    <2>2. Acks(A, i, t, p, B)
      BY <1>1, <2>1, AckedValues, Zenon
    <2>. QED BY <2>2, Zenon DEF Acks
  <1>. HIDE DEF B
  <1>3. GhostType(G, B, Terms')
    BY <1>1, <1>2 DEF GhostType
  <1>4. /\ \A j \in Node : Terms[j] \in Nat /\ Terms'[j] \in Nat /\ Terms[j] <= Terms'[j]
        /\ Terms'[i] = t
    <2>1. /\ node'[i] = d /\ Terms'[i] = node'[i].currentTerm
          /\ \A j \in Node : Terms[j] \in Nat /\ Terms'[j] \in Nat /\ Terms[j] <= Terms'[j]
      BY <1>1, MovesFacts
    <2>. QED BY <2>1
  <1>5. \A j \in Node, s \in Nat : /\ A[j][s] \in Nat /\ B[j][s] \in Nat /\ A[j][s] <= Len(G[s])
                                   /\ A[j][s] > 0 => Terms[j] >= s
    BY <1>1, <1>3, GhostValues DEF GhostSound
  <1>6. Grows(G, A, Terms, G, B, Terms')
    <2>1. ASSUME NEW j \in Node, NEW s \in Nat
          PROVE  A[j][s] <= B[j][s] /\ (Terms[j] > s => B[j][s] = A[j][s])
      <3>1. CASE j # i \/ s # t
        <4>1. B[j][s] = A[j][s]
          BY <1>2, <3>1
        <4>. QED BY <1>5, <4>1
      <3>2. CASE j = i /\ s = t
        BY <1>1, <1>2, <1>4, <3>2, SMTT(30)
      <3>. QED BY <3>1, <3>2
    <2>. QED BY <1>1, <2>1 DEF Grows
  <1>7. ASSUME NEW j \in Node, NEW s \in Nat
        PROVE  B[j][s] <= Len(G[s]) /\ (B[j][s] > 0 => Terms'[j] >= s)
    <2>1. CASE B[j][s] = A[j][s]
      BY <1>4, <1>5, <2>1
    <2>2. CASE j = i /\ s = t /\ B[i][t] = p
      BY <1>1, <1>4, <2>2
    <2>. QED BY <1>1, <1>2, <2>1, <2>2
  <1>8. GhostSound(G, B, Terms')
    BY <1>1, <1>3, <1>6, <1>7, GhostKeeps
  <1>. QED BY <1>1, <1>2, <1>3, <1>6, <1>8 DEF Turns, Alone, B

\* A batch is refused, or found missing a predecessor, or stored.
LEMMA BatchLog ==
    ASSUME NEW m \in rpcs, m.type = "AppendEntries", NEW i, i = m.peer, NEW r,
           r = HandleAppendEntries(node[i], m), Runs(i, r, {m}), LogInv
    PROVE  LogKept
  <1>. DEFINE n == node[i]
              t == m.term
              p == m.prevLogIndex + Len(m.entries)
  <1>1. PICK G, A : Holds(G, A)
    BY DEF LogInv, Holds
  <1>2. Moves(i, Done(r)) /\ r \in NodeState /\ Done(r).currentTerm = r.currentTerm
    BY DoneFields DEF Runs
  <1>3. /\ i \in Node /\ n \in NodeState /\ n.out = {} /\ IsSaved(n) /\ committed \in Log
        /\ NodeSound(G, A, Terms, committed, i, n) /\ Terms[i] = n.currentTerm
        /\ n.currentTerm \in Nat /\ m \in Message
    BY <1>1, <1>2, HoldsFacts
  <1>4. PICK v \in Nat : Settled(G, A, committed, Len(committed), v)
    BY <1>1, <1>2, HoldsFacts
  <1>5. m \in AppendRequest /\ t \in Nat /\ p \in Nat
    BY <1>3, MessageKind, BatchValues
  <1>6. Starts(i, n)
    BY <1>3 DEF Starts
  <1>7. Quiet(n, r)
    BY <1>3, <1>5, HandleAppendEntriesStep
  <1>8. m.caller # m.peer
    BY <1>1 DEF Holds, CallersElected, IsAppend
  <1>9. CASE t < n.currentTerm
    <2>1. Still(n, r) /\ \A k \in r.out : k.type = "AppendEntriesResponse" /\ ~k.success
      BY <1>3, <1>5, <1>9, RefusalStill
    <2>2. \A k \in r.out : k.caller = m.caller /\ k.peer = m.peer
      BY <1>3, <1>5, HandleAppendEntriesOut
    <2>3. Refuses(r)
      BY <1>8, <2>1, <2>2 DEF Refuses
    <2>4. Votes(i, Done(r))
      BY <1>7, <2>1, QuietVotes DEF Still
    <2>. QED BY <2>1, <2>3, <2>4, StillLog
  <1>10. CASE t >= n.currentTerm
    <2>1. Arrives(G, n, m) /\ AppendSound(G, A, committed, m)
      BY <1>1, <1>2, <1>6, <1>10, BatchArrives
    <2>2. r.currentTerm = t /\ r.role = "Follower"
      BY <1>3, <1>5, <2>1, HandleAppendEntriesLog
    <2>3. PICK q \in Nat : q <= Len(G[t]) /\ q = IF Accepts(n, m) THEN p ELSE 0
      <3>1. p <= Len(G[t]) /\ Len(G[t]) \in Nat
        BY <1>1, <1>2, <1>5, <2>1, HoldsFacts, GhostValues DEF Arrives, Carries
      <3>. QED BY <1>5, <3>1
    <2>. DEFINE B == Acked(A, i, t, q)
    <2>4. Turns(G, A, G, B) /\ Alone(G, A, G, B, i, r)
      BY <1>1, <1>2, <1>5, <2>2, <2>3, AckTurns
    <2>5. /\ \A s \in Nat : s # t => B[i][s] = A[i][s]
          /\ q <= B[i][t] /\ (B[i][t] = A[i][t] \/ B[i][t] = q)
          /\ A[i][t] <= B[i][t] /\ A[i][t] \in Nat
      <3>1. A \in [Node -> [Nat -> Nat]]
        BY <1>1 DEF Holds
      <3>2. A[i][t] \in Nat
        BY <1>3, <1>5, <3>1
      <3>3. Acks(A, i, t, q, B)
        BY <1>3, <1>5, <3>1, AckedValues, Zenon
      <3>. QED BY <3>2, <3>3, Zenon DEF Acks
    <2>. HIDE DEF B
    <2>6. Acknowledges(G, A, Terms, B, Terms', i, n, m)
      <3>1. ~Accepts(n, m) => B[i][t] = A[i][t]
        BY <2>3, <2>5
      <3>2. Accepts(n, m) => p <= B[i][t] /\ (B[i][t] = A[i][t] \/ B[i][t] = p)
        BY <2>3, <2>5
      <3>. QED BY <2>4, <2>5, <3>1, <3>2 DEF Acknowledges, Turns
    <2>7. NodeSound(G, B, Terms', committed, i, r) /\ SendsSound(G, B, committed, i, r)
      BY <1>3, <1>4, <1>5, <1>8, <2>1, <2>6, HandleAppendEntriesSound
    <2>8. Longest(committed, r) = committed
      BY <2>2 DEF Longest
    <2>9. Votes(i, Done(r))
      BY <1>7, <2>2, QuietVotes
    <2>. QED BY <1>1, <2>4, <2>7, <2>8, <2>9, CompletedLog DEF Holds
  <1>. QED BY <1>3, <1>5, <1>9, <1>10

-----------------------------------------------------------------------------
(* A leader appends to its log.                                              *)

\* Log L has whatever the leaders before t may have got chosen.
Prior(G, A, T, L, t) ==
    \A s \in Nat : s < t => \A k \in Nat :
        Own(G, s, k) => Agree(G[s], L, k) \/ Blocked(A, T, s, k)

\* A later leader has taken a majority past t.
LEMMA LaterWinner ==
    ASSUME NEW i, NEW d, Moves(i, d), NEW G, NEW A, Holds(G, A), NEW t \in Nat, NEW u \in Nat,
           t < u, G[u] # <<>>
    PROVE  \E Q \in Quorum : \A j \in Q : Terms'[j] > t
  <1>1. PICK l \in Node : Supporters(l, u) \in Quorum
    BY DEF Holds, LogSound, Won
  <1>2. \A j \in Node : /\ Terms[j] = node[j].currentTerm
                        /\ Terms[j] \in Nat /\ Terms'[j] \in Nat /\ Terms[j] <= Terms'[j]
    BY MovesFacts
  <1>3. ASSUME NEW j \in Supporters(l, u) PROVE Terms'[j] > t
    <2>. DEFINE b == [voter |-> j, term |-> u, candidate |-> l]
    <2>1. b \in ballots /\ j \in Node
      BY <1>3 DEF Supporters
    <2>2. b.term <= node[b.voter].currentTerm
      BY <2>1 DEF Moves, ElectionInv, BallotInv, VotesHeld
    <2>3. u <= Terms[j]
      BY <1>2, <2>1, <2>2
    <2>. QED BY <1>2, <2>1, <2>3
  <1>. QED BY <1>1, <1>3

\* The ghosts after node i, the winner of term t, has put one entry at the end
\* of its log and has log K.
Grown(G, t, K) == [G EXCEPT ![t] = K]

\* What node i must know before it may append.
MayExtend(G, A, i, d, t, K) ==
    /\ Moves(i, d) /\ Holds(G, A)
    /\ t \in Nat /\ t >= 1 /\ d.currentTerm = t /\ d.role # "Candidate"
    /\ K \in Log /\ Extends(node[i].log, K, t)
    /\ node[i].log = G[t] \/ G[t] = <<>>
    /\ Prior(G, A, Terms', node[i].log, t)
    /\ Supporters(i, t)' \in Quorum

LEMMA ExtendTurns ==
    ASSUME NEW G, NEW A, NEW i, NEW d, NEW t, NEW K, MayExtend(G, A, i, d, t, K)
    PROVE  LET H == Grown(G, t, K)
               B == Acked(A, i, t, Len(K))
           IN  /\ Turns(G, A, H, B) /\ Alone(G, A, H, B, i, d)
               /\ LeaderGrows(G, A, Terms', H, B, Terms', i, t, K)
  <1>. DEFINE L == node[i].log
              U == Terms'
              p == Len(K)
              H == Grown(G, t, K)
              B == Acked(A, i, t, p)
  <1>0. /\ Moves(i, d) /\ Holds(G, A) /\ t \in Nat /\ t >= 1 /\ d.currentTerm = t
        /\ d.role # "Candidate" /\ K \in Log /\ Extends(L, K, t) /\ (L = G[t] \/ G[t] = <<>>)
        /\ Prior(G, A, Terms', L, t) /\ Supporters(i, t)' \in Quorum
    BY DEF MayExtend
  <1>1. /\ i \in Node /\ L \in Log /\ Len(L) \in Nat /\ p \in Nat /\ p = Len(L) + 1
    BY <1>0, HoldsFacts, LogLength DEF Extends
  <1>2. /\ Turns(G, A, G, A) /\ GhostType(G, A, Terms) /\ GhostType(G, A, U)
        /\ Grows(G, A, Terms, G, A, U) /\ GhostSound(G, A, Terms) /\ GhostSound(G, A, U)
        /\ LogHeld(G, A, U, i, L, t)
    BY <1>0, SameGhosts DEF Turns
  <1>3. /\ \A j \in Node : Terms[j] \in Nat /\ U[j] \in Nat /\ Terms[j] <= U[j]
        /\ U[i] = t
    <2>1. /\ node'[i] = d /\ U[i] = node'[i].currentTerm
          /\ \A j \in Node : Terms[j] \in Nat /\ U[j] \in Nat /\ Terms[j] <= U[j]
      BY <1>0, <1>1, MovesFacts
    <2>. QED BY <1>0, <2>1
  <1>4. /\ B \in [Node -> [Nat -> Nat]]
        /\ \A j \in Node : j # i => B[j] = A[j]
        /\ \A s \in Nat : s # t => B[i][s] = A[i][s]
        /\ A[i][t] <= B[i][t] /\ p <= B[i][t]
        /\ B[i][t] = A[i][t] \/ B[i][t] = p
    <2>1. A \in [Node -> [Nat -> Nat]]
      BY <1>0 DEF Holds
    <2>2. Acks(A, i, t, p, B)
      BY <1>0, <1>1, <2>1, AckedValues, Zenon
    <2>. QED BY <2>2, Zenon DEF Acks
  <1>5. H \in [Nat -> Log] /\ H[t] = K /\ \A s \in Nat : s # t => H[s] = G[s]
    BY <1>0 DEF Holds, Grown
  <1>. HIDE DEF U, H, B, L, p
  <1>6. GhostType(H, B, U)
    BY <1>2, <1>4, <1>5 DEF GhostType
  <1>7. \A j \in Node, s \in Nat : /\ A[j][s] \in Nat /\ B[j][s] \in Nat /\ A[j][s] <= Len(G[s])
                                   /\ A[j][s] > 0 => U[j] >= s
    BY <1>2, <1>6, GhostValues DEF GhostSound
  <1>8. Len(G[t]) \in Nat /\ Len(G[t]) < p
    <2>1. G[t] = <<>> => Len(G[t]) = 0
      OBVIOUS
    <2>. QED BY <1>0, <1>1, <2>1
  <1>9. B[i][t] = p
    <2>1. A[i][t] \in Nat /\ B[i][t] \in Nat /\ A[i][t] <= Len(G[t])
      BY <1>0, <1>1, <1>7
    <2>2. p <= B[i][t] /\ (B[i][t] = A[i][t] \/ B[i][t] = p)
      BY <1>4
    <2>. QED BY <1>1, <1>8, <2>1, <2>2
  <1>10. \A s \in Nat : Agree(G[s], H[s], Len(G[s]))
    <2>1. ASSUME NEW s \in Nat, s # t PROVE Agree(G[s], H[s], Len(G[s]))
      BY <1>2, <1>5, <2>1, GhostValues, AgreeRefl
    <2>2. Agree(G[t], K, Len(G[t]))
      <3>1. CASE G[t] = <<>>
        BY <1>0, <1>1, <3>1 DEF Agree, p
      <3>2. CASE L = G[t]
        BY <1>0, <1>1, <3>2 DEF Agree, Extends, p
      <3>. QED BY <1>0, <3>1, <3>2
    <2>. QED BY <1>5, <2>1, <2>2
  <1>11. ASSUME NEW j \in Node, NEW s \in Nat
         PROVE  /\ A[j][s] <= B[j][s]
                /\ Terms[j] > s => B[j][s] = A[j][s]
                /\ U[j] > s => B[j][s] = A[j][s]
    <2>1. CASE j # i \/ s # t
      <3>1. B[j][s] = A[j][s]
        BY <1>4, <2>1
      <3>. QED BY <1>7, <3>1
    <2>2. CASE j = i /\ s = t
      <3>1. A[i][t] <= B[i][t]
        BY <1>4
      <3>2. ~(Terms[i] > t) /\ ~(U[i] > t)
        BY <1>0, <1>1, <1>3
      <3>. QED BY <2>2, <3>1, <3>2
    <2>. QED BY <2>1, <2>2
  <1>12. Grows(G, A, Terms, H, B, U) /\ Grows(G, A, U, H, B, U)
    BY <1>3, <1>10, <1>11 DEF Grows
  <1>13. ASSUME NEW j \in Node, NEW s \in Nat
         PROVE  B[j][s] <= Len(H[s]) /\ (B[j][s] > 0 => U[j] >= s)
    <2>1. CASE s # t
      <3>1. B[j][s] = A[j][s]
        BY <1>4, <2>1
      <3>. QED BY <1>5, <1>7, <2>1, <3>1
    <2>2. CASE s = t /\ j # i
      <3>1. B[j][s] = A[j][s]
        BY <1>4, <2>2
      <3>2. Len(H[s]) = p
        BY <1>5, <2>2 DEF p
      <3>. QED BY <1>1, <1>7, <1>8, <2>2, <3>1, <3>2
    <2>3. CASE s = t /\ j = i
      BY <1>1, <1>3, <1>5, <1>9, <2>3 DEF p
    <2>. QED BY <2>1, <2>2, <2>3
  <1>14. GhostSound(H, B, U)
    <2>1. Backed(G, L) /\ \A k \in 1..Len(L) : L[k].term <= t
      BY <1>2 DEF LogHeld
    <2>2. \A u \in Nat : t < u /\ G[u] # <<>> => \E Q \in Quorum : \A j \in Q : U[j] > t
      BY <1>0, LaterWinner DEF U
    <2>3. \A s \in Nat : s < t => \A k \in Nat :
             Own(G, s, k) => Agree(G[s], L, k) \/ Blocked(A, U, s, k)
      BY <1>0 DEF Prior, U
    <2>4. \A j \in Node, s \in Nat : B[j][s] <= Len(H[s]) /\ (B[j][s] > 0 => U[j] >= s)
      BY <1>13
    <2>5. /\ t \in Nat /\ t >= 1 /\ L \in Log /\ K \in Log /\ Extends(L, K, t)
          /\ (L = G[t] \/ G[t] = <<>>)
      BY <1>0, <1>1
    <2>6. H[t] = K /\ \A s \in Nat : s # t => H[s] = G[s]
      BY <1>5
    <2>7. GhostType(G, A, U) /\ GhostSound(G, A, U) /\ Grows(G, A, U, H, B, U)
      BY <1>2, <1>12
    <2>. QED BY <1>6, <2>1, <2>2, <2>3, <2>4, <2>5, <2>6, <2>7, GhostExtends
  <1>15. Turns(G, A, H, B)
    BY <1>2, <1>6, <1>12, <1>14 DEF Turns, U
  <1>16. Alone(G, A, H, B, i, d)
    BY <1>0, <1>4, <1>5 DEF Alone
  <1>17. LeaderGrows(G, A, U, H, B, U, i, t, K)
    BY <1>2, <1>4, <1>5, <1>6, <1>9, <1>12, <1>14 DEF LeaderGrows, p
  <1>. QED BY <1>15, <1>16, <1>17 DEF U, H, B, p

\* The process died after it had appended an entry of its term, of which it
\* told nobody.
LEMMA ExtendCrash ==
    ASSUME NEW i, NEW r, Falls(i, r), NEW t, r.diskTerm = t, NEW G, NEW A,
           MayExtend(G, A, i, NewRaftNode(r), t, r.log)
    PROVE  LogKept
  <1>. DEFINE K == r.log
              U == Terms'
              H == Grown(G, t, K)
              B == Acked(A, i, t, Len(K))
              d == NewRaftNode(r)
  <1>1. /\ Turns(G, A, H, B) /\ Alone(G, A, H, B, i, d)
        /\ LeaderGrows(G, A, U, H, B, U, i, t, K)
    BY ExtendTurns
  <1>2. /\ Moves(i, d) /\ Holds(G, A) /\ t \in Nat /\ d.currentTerm = t /\ K \in Log
        /\ Extends(node[i].log, K, t)
    BY DEF MayExtend
  <1>. HIDE DEF H, B, d
  <1>3. /\ i \in Node /\ node[i].log \in Log /\ U[i] = t
        /\ LogHeld(G, A, U, i, node[i].log, U[i])
    <2>1. i \in Node /\ node'[i] = d /\ U[i] = node'[i].currentTerm
      BY <1>2, MovesFacts
    <2>. QED BY <1>2, <2>1, HoldsFacts, SameGhosts
  <1>4. /\ GhostType(G, A, U) /\ GhostType(H, B, U) /\ Grows(G, A, U, H, B, U)
        /\ GhostSound(G, A, U) /\ H[t] = K /\ B[i][t] = Len(K)
        /\ \A s \in Nat : s # t => B[i][s] = A[i][s]
    BY <1>1 DEF LeaderGrows
  <1>5. LogHeld(H, B, U, i, K, t)
    <2>1. U[i] <= t /\ B[i][t] <= Len(K)
      BY <1>2, <1>3, <1>4, LogLength
    <2>. QED BY <1>2, <1>3, <1>4, <2>1, HeldAppends
  <1>. QED BY <1>1, <1>2, <1>5, CrashedLog DEF Holds, d, H, B

\* The winner of an election that could append its no-op.
LEMMA WinRuns ==
    ASSUME NEW i, NEW r, NEW handled, Runs(i, r, handled), Votes(i, Done(r)),
           NEW c, Winner(node[i], c), r = BecomeLeader(i, c), NEW t, c.currentTerm = t,
           NEW G, NEW A, MayExtend(G, A, i, Done(r), t, r.log)
    PROVE  LogKept
  <1>. DEFINE K == r.log
              U == Terms'
              H == Grown(G, t, K)
              B == Acked(A, i, t, Len(K))
              d == Done(r)
              n == node[i]
  <1>1. /\ Turns(G, A, H, B) /\ Alone(G, A, H, B, i, d)
        /\ LeaderGrows(G, A, U, H, B, U, i, t, K)
    BY ExtendTurns
  <1>2. /\ Moves(i, d) /\ Holds(G, A) /\ t \in Nat /\ d.currentTerm = t
    BY DEF MayExtend
  <1>3. d.role = r.role /\ r \in NodeState /\ r.currentTerm = t
    BY <1>2, DoneFields DEF Runs
  <1>. HIDE DEF H, B, d
  <1>4. /\ i \in Node /\ n \in NodeState /\ n.log \in Log /\ U[i] = t /\ n.currentTerm <= t
        /\ n.currentTerm \in Nat /\ n.commitIndex \in Nat
        /\ LogHeld(G, A, U, i, n.log, U[i])
    <2>1. /\ i \in Node /\ node'[i] = d /\ U[i] = node'[i].currentTerm
          /\ Terms[i] = node[i].currentTerm /\ Terms[i] <= U[i]
      BY <1>2, MovesFacts
    <2>2. n \in NodeState /\ n.log \in Log /\ n.currentTerm \in Nat /\ n.commitIndex \in Nat
      BY <1>2, HoldsFacts DEF NodeState
    <2>. QED BY <1>2, <2>1, <2>2, SameGhosts
  <1>5. /\ c \in NodeState /\ c.role = "Candidate" /\ c.log = n.log /\ SameCommit(n, c)
        /\ c.out = {} /\ CanWrite(c)
    BY <1>2, HoldsFacts DEF Winner
  <1>6. /\ committed \in Log /\ CommitSound(G, A, committed, n)
        /\ \E v \in Nat : Settled(G, A, committed, Len(committed), v)
    BY <1>2, HoldsFacts DEF NodeSound
  <1>7. GhostType(G, A, U) /\ Grows(G, A, U, G, A, U)
    <2>1. GhostType(G, A, Terms) /\ GhostType(G, A, U) /\ Grows(G, A, Terms, G, A, U)
      BY <1>2, SameGhosts
    <2>2. \A j \in Node : U[j] \in Nat
      BY <1>2, MovesFacts
    <2>3. \A j \in Node : U[j] <= U[j]
      BY <2>2
    <2>. QED BY <2>1, <2>3 DEF Grows
  <1>8. CommitSound(G, A, committed, c)
    <2>1. Settled(G, A, n.log, n.commitIndex, t)
      BY <1>2, <1>4, <1>6, <1>7, SettledGrows DEF CommitSound
    <2>. QED BY <1>5, <1>6, <2>1 DEF CommitSound, SameCommit
  <1>9. PICK v \in Nat : Settled(G, A, committed, Len(committed), v)
    BY <1>6
  <1>10. U[i] <= t
    BY <1>2, <1>4
  <1>. HIDE DEF U
  <1>11. LeaderGrows(G, A, U, H, B, U, i, t, BecomeLeader(i, c).log)
    BY <1>1
  <1>12. /\ NodeSound(H, B, U, Longest(committed, r), i, r)
         /\ SendsSound(H, B, Longest(committed, r), i, r)
    BY <1>2, <1>4, <1>5, <1>6, <1>8, <1>9, <1>10, <1>11, BecomeLeaderSound
  <1>13. Alone(G, A, H, B, i, r)
    BY <1>1, <1>2, <1>3 DEF Alone
  <1>. QED BY <1>1, <1>2, <1>12, <1>13, CompletedLog DEF Holds, U

\* A majority that is past the earlier terms and has nothing that L lacks.
LEMMA MajorityPrior ==
    ASSUME NEW G, NEW A, NEW T, GhostType(G, A, T), NEW L, NEW t \in Nat, NEW Q \in Quorum,
           \A j \in Q : T[j] >= t /\ Covers(G, A, T, j, L, t)
    PROVE  Prior(G, A, T, L, t)
  <1>. SUFFICES ASSUME NEW s \in Nat, s < t, NEW k \in Nat, Own(G, s, k),
                       ~Blocked(A, T, s, k)
                PROVE  Agree(G[s], L, k)
    BY DEF Prior
  <1>1. k \in 1..Len(G[s]) /\ Q \subseteq Node
    BY QuorumNodes DEF Own
  <1>2. \A j \in Q : T[j] \in Nat /\ A[j][s] \in Nat
    BY <1>1, GhostValues
  <1>3. PICK j \in Q : A[j][s] >= k
    <2>1. \A j \in Q : T[j] > s
      BY <1>2
    <2>2. ~\A j \in Q : T[j] > s /\ A[j][s] < k
      BY DEF Blocked
    <2>. QED BY <1>2, <2>1, <2>2
  <1>4. k \in 1..A[j][s]
    <2>1. k >= 1 /\ A[j][s] \in Nat
      BY <1>1, <1>2, GhostValues
    <2>. QED BY <1>3, <2>1
  <1>. QED BY <1>3, <1>4 DEF Covers

\* What holds of the past holds when terms rise.
LEMMA PriorGrows ==
    ASSUME NEW i, NEW d, Moves(i, d), NEW G, NEW A, Holds(G, A), NEW L, NEW t \in Nat,
           Prior(G, A, Terms, L, t)
    PROVE  Prior(G, A, Terms', L, t)
  <1>1. /\ GhostType(G, A, Terms) /\ GhostType(G, A, Terms')
        /\ Grows(G, A, Terms, G, A, Terms')
    BY SameGhosts
  <1>2. \A s, k \in Nat : Blocked(A, Terms, s, k) => Blocked(A, Terms', s, k)
    BY <1>1, FateGrows
  <1>. QED BY <1>2 DEF Prior

\* Candidate n, which node i is, has the decisive vote of answer m.
Decides(i, n, m) ==
    /\ Starts(i, n) /\ m \in rpcs /\ m.type = "RequestVoteResponse" /\ i = m.caller
    /\ n.role = "Candidate" /\ n.currentTerm = m.reqTerm /\ m.granted
    /\ n.votesReceived + 1 >= Majority

\* The vote that was still on its way is one more than those counted.
LEMMA OneMore ==
    ASSUME NEW S \in SUBSET Node, NEW j \in Node, j \notin S, NEW v \in Nat,
           v <= Cardinality(S), v + 1 >= Majority
    PROVE  S \cup {j} \in Quorum
  <1>1. IsFiniteSet(S) /\ Cardinality(S) \in Nat
    BY NodeCardinality
  <1>2. Cardinality(S \cup {j}) = Cardinality(S) + 1
    BY <1>1, FS_AddElement
  <1>3. Cardinality(S \cup {j}) >= Majority
    BY <1>1, <1>2, MajorityType
  <1>. QED BY <1>3 DEF Quorum

LEMMA DecidesWon ==
    ASSUME NEW i, NEW n, NEW m, Decides(i, n, m), NEW d, Moves(i, d), NEW G, NEW A, Holds(G, A)
    PROVE  /\ m.reqTerm \in Nat /\ m.reqTerm >= 1
           /\ Supporters(i, m.reqTerm) \in Quorum
           /\ G[m.reqTerm] = <<>>
           /\ Prior(G, A, Terms, node[i].log, m.reqTerm)
  <1>. DEFINE t == m.reqTerm
              L == node[i].log
  <1>1. /\ i \in Node /\ m \in rpcs /\ m \in Message /\ m.type = "RequestVoteResponse"
        /\ m.granted /\ i = m.caller /\ node[i].role = "Candidate" /\ node[i].currentTerm = t
        /\ t \in Nat /\ node[i].votesReceived + 1 >= Majority /\ node[i].votesReceived \in Nat
    BY HoldsFacts DEF Decides, Starts, NodeState
  <1>2. m.peer \in Node /\ VoteCall(m) /\ CallTerm(m) = t
    BY <1>1, MessageKind DEF VoteCall, CallTerm
  <1>3. VotesSound(G, A, Terms) /\ Won(G) /\ GhostType(G, A, Terms)
    BY HoldsFacts DEF Holds, LogSound
  <1>4. t >= 1 /\ node[i].votesReceived <= Cardinality(Behind(G, A, Terms, i))
    BY <1>1, <1>3 DEF VotesSound
  <1>5. Supporters(i, t) \in Quorum
    <2>1. m.peer \in Supporters(i, t)
      BY <1>1 DEF Moves, ElectionInv, CallsSound
    <2>2. m.peer \notin Answered(i) /\ Answered(i) \in SUBSET Node
      BY <1>1, <1>2 DEF Answered, Supporters
    <2>3. node[i].votesReceived <= Cardinality(Answered(i))
      BY <1>1 DEF Moves, ElectionInv, TallySound
    <2>4. Answered(i) \cup {m.peer} \in Quorum
      BY <1>1, <1>2, <2>2, <2>3, OneMore
    <2>5. Answered(i) \cup {m.peer} \subseteq Supporters(i, t) /\ Supporters(i, t) \in SUBSET Node
      BY <1>1, <2>1 DEF Answered, Supporters
    <2>. QED BY <2>4, <2>5, QuorumGrows
  <1>6. G[t] = <<>>
    <2>. SUFFICES ASSUME G[t] # <<>> PROVE FALSE
      OBVIOUS
    <2>1. PICK l \in Node : /\ Supporters(l, t) \in Quorum
                            /\ node[l].currentTerm = t => node[l].role # "Candidate"
      BY <1>1, <1>3 DEF Won
    <2>2. \A a, b \in ballots : a.voter = b.voter /\ a.term = b.term => a = b
      BY DEF Moves, ElectionInv, BallotInv, OneVotePerTerm
    <2>3. /\ \A v \in Supporters(i, t) : [voter |-> v, term |-> t, candidate |-> i] \in ballots
          /\ \A v \in Supporters(l, t) : [voter |-> v, term |-> t, candidate |-> l] \in ballots
      BY DEF Supporters
    <2>4. i = l
      BY <1>5, <2>1, <2>2, <2>3, SoleWinner
    <2>. QED BY <1>1, <2>1, <2>4
  <1>7. Prior(G, A, Terms, L, t)
    <2>. DEFINE S == Behind(G, A, Terms, i)
    <2>1. S \in SUBSET Node /\ m.peer \notin S
      BY <1>1, <1>2 DEF Behind
    <2>2. \A j \in S : Terms[j] >= t /\ Covers(G, A, Terms, j, L, t)
      BY <1>1 DEF Behind
    <2>3. Terms[m.peer] >= t /\ Covers(G, A, Terms, m.peer, L, t)
      BY <1>1, <1>3 DEF VotesSound, Standing
    <2>. HIDE DEF S
    <2>4. S \cup {m.peer} \in Quorum
      BY <1>1, <1>2, <1>4, <2>1, OneMore DEF S
    <2>5. \A j \in S \cup {m.peer} : Terms[j] >= t /\ Covers(G, A, Terms, j, L, t)
      BY <2>2, <2>3
    <2>. QED BY <1>1, <1>3, <2>4, <2>5, MajorityPrior
  <1>. QED BY <1>1, <1>4, <1>5, <1>6, <1>7

\* A decisive vote makes a leader whose log has all that was chosen.
LEMMA DecidesExtend ==
    ASSUME NEW i, NEW n, NEW m, Decides(i, n, m), NEW d, Moves(i, d), NEW G, NEW A,
           Holds(G, A), d.currentTerm = m.reqTerm, d.role # "Candidate", NEW K \in Log,
           Extends(node[i].log, K, m.reqTerm)
    PROVE  MayExtend(G, A, i, d, m.reqTerm, K)
  <1>1. /\ m.reqTerm \in Nat /\ m.reqTerm >= 1 /\ Supporters(i, m.reqTerm) \in Quorum
        /\ G[m.reqTerm] = <<>> /\ Prior(G, A, Terms, node[i].log, m.reqTerm)
    BY DecidesWon
  <1>2. Prior(G, A, Terms', node[i].log, m.reqTerm)
    BY <1>1, PriorGrows
  <1>3. PICK t \in Nat : t = m.reqTerm
    BY <1>1
  <1>4. Supporters(i, t)' \in Quorum
    BY <1>1, <1>3, SupportGrows
  <1>. QED BY <1>1, <1>2, <1>3, <1>4 DEF MayExtend

\* An answer to a vote request.
LEMMA CountLog ==
    ASSUME NEW m \in rpcs, m.type = "RequestVoteResponse", NEW i, i = m.caller, NEW r,
           r = HandleRequestVoteResponse(i, node[i], m), Runs(i, r, {m}), LogInv
    PROVE  LogKept
  <1>. DEFINE n == node[i]
  <1>1. PICK G, A : Holds(G, A)
    BY DEF LogInv, Holds
  <1>2. /\ Moves(i, Done(r)) /\ r \in NodeState /\ Done(r).currentTerm = r.currentTerm
        /\ Done(r).role = r.role
    BY DoneFields DEF Runs
  <1>3. /\ i \in Node /\ n \in NodeState /\ n.out = {} /\ IsSaved(n) /\ m \in Message
        /\ n.quota = MaxWrites
    BY <1>1, <1>2, HoldsFacts
  <1>4. m \in VoteResponse
    BY <1>3, MessageKind
  <1>5. Quiet(n, r) \/ Counted(n, m, r)
    BY <1>3, <1>4, HandleRequestVoteResponseStep
  <1>6. (r.role = "Candidate" => r.log = n.log) => Votes(i, Done(r))
    BY <1>5, QuietVotes, CountedVotes
  <1>7. (Still(n, r) /\ r.out = {}) \/ WinsWith(i, n, m, r)
    BY <1>3, <1>4, HandleRequestVoteResponseElects
  <1>8. CASE Still(n, r) /\ r.out = {}
    BY <1>6, <1>8, StillLog DEF Still, Refuses
  <1>9. CASE WinsWith(i, n, m, r)
    <2>1. PICK c \in NodeState : /\ Winner(n, c) /\ c.currentTerm = n.currentTerm
                                 /\ r = BecomeLeader(i, c)
      BY <1>9 DEF WinsWith
    <2>2. Decides(i, n, m)
      BY <1>3, <1>9 DEF WinsWith, Decides, Starts
    <2>3. c.role = "Candidate" /\ c.log = n.log /\ CanWrite(c) /\ c.currentTerm = m.reqTerm
      BY <1>3, <1>9, <2>1 DEF Winner, WinsWith
    <2>4. r.role = "Leader" /\ r.currentTerm = m.reqTerm
      BY <1>3, <2>1, <2>3, BecomeLeaderCalm
    <2>5. Extends(n.log, r.log, m.reqTerm) /\ r.log \in Log
      BY <1>2, <1>3, <2>1, <2>3, BecomeLeaderLog DEF NodeState
    <2>6. MayExtend(G, A, i, Done(r), m.reqTerm, r.log)
      BY <1>1, <1>2, <2>2, <2>4, <2>5, DecidesExtend
    <2>. QED BY <1>6, <2>1, <2>3, <2>4, <2>6, WinRuns
  <1>. QED BY <1>7, <1>8, <1>9

LEMMA CountCrash ==
    ASSUME NEW m \in rpcs, m.type = "RequestVoteResponse", NEW i, i = m.caller, NEW n,
           Starts(i, n), NEW r, r = HandleRequestVoteResponse(i, n, m), Falls(i, r), LogInv
    PROVE  LogKept
  <1>. DEFINE d == NewRaftNode(r)
  <1>1. PICK G, A : Holds(G, A)
    BY DEF LogInv, Holds
  <1>2. /\ Moves(i, d) /\ r \in NodeState /\ d.currentTerm = r.diskTerm /\ d.role = "Follower"
    BY DEF Falls, NewRaftNode
  <1>3. /\ i \in Node /\ n \in NodeState /\ n.out = {} /\ IsSaved(n) /\ m \in Message
        /\ n.log = node[i].log
    BY <1>1, <1>2, HoldsFacts DEF Starts
  <1>. HIDE DEF d
  <1>4. m \in VoteResponse
    BY <1>3, MessageKind
  <1>5. Still(n, r) \/ WinsWith(i, n, m, r)
    BY <1>3, <1>4, HandleRequestVoteResponseElects
  <1>6. CASE r.log = n.log
    BY <1>3, <1>6, SameLogCrash
  <1>7. CASE r.log # n.log
    <2>0. WinsWith(i, n, m, r)
      BY <1>5, <1>7 DEF Still
    <2>1. PICK c \in NodeState : /\ Winner(n, c) /\ c.currentTerm = n.currentTerm
                                 /\ r = BecomeLeader(i, c)
      BY <2>0 DEF WinsWith
    <2>2. Decides(i, n, m)
      BY <2>0 DEF WinsWith, Decides
    <2>3. c.role = "Candidate" /\ c.log = n.log /\ c.currentTerm = m.reqTerm
      BY <2>0, <2>1 DEF Winner, WinsWith
    <2>4. CanWrite(c)
      BY <1>3, <1>7, <2>1, <2>3, BecomeLeaderLog
    <2>5. r.diskTerm = m.reqTerm
      BY <1>3, <2>1, <2>3, <2>4, BecomeLeaderCalm DEF Winner
    <2>6. Extends(node[i].log, r.log, m.reqTerm) /\ r.log \in Log
      <3>1. Extends(n.log, r.log, c.currentTerm)
        BY <1>3, <2>1, <2>3, <2>4, BecomeLeaderLog
      <3>2. r.log \in Log
        BY <1>2 DEF NodeState
      <3>. QED BY <1>3, <2>3, <3>1, <3>2
    <2>7. MayExtend(G, A, i, d, m.reqTerm, r.log)
      BY <1>1, <1>2, <2>2, <2>5, <2>6, DecidesExtend
    <2>. QED BY <2>5, <2>7, ExtendCrash DEF d
  <1>. QED BY <1>6, <1>7

\* The only node of a cluster votes for itself and leads.
LEMMA AloneExtend ==
    ASSUME NEW i, NEW d, Moves(i, d), NEW G, NEW A, Holds(G, A), Majority <= 1,
           d.currentTerm = node[i].currentTerm + 1, d.diskVote = i, d.role # "Candidate",
           NEW K \in Log, Extends(node[i].log, K, d.currentTerm)
    PROVE  MayExtend(G, A, i, d, d.currentTerm, K)
  <1>. DEFINE L == node[i].log
  <1>0. PICK t \in Nat : t = d.currentTerm /\ t = node[i].currentTerm + 1 /\ t >= 1
    <2>1. node[i].currentTerm \in Nat
      BY HoldsFacts
    <2>. QED BY <2>1
  <1>1. /\ i \in Node /\ Terms'[i] = t
        /\ GhostType(G, A, Terms') /\ LogHeld(G, A, Terms', i, L, t)
    <2>1. i \in Node /\ node'[i] = d /\ Terms'[i] = node'[i].currentTerm
      BY MovesFacts
    <2>. QED BY <1>0, <2>1, SameGhosts
  <1>2. {i} \in Quorum
    BY <1>1, SingleQuorum
  <1>3. Prior(G, A, Terms', L, t)
    <2>1. \A j \in {i} : Terms'[j] >= t /\ Covers(G, A, Terms', j, L, t)
      BY <1>0, <1>1 DEF LogHeld
    <2>. QED BY <1>1, <1>2, <2>1, MajorityPrior
  <1>4. G[t] = <<>>
    <2>. SUFFICES ASSUME G[t] # <<>> PROVE FALSE
      OBVIOUS
    <2>1. PICK l \in Node : Supporters(l, t) \in Quorum
      BY <1>0 DEF Holds, LogSound, Won
    <2>2. i \in Supporters(l, t)
      BY <1>2, <2>1, QuorumsMeet
    <2>. DEFINE b == [voter |-> i, term |-> t, candidate |-> l]
    <2>3. b \in ballots
      BY <2>2 DEF Supporters
    <2>4. b.term <= node[b.voter].currentTerm
      BY <2>3 DEF Moves, ElectionInv, BallotInv, VotesHeld
    <2>5. node[i].currentTerm \in Nat
      BY HoldsFacts
    <2>. QED BY <1>0, <2>4, <2>5
  <1>5. Supporters(i, t)' \in Quorum
    <2>1. d.votedFor = i /\ i # None
      BY <1>1, NoneAssumption DEF Moves, VoteStep, IsSaved
    <2>2. i \in Supporters(d.votedFor, d.currentTerm)'
      BY <2>1, BallotStep DEF Moves, ElectionInv
    <2>3. i \in Supporters(i, t)'
      BY <1>0, <2>1, <2>2 DEF Supporters
    <2>4. Supporters(i, t)' \in SUBSET Node
      BY DEF Supporters
    <2>. QED BY <1>2, <2>3, <2>4, QuorumGrows
  <1>. QED BY <1>0, <1>3, <1>4, <1>5 DEF MayExtend

\* A pre-vote round, an answer to one, and the campaign.
LEMMA ElectsLog ==
    ASSUME NEW i, NEW r, NEW handled, Runs(i, r, handled), Elects(i, node[i], r),
           Quiet(node[i], r) \/ Campaigned(i, node[i], r), LogInv
    PROVE  LogKept
  <1>. DEFINE n == node[i]
  <1>1. PICK G, A : Holds(G, A)
    BY DEF LogInv, Holds
  <1>2. /\ Moves(i, Done(r)) /\ r \in NodeState /\ Done(r).currentTerm = r.currentTerm
        /\ Done(r).role = r.role /\ Done(r).diskVote = r.diskVote
    BY DoneFields DEF Runs
  <1>3. i \in Node /\ n \in NodeState /\ n.quota = MaxWrites
    BY <1>1, <1>2, HoldsFacts
  <1>4. Asks(r) /\ (r.role = "Candidate" => r.log = n.log) => Votes(i, Done(r))
    BY QuietVotes, CampaignedVotes
  <1>5. CASE Still(n, r) /\ NoAppends(r) /\ Asks(r)
    BY <1>4, <1>5, StillLog DEF Still, Refuses, NoAppends
  <1>6. CASE WinsAlone(i, n, r)
    <2>1. PICK c \in NodeState : /\ Winner(n, c) /\ c.currentTerm = n.currentTerm + 1
                                 /\ CanWrite(c) => c.diskVote = i
                                 /\ r = BecomeLeader(i, c)
      BY <1>6 DEF WinsAlone
    <2>2. c.role = "Candidate" /\ c.log = n.log /\ CanWrite(c) /\ c.out = {}
      BY <1>3, <2>1 DEF Winner
    <2>3. /\ r.role = "Leader" /\ r.currentTerm = c.currentTerm /\ r.diskVote = i
          /\ \A k \in r.out : ~VoteCall(k)
      BY <1>3, <2>1, <2>2, BecomeLeaderCalm
    <2>4. Votes(i, Done(r))
      BY <1>4, <2>3 DEF Asks, VoteCall
    <2>5. Extends(n.log, r.log, c.currentTerm) /\ r.log \in Log
      BY <1>2, <1>3, <2>1, <2>2, BecomeLeaderLog DEF NodeState
    <2>6. MayExtend(G, A, i, Done(r), c.currentTerm, r.log)
      BY <1>1, <1>2, <1>6, <2>1, <2>3, <2>5, AloneExtend DEF WinsAlone
    <2>. QED BY <2>1, <2>4, <2>6, WinRuns
  <1>. QED BY <1>5, <1>6 DEF Elects

LEMMA ElectsCrash ==
    ASSUME NEW i, NEW n, Starts(i, n), NEW r, Falls(i, r), Elects(i, n, r), LogInv
    PROVE  LogKept
  <1>. DEFINE d == NewRaftNode(r)
  <1>1. PICK G, A : Holds(G, A)
    BY DEF LogInv, Holds
  <1>2. /\ Moves(i, d) /\ r \in NodeState /\ d.currentTerm = r.diskTerm /\ d.role = "Follower"
        /\ d.diskVote = r.diskVote
    BY DEF Falls, NewRaftNode
  <1>3. i \in Node /\ n \in NodeState /\ n.log = node[i].log /\ n.currentTerm = node[i].currentTerm
    BY <1>1, <1>2, HoldsFacts DEF Starts
  <1>. HIDE DEF d
  <1>4. CASE r.log = n.log
    BY <1>3, <1>4, SameLogCrash
  <1>5. CASE r.log # n.log
    <2>0. WinsAlone(i, n, r)
      BY <1>5 DEF Elects, Still
    <2>1. PICK c \in NodeState : /\ Winner(n, c) /\ c.currentTerm = n.currentTerm + 1
                                 /\ CanWrite(c) => c.diskVote = i
                                 /\ r = BecomeLeader(i, c)
      BY <2>0 DEF WinsAlone
    <2>2. c.role = "Candidate" /\ c.log = n.log
      BY <2>1 DEF Winner
    <2>3. CanWrite(c)
      BY <1>3, <1>5, <2>1, <2>2, BecomeLeaderLog
    <2>4. r.diskTerm = c.currentTerm /\ r.diskVote = i
      BY <1>3, <2>1, <2>2, <2>3, BecomeLeaderCalm DEF Winner
    <2>5. Extends(node[i].log, r.log, c.currentTerm) /\ r.log \in Log
      BY <1>2, <1>3, <2>1, <2>2, <2>3, BecomeLeaderLog DEF NodeState
    <2>6. MayExtend(G, A, i, d, c.currentTerm, r.log)
      BY <1>1, <1>2, <1>3, <2>0, <2>1, <2>4, <2>5, AloneExtend DEF WinsAlone
    <2>. QED BY <2>4, <2>6, ExtendCrash DEF d
  <1>. QED BY <1>4, <1>5

-----------------------------------------------------------------------------
(* A leader proposes.                                                        *)

\* Whoever leads may append an entry of its term.
LEMMA LeaderExtend ==
    ASSUME NEW i, NEW d, Moves(i, d), NEW G, NEW A, Holds(G, A), node[i].role = "Leader",
           d.currentTerm = node[i].currentTerm, d.role # "Candidate", NEW K \in Log,
           Extends(node[i].log, K, d.currentTerm)
    PROVE  MayExtend(G, A, i, d, d.currentTerm, K)
  <1>. DEFINE L == node[i].log
  <1>1. PICK t \in Nat : t = d.currentTerm /\ t = node[i].currentTerm
    BY HoldsFacts
  <1>2. /\ i \in Node /\ L \in Log /\ Len(L) \in Nat
        /\ GhostType(G, A, Terms) /\ GhostSound(G, A, Terms)
    BY HoldsFacts, LogLength
  <1>3. L = G[t] /\ L # <<>>
    BY <1>1, HoldsFacts DEF NodeSound, LeaderSound
  <1>4. t >= 1
    <2>1. Len(G[t]) >= 1
      BY <1>2, <1>3, EmptySeq DEF Log
    <2>2. G[t][1].term >= 1 /\ G[t][1].term <= t
      BY <1>2, <1>3, <2>1 DEF GhostSound
    <2>3. G[t][1].term \in Nat
      <3>1. L[1] \in Entry
        BY <1>2, <1>3, <2>1, ElementOfSeq DEF Log
      <3>2. L[1].term \in Nat
        BY <3>1 DEF Entry
      <3>. QED BY <1>3, <3>2
    <2>. QED BY <2>2, <2>3
  <1>5. Prior(G, A, Terms, L, t)
    BY <1>2, <1>3 DEF GhostSound, Prior
  <1>6. Prior(G, A, Terms', L, t)
    BY <1>5, PriorGrows
  <1>7. Supporters(i, t) \in Quorum
    <2>. DEFINE e == [term |-> t, leader |-> i]
    <2>1. e \in elected
      BY <1>1, <1>2 DEF Moves, ElectionInv, LeadersElected
    <2>2. Cardinality(Supporters(e.leader, e.term)) >= Majority
      BY <2>1 DEF Moves, ElectionInv, LeadersElected
    <2>3. Supporters(i, t) \in SUBSET Node
      BY DEF Supporters
    <2>. QED BY <2>2, <2>3 DEF Quorum
  <1>8. Supporters(i, t)' \in Quorum
    BY <1>7, SupportGrows
  <1>. QED BY <1>1, <1>3, <1>4, <1>6, <1>8 DEF MayExtend

\* A completed proposal.
LEMMA ProposeLog ==
    ASSUME NEW i, NEW c \in Command, NEW r, r = ProposeCommand(i, node[i], c), Runs(i, r, {}),
           node[i].role = "Leader", LogInv
    PROVE  LogKept
  <1>. DEFINE n == node[i]
              K == r.log
              U == Terms'
              d == Done(r)
  <1>1. PICK G, A : Holds(G, A)
    BY DEF LogInv, Holds
  <1>2. /\ Moves(i, d) /\ r \in NodeState /\ d.currentTerm = r.currentTerm /\ d.role = r.role
    BY DoneFields DEF Runs
  <1>. HIDE DEF d
  <1>3. /\ i \in Node /\ n \in NodeState /\ n.out = {} /\ IsSaved(n) /\ n.quota = MaxWrites
        /\ n.currentTerm \in Nat
    BY <1>1, <1>2, HoldsFacts
  <1>4. CanWrite(n)
    BY <1>3 DEF CanWrite, MaxWrites
  <1>5. Calm(n, r) /\ Quiet(n, r)
    BY <1>3, ProposalCalm, ProposalStep
  <1>6. r.currentTerm = n.currentTerm /\ r.role = "Leader"
    BY <1>5 DEF Calm
  <1>7. Votes(i, Done(r))
    BY <1>5, <1>6, QuietVotes
  <1>8. PICK t \in Nat : t = n.currentTerm
    BY <1>3
  <1>9. Extends(n.log, K, t) /\ K \in Log
    <2>1. Extends(n.log, K, n.currentTerm)
      BY <1>3, <1>4, ProposeCommandLog
    <2>2. K \in Log
      BY <1>2 DEF NodeState
    <2>. QED BY <1>8, <2>1, <2>2
  <1>10. MayExtend(G, A, i, d, t, K)
    BY <1>1, <1>2, <1>6, <1>8, <1>9, LeaderExtend
  <1>. DEFINE H == Grown(G, t, K)
              B == Acked(A, i, t, Len(K))
  <1>11. /\ Turns(G, A, H, B) /\ Alone(G, A, H, B, i, d)
         /\ LeaderGrows(G, A, U, H, B, U, i, t, K)
    BY <1>10, ExtendTurns
  <1>. HIDE DEF H, B
  <1>12. U[i] = t /\ LogHeld(G, A, U, i, n.log, t)
    <2>1. node'[i] = d /\ U[i] = node'[i].currentTerm
      BY <1>2, MovesFacts
    <2>. QED BY <1>1, <1>2, <1>6, <1>8, <2>1, SameGhosts
  <1>13. NodeSound(G, A, U, committed, i, n)
    <2>1. NodeSound(G, A, Terms, committed, i, n)
      BY <1>1, <1>2, HoldsFacts
    <2>. QED BY <1>8, <1>12, <2>1 DEF NodeSound
  <1>14. committed \in Log /\ \E v \in Nat : Settled(G, A, committed, Len(committed), v)
    BY <1>1, <1>2, HoldsFacts
  <1>15. PICK v \in Nat : Settled(G, A, committed, Len(committed), v)
    BY <1>14
  <1>. HIDE DEF U
  <1>16. LeaderGrows(G, A, U, H, B, U, i, t, ProposeCommand(i, n, c).log)
    BY <1>11
  <1>17. /\ NodeSound(H, B, U, Longest(committed, r), i, r)
         /\ SendsSound(H, B, Longest(committed, r), i, r)
    BY <1>3, <1>4, <1>8, <1>12, <1>13, <1>14, <1>15, <1>16, ProposeCommandSound
  <1>18. Alone(G, A, H, B, i, r)
    BY <1>2, <1>11 DEF Alone
  <1>. QED BY <1>1, <1>7, <1>11, <1>17, <1>18, CompletedLog DEF Holds, U

\* A proposal that is cut short has stored the command or has not.
LEMMA ProposeCrash ==
    ASSUME NEW i, NEW c \in Command, NEW n, Starts(i, n), NEW r, r = ProposeCommand(i, n, c),
           Falls(i, r), node[i].role = "Leader", LogInv
    PROVE  LogKept
  <1>. DEFINE d == NewRaftNode(r)
  <1>1. PICK G, A : Holds(G, A)
    BY DEF LogInv, Holds
  <1>2. /\ Moves(i, d) /\ r \in NodeState /\ d.currentTerm = r.diskTerm /\ d.role = "Follower"
    BY DEF Falls, NewRaftNode
  <1>3. /\ i \in Node /\ n \in NodeState /\ IsSaved(n)
        /\ n.log = node[i].log /\ n.currentTerm = node[i].currentTerm
    BY <1>1, <1>2, HoldsFacts DEF Starts
  <1>. HIDE DEF d
  <1>4. CASE ~CanWrite(n)
    <2>1. r.log = node[i].log
      BY <1>3, <1>4, ProposeCommandLog
    <2>. QED BY <2>1, SameLogCrash
  <1>5. CASE CanWrite(n)
    <2>1. Extends(n.log, r.log, n.currentTerm)
      BY <1>3, <1>5, ProposeCommandLog
    <2>2. r.diskTerm = n.currentTerm
      BY <1>3, ProposalCalm DEF Calm, IsSaved
    <2>3. r.log \in Log
      BY <1>2 DEF NodeState
    <2>4. MayExtend(G, A, i, d, d.currentTerm, r.log)
      BY <1>1, <1>2, <1>3, <2>1, <2>2, <2>3, LeaderExtend
    <2>. QED BY <1>2, <2>4, ExtendCrash DEF d
  <1>. QED BY <1>4, <1>5

-----------------------------------------------------------------------------
(* Every step.                                                               *)

\* A node as a handler finds it, with any number of transactions left.
LEMMA WithStarts ==
    ASSUME TypeOK, ElectionInv, NEW i \in Node, NEW w \in Quotas
    PROVE  Starts(i, With(i, w))
  <1>. DEFINE n == With(i, w)
  <1>1. /\ node[i] \in NodeState /\ n \in NodeState /\ IsSaved(n) /\ n.out = {}
        /\ n.currentTerm = node[i].currentTerm
    BY WithType, WithSame
  <1>2. /\ n.role = node[i].role /\ n.log = node[i].log
        /\ n.votesReceived = node[i].votesReceived /\ n.diskTerm = node[i].diskTerm
        /\ n.preVotes = node[i].preVotes
    BY <1>1 DEF With, NodeState
  <1>. QED BY <1>1, <1>2 DEF Starts

\* An empty cluster.
LEMMA InitLog == Init => LogInv
  <1>. SUFFICES ASSUME Init PROVE LogInv
    OBVIOUS
  <1>. DEFINE G == [t \in Nat |-> <<>>]
              A == [j \in Node |-> [t \in Nat |-> 0]]
  <1>1. <<>> \in Log /\ Len(<<>>) = 0
    BY DEF Log
  <1>2. G \in [Nat -> Log] /\ A \in [Node -> [Nat -> Nat]]
    BY <1>1
  <1>3. \A t \in Nat : G[t] = <<>> /\ \A j \in Node : A[j][t] = 0
    OBVIOUS
  <1>. HIDE DEF G, A
  <1>4. /\ rpcs = {} /\ committed = <<>>
        /\ \A i \in Node : /\ node[i].role = "Follower" /\ node[i].currentTerm = 0
                           /\ node[i].log = <<>> /\ node[i].commitIndex = 0
                           /\ node[i].lastApplied = 0 /\ node[i].kv = {}
    BY DEF Init, NewRaftNode, EmptyDisk
  <1>5. \A x \in Log : Agree(<<>>, x, 0) /\ Agree(x, <<>>, 0)
    BY <1>1, LogLength DEF Agree
  <1>6. GhostSound(G, A, Terms) /\ Won(G)
    BY <1>1, <1>3 DEF GhostSound, Won, Backed, Own
  <1>7. ASSUME NEW i \in Node PROVE NodeSound(G, A, Terms, committed, i, node[i])
    <2>1. LogHeld(G, A, Terms, i, <<>>, 0)
      BY <1>1, <1>3, <1>5 DEF LogHeld, Backed, Covers
    <2>2. CommitSound(G, A, <<>>, node[i])
      BY <1>1, <1>4 DEF CommitSound, Settled, AppliedPrefix
    <2>. QED BY <1>4, <2>1, <2>2 DEF NodeSound, LeaderSound
  <1>8. VotesSound(G, A, Terms) /\ Settled(G, A, committed, Len(committed), 0)
    BY <1>1, <1>4 DEF VotesSound, Settled
  <1>9. LogSound(G, A)
    BY <1>4, <1>6, <1>7, <1>8 DEF LogSound
  <1>. QED BY <1>2, <1>4, <1>9 DEF LogInv, CallersElected

\* Calls that fail take nothing away that the rest depends on.
LEMMA FewerCalls ==
    ASSUME TypeOK, rpcs' \subseteq rpcs, UNCHANGED <<node, ballots, elected, committed>>, LogInv
    PROVE  LogKept
  <1>1. PICK G, A : Holds(G, A)
    BY DEF LogInv, Holds
  <1>2. node' = node /\ ballots' = ballots /\ elected' = elected /\ committed' = committed
    OBVIOUS
  <1>3. Terms' = Terms
    BY <1>2 DEF Terms
  <1>4. CallersElected'
    BY <1>1, <1>2 DEF Holds, CallersElected
  <1>5. Won(G)'
    BY <1>1, <1>2 DEF Holds, LogSound, Won, Supporters
  <1>6. /\ GhostSound(G, A, Terms') /\ \A i \in Node : NodeSound(G, A, Terms', committed', i, node'[i])
        /\ \A m \in rpcs' : AppendSound(G, A, committed', m)
        /\ \E u \in Nat : Settled(G, A, committed', Len(committed'), u)
    BY <1>1, <1>2, <1>3 DEF Holds, LogSound
  <1>7. ASSUME NEW i \in Node, node[i].role = "Candidate"
        PROVE  node[i].currentTerm >= 1 /\ node[i].votesReceived <= Cardinality(Behind(G, A, Terms, i)')
    <2>1. /\ Behind(G, A, Terms, i) \in SUBSET (Behind(G, A, Terms, i)')
          /\ Behind(G, A, Terms, i)' \in SUBSET Node
      BY <1>2, <1>3 DEF Behind
    <2>2. /\ Cardinality(Behind(G, A, Terms, i)) <= Cardinality(Behind(G, A, Terms, i)')
          /\ Cardinality(Behind(G, A, Terms, i)) \in Nat
          /\ Cardinality(Behind(G, A, Terms, i)') \in Nat
      BY <2>1, NodeCardinality
    <2>3. /\ node[i].currentTerm >= 1
          /\ node[i].votesReceived <= Cardinality(Behind(G, A, Terms, i))
      BY <1>1, <1>7 DEF Holds, LogSound, VotesSound
    <2>4. node[i].votesReceived \in Nat
      BY DEF TypeOK, NodeState
    <2>. QED BY <2>2, <2>3, <2>4
  <1>8. VotesSound(G, A, Terms)'
    <2>1. VotesSound(G, A, Terms)
      BY <1>1 DEF Holds, LogSound
    <2>2. \A m \in rpcs' : m.type = "RequestVote" /\ Standing(m.caller, m.term)' =>
             /\ m.lastLogIndex = LastIndex(node'[m.caller])
             /\ m.lastLogTerm = LastTerm(node'[m.caller])
      BY <1>2, <2>1 DEF VotesSound, Standing
    <2>3. \A m \in rpcs' :
             m.type = "RequestVoteResponse" /\ m.granted /\ Standing(m.caller, m.reqTerm)' =>
                /\ Terms'[m.peer] >= m.reqTerm
                /\ Covers(G, A, Terms', m.peer, node'[m.caller].log, m.reqTerm)
      BY <1>2, <1>3, <2>1 DEF VotesSound, Standing
    <2>. QED BY <1>2, <1>7, <2>2, <2>3 DEF VotesSound
  <1>9. LogSound(G, A)'
    BY <1>5, <1>6, <1>8 DEF LogSound
  <1>10. Agree(committed, committed', Len(committed))
    BY <1>2, LogLength, AgreeRefl DEF TypeOK
  <1>. QED BY <1>1, <1>4, <1>9, <1>10 DEF LogInv, Holds, LogKept

\* The critical sections of node i that store nothing, with the calls they take
\* off the network and what the clients then know.
Reads(i, r, handled, told) ==
    LET n == node[i]
    IN  \/ /\ r = BroadcastAppendEntries(i, n) \/ r = [n EXCEPT !.leaderContact = FALSE]
           /\ handled = {} /\ told = outcome
        \/ \E m \in rpcs : /\ m.type = "PreVote" /\ m.peer = i /\ r = HandlePreVote(n, m)
                           /\ handled = {m} /\ told = outcome
        \/ \E c \in Command :
              /\ n.newIndex[c] > 0 /\ handled = {}
              /\ \/ /\ n.commitCh[c] # "empty" /\ r = ProposalReturns(n, c)
                    /\ told = [outcome EXCEPT ![c] = IF n.commitCh[c] = "nil" THEN "ok"
                                                     ELSE "failed"]
                 \/ /\ r = ProposalTimesOut(n, c)
                    /\ told = [outcome EXCEPT ![c] = "failed"]

\* Node i has not heard from a leader, and no call of its pre-vote round q is left.
Unheard(i, q) ==
    /\ ~node[i].leaderContact
    /\ ~\E m \in rpcs : /\ m.type \in {"PreVote", "PreVoteResponse"}
                        /\ m.caller = i /\ m.round = q

\* Those that store something, which n starts: node i with some transactions left.
Writes(i, n, r, handled, told) ==
    \/ \E q \in Round : /\ node[i].role # "Leader" /\ Unheard(i, q) /\ r = StartElection(i, n, q)
                        /\ handled = {} /\ told = outcome
    \/ \E m \in rpcs :
          /\ handled = {m} /\ told = outcome
          /\ \/ m.type = "RequestVote" /\ m.peer = i /\ r = HandleRequestVote(n, m)
             \/ m.type = "AppendEntries" /\ m.peer = i /\ r = HandleAppendEntries(n, m)
             \/ m.type = "PreVoteResponse" /\ m.caller = i /\ r = HandlePreVoteResponse(i, n, m)
             \/ m.type = "RequestVoteResponse" /\ m.caller = i /\ r = HandleRequestVoteResponse(i, n, m)
             \/ m.type = "AppendEntriesResponse" /\ m.caller = i /\ r = HandleAppendEntriesResponse(i, n, m)
    \/ \E c \in Command : /\ node[i].role = "Leader" /\ outcome[c] = "new"
                          /\ r = ProposeCommand(i, n, c)
                          /\ handled = {} /\ told = Proposed(i, n.quota, c)

LEMMA ReadsStep ==
    ASSUME TypeOK, ElectionInv, NEW i \in Node, NEW r, NEW handled, NEW told,
           Reads(i, r, handled, told)
    PROVE  /\ r \in NodeState /\ HandlerStep(node[i], r) /\ Quiet(node[i], r)
           /\ \/ Still(node[i], r) /\ Refuses(r)
              \/ r = BroadcastAppendEntries(i, node[i]) /\ handled = {}
  <1>. DEFINE n == node[i]
  <1>a. MaxWrites \in Quotas
    BY DEF Quotas, MaxWrites
  <1>b. n \in NodeState /\ IsSaved(n) /\ n.out = {}
    BY <1>a, WithType, WithSame
  <1>1. CASE r = BroadcastAppendEntries(i, n) /\ handled = {}
    <2>1. r \in NodeState
      BY <1>1, <1>b, SendAppendEntriesType DEF BroadcastAppendEntries, Peers
    <2>. QED BY <1>1, <1>b, <2>1, SendAppendEntriesCalm, CalmStep
  <1>2. CASE r = [n EXCEPT !.leaderContact = FALSE]
    <2>1. r \in NodeState /\ Calm(n, r)
      BY <1>2, <1>b DEF NodeState, Calm
    <2>2. Still(n, r) /\ r.out = {}
      BY <1>2, <1>b, ContactEndStill
    <2>. QED BY <1>b, <2>1, <2>2, CalmStep DEF Refuses
  <1>3. ASSUME NEW m \in rpcs, m.type = "PreVote", m.peer = i, r = HandlePreVote(n, m)
        PROVE  /\ r \in NodeState /\ HandlerStep(n, r) /\ Quiet(n, r)
               /\ Still(n, r) /\ Refuses(r)
    <2>1. m \in VoteRequest
      BY <1>3, MessageKind DEF TypeOK
    <2>2. r \in NodeState /\ HandlerStep(n, r) /\ Quiet(n, r) /\ Still(n, r) /\ NoAppends(r)
      BY <1>3, <1>b, <2>1, HandleRequestVoteType, HandlePreVoteStep, HandlePreVoteStill
    <2>. QED BY <2>2 DEF NoAppends, Refuses
  <1>4. ASSUME NEW c \in Command, r = ProposalReturns(n, c) \/ r = ProposalTimesOut(n, c)
        PROVE  /\ r \in NodeState /\ HandlerStep(n, r) /\ Quiet(n, r)
               /\ Still(n, r) /\ Refuses(r)
    <2>1. r \in NodeState /\ HandlerStep(n, r) /\ Quiet(n, r) /\ Still(n, r) /\ r.out = {}
      BY <1>4, <1>b, ProposalEndType, ProposalStep, ProposalEndStill
    <2>. QED BY <2>1 DEF Refuses
  <1>. QED BY <1>1, <1>2, <1>3, <1>4, Zenon DEF Reads

LEMMA WritesStep ==
    ASSUME TypeOK, NEW i \in Node, NEW n, Starts(i, n), NEW r, NEW handled, NEW told,
           Writes(i, n, r, handled, told)
    PROVE  r \in NodeState /\ HandlerStep(n, r)
  <1>1. n \in NodeState /\ IsSaved(n) /\ n.out = {}
    BY DEF Starts
  <1>2. ASSUME NEW q \in Round, r = StartElection(i, n, q)
        PROVE  r \in NodeState /\ HandlerStep(n, r)
    BY <1>1, <1>2, StartElectionType, StartElectionStep
  <1>3. ASSUME NEW c \in Command, r = ProposeCommand(i, n, c)
        PROVE  r \in NodeState /\ HandlerStep(n, r)
    BY <1>1, <1>3, ProposeCommandType, ProposalStep
  <1>4. ASSUME NEW m \in rpcs, m.type = "RequestVote", r = HandleRequestVote(n, m)
        PROVE  r \in NodeState /\ HandlerStep(n, r)
    <2>1. m \in VoteRequest
      BY <1>4, MessageKind DEF TypeOK
    <2>. QED BY <1>1, <1>4, <2>1, HandleRequestVoteType, HandleRequestVoteStep
  <1>5. ASSUME NEW m \in rpcs, m.type = "AppendEntries", r = HandleAppendEntries(n, m)
        PROVE  r \in NodeState /\ HandlerStep(n, r)
    <2>1. m \in AppendRequest
      BY <1>5, MessageKind DEF TypeOK
    <2>. QED BY <1>1, <1>5, <2>1, HandleAppendEntriesType, HandleAppendEntriesStep
  <1>6. ASSUME NEW m \in rpcs, m.type = "PreVoteResponse", r = HandlePreVoteResponse(i, n, m)
        PROVE  r \in NodeState /\ HandlerStep(n, r)
    <2>1. m \in VoteResponse
      BY <1>6, MessageKind DEF TypeOK
    <2>. QED BY <1>1, <1>6, <2>1, HandlePreVoteResponseType, HandlePreVoteResponseStep
  <1>7. ASSUME NEW m \in rpcs, m.type = "RequestVoteResponse",
               r = HandleRequestVoteResponse(i, n, m)
        PROVE  r \in NodeState /\ HandlerStep(n, r)
    <2>1. m \in VoteResponse
      BY <1>7, MessageKind DEF TypeOK
    <2>. QED BY <1>1, <1>7, <2>1, HandleRequestVoteResponseType, HandleRequestVoteResponseStep
  <1>8. ASSUME NEW m \in rpcs, m.type = "AppendEntriesResponse",
               r = HandleAppendEntriesResponse(i, n, m)
        PROVE  r \in NodeState /\ HandlerStep(n, r)
    <2>1. m \in AppendResponse
      BY <1>8, MessageKind DEF TypeOK
    <2>. QED BY <1>1, <1>8, <2>1, HandleAppendEntriesResponseType,
                HandleAppendEntriesResponseStep
  <1>. QED BY <1>2, <1>3, <1>4, <1>5, <1>6, <1>7, <1>8, Zenon DEF Writes

\* Node i ran a handler to its end.
Ran(i, r, handled, told) ==
    /\ Runs(i, r, handled) /\ outcome' = told
    /\ Reads(i, r, handled, told) \/ Writes(i, node[i], r, handled, told)

\* Node i died in a handler that n started, or between two.
Died(i, n, r, handled, told) ==
    /\ Falls(i, r) /\ Starts(i, n)
    /\ outcome' = [c \in Command |-> IF node[i].newIndex[c] > 0 THEN "failed" ELSE outcome[c]]
    /\ r = n \/ Writes(i, n, r, handled, told)

\* Calls failed, or nothing happened.
Idle ==
    rpcs' \subseteq rpcs /\ UNCHANGED <<node, outcome, crashes, ballots, elected, committed>>

\* Without disk errors a handler runs to its end with all its transactions, or
\* the process dies.
LEMMA SettlesCases ==
    ASSUME FaultyDisk = FALSE, TypeOK, TypeOK', ElectionInv, ElectionInv', NEW i \in Node,
           NEW w \in Quotas, NEW r, NEW handled, NEW told, Settles(i, w, r, handled, told),
           Writes(i, With(i, w), r, handled, told)
    PROVE  Ran(i, r, handled, told) \/ Died(i, With(i, w), r, handled, told)
  <1>. DEFINE n == With(i, w)
  <1>1. Starts(i, n)
    BY WithStarts
  <1>2. r \in NodeState /\ HandlerStep(n, r)
    BY <1>1, WritesStep
  <1>3. (w = MaxWrites /\ n = node[i] /\ Completes(i, r, handled, told)) \/ Dies(i, r, handled)
    BY WithSame DEF Settles
  <1>4. CASE w = MaxWrites /\ n = node[i] /\ Completes(i, r, handled, told)
    <2>1. n.quota = w
      BY WithSame
    <2>2. VoteStep(node[i], r)
      BY <1>2, <1>4, <2>1 DEF HandlerStep
    <2>3. Runs(i, r, handled)
      BY <1>2, <1>4, <2>2, CompletesRuns
    <2>. QED BY <1>4, <2>3 DEF Ran, Completes
  <1>5. CASE Dies(i, r, handled)
    <2>1. n.currentTerm = node[i].currentTerm /\ n.votedFor = node[i].votedFor
      BY WithSame
    <2>2. DiskStep(node[i], r)
      BY <1>2, <2>1 DEF HandlerStep, DiskStep
    <2>3. Falls(i, r)
      BY <1>2, <1>5, <2>2, DiesFalls
    <2>. QED BY <1>1, <1>5, <2>3 DEF Died, Dies
  <1>. QED BY <1>3, <1>4, <1>5

\* Every step is one of these.
LEMMA NextCases ==
    ASSUME FaultyDisk = FALSE, TypeOK, ElectionInv, [Next]_vars
    PROVE  \/ \E i \in Node : \E r, handled, told : Ran(i, r, handled, told)
           \/ \E i \in Node : \E n, r, handled, told : Died(i, n, r, handled, told)
           \/ Idle
  <1>. DEFINE Goal == \/ \E i \in Node : \E r, handled, told : Ran(i, r, handled, told)
                      \/ \E i \in Node : \E n, r, handled, told : Died(i, n, r, handled, told)
                      \/ Idle
  <1>. SUFFICES Goal
    OBVIOUS
  <1>t. TypeOK' /\ ElectionInv'
    BY NextType, NextElection DEF Kept
  <1>0. \A m \in rpcs : m.caller \in Node /\ m.peer \in Node
    BY MessageKind DEF TypeOK
  <1>a. MaxWrites \in Quotas
    BY DEF Quotas, MaxWrites
  <1>b. \A i \in Node : /\ node[i] \in NodeState /\ IsSaved(node[i]) /\ With(i, MaxWrites) = node[i]
                        /\ node[i].quota = MaxWrites
    BY <1>a, WithType, WithSame
  <1>c. \A i \in Node : \A r, handled, told :
            Completes(i, r, handled, told) /\ Reads(i, r, handled, told) => Goal
    <2>. SUFFICES ASSUME NEW i \in Node, NEW r, NEW handled, NEW told,
                         Completes(i, r, handled, told), Reads(i, r, handled, told)
                  PROVE  Ran(i, r, handled, told)
      OBVIOUS
    <2>1. r \in NodeState /\ VoteStep(node[i], r)
      BY <1>b, ReadsStep DEF HandlerStep
    <2>2. Runs(i, r, handled)
      BY <1>t, <2>1, CompletesRuns
    <2>. QED BY <2>2 DEF Ran, Completes
  <1>d. \A i \in Node, w \in Quotas : \A r, handled, told :
            Settles(i, w, r, handled, told) /\ Writes(i, With(i, w), r, handled, told) => Goal
    <2>. SUFFICES ASSUME NEW i \in Node, NEW w \in Quotas, NEW r, NEW handled, NEW told,
                         Settles(i, w, r, handled, told), Writes(i, With(i, w), r, handled, told)
                  PROVE  Goal
      OBVIOUS
    <2>1. Ran(i, r, handled, told) \/ Died(i, With(i, w), r, handled, told)
      BY <1>t, SettlesCases
    <2>. QED BY <2>1
  <1>. HIDE DEF Goal
  <1>1. ASSUME NEW i \in Node, NEW q \in Round, ElectionTimeout(i, q) PROVE Goal
    <2>1. PICK w \in Quotas : Settles(i, w, StartElection(i, With(i, w), q), {}, outcome)
      BY <1>1 DEF ElectionTimeout
    <2>2. Writes(i, With(i, w), StartElection(i, With(i, w), q), {}, outcome)
      BY <1>1, Zenon DEF Writes, Unheard, ElectionTimeout
    <2>. QED BY <1>d, <2>1, <2>2
  <1>2. ASSUME NEW i \in Node, HeartbeatTimeout(i) PROVE Goal
    <2>1. Reads(i, BroadcastAppendEntries(i, node[i]), {}, outcome)
      BY Zenon DEF Reads
    <2>. QED BY <1>2, <1>c, <2>1 DEF HeartbeatTimeout
  <1>3. ASSUME NEW i \in Node, LeaderContactExpires(i) PROVE Goal
    <2>1. Reads(i, [node[i] EXCEPT !.leaderContact = FALSE], {}, outcome)
      BY Zenon DEF Reads
    <2>2. Completes(i, [node[i] EXCEPT !.leaderContact = FALSE], {}, outcome)
      BY <1>3, Zenon DEF LeaderContactExpires
    <2>. QED BY <1>c, <2>1, <2>2, Zenon
  <1>4. ASSUME NEW i \in Node, Crash(i) PROVE Goal
    <2>1. DiskStep(node[i], node[i])
      BY <1>b DEF DiskStep, IsSaved, NodeState
    <2>2. Falls(i, node[i])
      BY <1>4, <1>b, <1>t, <2>1, DiesFalls DEF Crash
    <2>3. Starts(i, node[i])
      BY <1>a, <1>b, WithStarts
    <2>. QED BY <1>4, <2>2, <2>3 DEF Died, Crash, Dies, Goal
  <1>5. ASSUME NEW m \in rpcs, ReceivePreVote(m) PROVE Goal
    <2>1. Reads(m.peer, HandlePreVote(node[m.peer], m), {m}, outcome)
      BY <1>5, Zenon DEF Reads, ReceivePreVote
    <2>. QED BY <1>0, <1>5, <1>c, <2>1 DEF ReceivePreVote
  <1>6. ASSUME NEW m \in rpcs, ReceiveRequestVote(m) PROVE Goal
    <2>. DEFINE n(w) == HandleRequestVote(With(m.peer, w), m)
    <2>1. PICK w \in Quotas : Settles(m.peer, w, n(w), {m}, outcome)
      BY <1>6 DEF ReceiveRequestVote
    <2>2. Writes(m.peer, With(m.peer, w), n(w), {m}, outcome)
      BY <1>6, Zenon DEF Writes, ReceiveRequestVote
    <2>. QED BY <1>0, <1>d, <2>1, <2>2
  <1>7. ASSUME NEW m \in rpcs, ReceiveAppendEntries(m) PROVE Goal
    <2>. DEFINE n(w) == HandleAppendEntries(With(m.peer, w), m)
    <2>1. PICK w \in Quotas : Settles(m.peer, w, n(w), {m}, outcome)
      BY <1>7 DEF ReceiveAppendEntries
    <2>2. Writes(m.peer, With(m.peer, w), n(w), {m}, outcome)
      BY <1>7, Zenon DEF Writes, ReceiveAppendEntries
    <2>. QED BY <1>0, <1>d, <2>1, <2>2
  <1>8. ASSUME NEW m \in rpcs, ReceivePreVoteResponse(m) PROVE Goal
    <2>. DEFINE n(w) == HandlePreVoteResponse(m.caller, With(m.caller, w), m)
    <2>1. PICK w \in Quotas : Settles(m.caller, w, n(w), {m}, outcome)
      BY <1>8 DEF ReceivePreVoteResponse
    <2>2. Writes(m.caller, With(m.caller, w), n(w), {m}, outcome)
      BY <1>8, Zenon DEF Writes, ReceivePreVoteResponse
    <2>. QED BY <1>0, <1>d, <2>1, <2>2
  <1>9. ASSUME NEW m \in rpcs, ReceiveRequestVoteResponse(m) PROVE Goal
    <2>. DEFINE n(w) == HandleRequestVoteResponse(m.caller, With(m.caller, w), m)
    <2>1. PICK w \in Quotas : Settles(m.caller, w, n(w), {m}, outcome)
      BY <1>9 DEF ReceiveRequestVoteResponse
    <2>2. Writes(m.caller, With(m.caller, w), n(w), {m}, outcome)
      BY <1>9, Zenon DEF Writes, ReceiveRequestVoteResponse
    <2>. QED BY <1>0, <1>d, <2>1, <2>2
  <1>10. ASSUME NEW m \in rpcs, ReceiveAppendEntriesResponse(m) PROVE Goal
    <2>. DEFINE n(w) == HandleAppendEntriesResponse(m.caller, With(m.caller, w), m)
    <2>1. PICK w \in Quotas : Settles(m.caller, w, n(w), {m}, outcome)
      BY <1>10 DEF ReceiveAppendEntriesResponse
    <2>2. Writes(m.caller, With(m.caller, w), n(w), {m}, outcome)
      BY <1>10, Zenon DEF Writes, ReceiveAppendEntriesResponse
    <2>. QED BY <1>0, <1>d, <2>1, <2>2
  <1>11. ASSUME NEW m \in rpcs, CallFails(m) PROVE Goal
    BY <1>11 DEF CallFails, Idle, Goal
  <1>12. ASSUME NEW i \in Node, NEW c \in Command, Propose(i, c) PROVE Goal
    <2>1. PICK w \in Quotas :
            Settles(i, w, ProposeCommand(i, With(i, w), c), {}, Proposed(i, w, c))
      BY <1>12 DEF Propose
    <2>2. With(i, w).quota = w
      BY WithSame
    <2>3. Writes(i, With(i, w), ProposeCommand(i, With(i, w), c), {}, Proposed(i, w, c))
      <3>1. node[i].role = "Leader" /\ outcome[c] = "new"
        BY <1>12 DEF Propose
      <3>2. Proposed(i, w, c) = Proposed(i, With(i, w).quota, c)
        BY <2>2
      <3>. QED BY <3>1, <3>2, Zenon DEF Writes
    <2>. QED BY <1>d, <2>1, <2>3
  <1>13. ASSUME NEW i \in Node, NEW c \in Command, ProposeReturns(i, c) PROVE Goal
    <2>. DEFINE told == [outcome EXCEPT ![c] = IF node[i].commitCh[c] = "nil" THEN "ok"
                                               ELSE "failed"]
    <2>1. Completes(i, ProposalReturns(node[i], c), {}, told)
      BY <1>13, Zenon DEF ProposeReturns
    <2>2. Reads(i, ProposalReturns(node[i], c), {}, told)
      BY <1>13, Zenon DEF Reads, ProposeReturns
    <2>. QED BY <1>c, <2>1, <2>2, Zenon
  <1>14. ASSUME NEW i \in Node, NEW c \in Command, ProposeTimesOut(i, c) PROVE Goal
    <2>. DEFINE told == [outcome EXCEPT ![c] = "failed"]
    <2>1. Completes(i, ProposalTimesOut(node[i], c), {}, told)
      BY <1>14, Zenon DEF ProposeTimesOut
    <2>2. Reads(i, ProposalTimesOut(node[i], c), {}, told)
      BY <1>14, Zenon DEF Reads, ProposeTimesOut
    <2>. QED BY <1>c, <2>1, <2>2, Zenon
  <1>15. CASE UNCHANGED vars
    BY <1>15 DEF vars, Idle, Goal
  <1>. QED
    BY <1>1, <1>2, <1>3, <1>4, <1>5, <1>6, <1>7, <1>8, <1>9, <1>10, <1>11, <1>12, <1>13,
       <1>14, <1>15, Zenon DEF Next

\* A leader that goes on leading has what it had.
Prolongs(n, r) ==
    n.role = "Leader" /\ r.role = "Leader" => Agree(n.log, r.log, Len(n.log))

LEMMA StillProlongs ==
    ASSUME NEW n \in NodeState, NEW r, r.log = n.log
    PROVE  Prolongs(n, r)
  <1>1. Len(n.log) \in Nat
    BY LogLength DEF NodeState
  <1>. QED BY <1>1 DEF Prolongs, Agree

LEMMA ExtendsProlongs ==
    ASSUME NEW n \in NodeState, NEW r \in NodeState, NEW t, Extends(n.log, r.log, t)
    PROVE  Prolongs(n, r)
  <1>1. Len(n.log) \in Nat
    BY LogLength DEF NodeState
  <1>. QED BY <1>1 DEF Prolongs, Agree, Extends

\* A handler that completes keeps the invariant, and a leader its log.
LEMMA RanLog ==
    ASSUME NEW i \in Node, NEW r, NEW handled, NEW told, Ran(i, r, handled, told), LogInv
    PROVE  LogKept /\ Prolongs(node[i], r)
  <1>. DEFINE n == node[i]
              Goal == LogKept /\ Prolongs(n, r)
  <1>. SUFFICES Goal
    OBVIOUS
  <1>a. TypeOK /\ ElectionInv /\ Runs(i, r, handled) /\ r \in NodeState /\ Moves(i, Done(r))
    BY DEF Ran, Runs, Moves
  <1>b. PICK G, A : Holds(G, A)
    BY DEF LogInv, Holds
  <1>c. /\ n \in NodeState /\ n.out = {} /\ IsSaved(n) /\ n.quota = MaxWrites
        /\ rpcs \subseteq Message
    BY <1>a, <1>b, HoldsFacts
  <1>d. Starts(i, n)
    BY <1>c DEF Starts
  <1>e. ASSUME Elects(i, n, r), Quiet(n, r) \/ Campaigned(i, n, r) PROVE Goal
    <2>1. LogKept
      BY <1>a, <1>e, ElectsLog
    <2>2. CASE Still(n, r)
      BY <1>c, <2>1, <2>2, StillProlongs DEF Still
    <2>3. CASE WinsAlone(i, n, r)
      <3>1. PICK c \in NodeState : Winner(n, c) /\ r = BecomeLeader(i, c)
        BY <2>3 DEF WinsAlone
      <3>2. c.role = "Candidate" /\ c.log = n.log /\ CanWrite(c)
        BY <1>c, <3>1 DEF Winner
      <3>3. Extends(n.log, r.log, c.currentTerm)
        BY <3>1, <3>2, BecomeLeaderLog
      <3>. QED BY <1>a, <1>c, <2>1, <3>3, ExtendsProlongs
    <2>. QED BY <1>e, <2>2, <2>3 DEF Elects
  <1>. HIDE DEF Goal
  <1>1. CASE Reads(i, r, handled, told)
    <2>1. /\ HandlerStep(n, r) /\ Quiet(n, r)
          /\ \/ Still(n, r) /\ Refuses(r)
             \/ r = BroadcastAppendEntries(i, n) /\ handled = {}
      BY <1>1, <1>a, ReadsStep
    <2>2. CASE Still(n, r) /\ Refuses(r)
      <3>1. Votes(i, Done(r))
        BY <1>a, <2>1, <2>2, QuietVotes DEF Still
      <3>2. LogKept
        BY <1>a, <2>2, <3>1, StillLog
      <3>. QED BY <1>c, <2>2, <3>2, StillProlongs DEF Still, Goal
    <2>3. CASE r = BroadcastAppendEntries(i, n) /\ handled = {}
      <3>1. LogKept
        BY <1>a, <2>3, HeartbeatLog
      <3>2. r.log = n.log
        BY <1>c, <2>3 DEF BroadcastAppendEntries, SendAppendEntries, NodeState
      <3>. QED BY <1>c, <3>1, <3>2, StillProlongs DEF Goal
    <2>. QED BY <2>1, <2>2, <2>3
  <1>2. ASSUME NEW q \in Round, r = StartElection(i, n, q) PROVE Goal
    BY <1>2, <1>c, <1>e, StartElectionStep, StartElectionElects
  <1>3. ASSUME NEW m \in rpcs, handled = {m}, m.type = "RequestVote", m.peer = i,
               r = HandleRequestVote(n, m)
        PROVE  Goal
    <2>1. m \in VoteRequest
      BY <1>3, <1>c, MessageKind
    <2>2. /\ Replied(n, m, r) /\ Still(n, r) /\ NoAppends(r)
          /\ \A k \in r.out : k.type = "RequestVoteResponse" /\ k.granted
                              => CandidateLogUpToDate(n, m)
      BY <1>3, <1>c, <2>1, HandleRequestVoteStep, HandleRequestVoteStill
    <2>3. Votes(i, Done(r))
      BY <1>3, <1>a, <2>2, RepliedVotes DEF Still
    <2>4. LogKept
      BY <1>a, <2>2, <2>3, StillLog DEF Refuses, NoAppends
    <2>. QED BY <1>c, <2>2, <2>4, StillProlongs DEF Still, Goal
  <1>4. ASSUME NEW m \in rpcs, handled = {m}, m.type = "AppendEntries", m.peer = i,
               r = HandleAppendEntries(n, m)
        PROVE  Goal
    <2>1. LogKept
      BY <1>4, <1>a, BatchLog
    <2>2. m \in AppendRequest /\ m.term \in Nat /\ n.currentTerm \in Nat
      BY <1>4, <1>c, MessageKind, BatchValues DEF NodeState
    <2>3. CASE m.term < n.currentTerm
      BY <1>4, <1>c, <2>1, <2>2, <2>3, RefusalStill, StillProlongs DEF Still, Goal
    <2>4. CASE n.currentTerm <= m.term
      <3>1. Arrives(G, n, m)
        BY <1>4, <1>a, <1>b, <1>d, <2>4, BatchArrives
      <3>2. r.role = "Follower"
        BY <1>4, <1>c, <2>2, <3>1, HandleAppendEntriesLog
      <3>. QED BY <2>1, <3>2 DEF Prolongs, Goal
    <2>. QED BY <2>2, <2>3, <2>4
  <1>5. ASSUME NEW m \in rpcs, handled = {m}, m.type = "PreVoteResponse", m.caller = i,
               r = HandlePreVoteResponse(i, n, m)
        PROVE  Goal
    <2>1. m \in VoteResponse
      BY <1>5, <1>c, MessageKind
    <2>. QED BY <1>5, <1>c, <1>e, <2>1, HandlePreVoteResponseStep, HandlePreVoteResponseElects
  <1>6. ASSUME NEW m \in rpcs, handled = {m}, m.type = "RequestVoteResponse", m.caller = i,
               r = HandleRequestVoteResponse(i, n, m)
        PROVE  Goal
    <2>1. m \in VoteResponse
      BY <1>6, <1>c, MessageKind
    <2>2. LogKept
      BY <1>6, <1>a, CountLog
    <2>3. Still(n, r) \/ n.role = "Candidate"
      BY <1>6, <1>c, <2>1, HandleRequestVoteResponseElects DEF WinsWith
    <2>4. Prolongs(n, r)
      BY <1>c, <2>3, StillProlongs DEF Still, Prolongs
    <2>. QED BY <2>2, <2>4 DEF Goal
  <1>7. ASSUME NEW m \in rpcs, handled = {m}, m.type = "AppendEntriesResponse", m.caller = i,
               r = HandleAppendEntriesResponse(i, n, m)
        PROVE  Goal
    <2>1. m \in AppendResponse
      BY <1>7, <1>c, MessageKind
    <2>2. LogKept
      BY <1>7, <1>a, ResponseLog
    <2>. QED BY <1>7, <1>c, <2>1, <2>2, HandleAppendEntriesResponseLog, StillProlongs DEF Goal
  <1>8. ASSUME NEW c \in Command, handled = {}, node[i].role = "Leader",
               r = ProposeCommand(i, n, c)
        PROVE  Goal
    <2>1. LogKept
      BY <1>8, <1>a, ProposeLog
    <2>2. CanWrite(n)
      BY <1>c DEF CanWrite, MaxWrites
    <2>3. Extends(n.log, r.log, n.currentTerm)
      BY <1>8, <1>c, <2>2, ProposeCommandLog
    <2>. QED BY <1>a, <1>c, <2>1, <2>3, ExtendsProlongs DEF Goal
  <1>. QED BY <1>1, <1>2, <1>3, <1>4, <1>5, <1>6, <1>7, <1>8, Zenon DEF Ran, Writes

\* So does a crash anywhere in one, after which nobody leads.
LEMMA DiedLog ==
    ASSUME NEW i \in Node, NEW n, NEW r, NEW handled, NEW told, Died(i, n, r, handled, told),
           LogInv
    PROVE  LogKept
  <1>a. /\ TypeOK /\ Falls(i, r) /\ Starts(i, n) /\ n \in NodeState /\ n.log = node[i].log
        /\ n.out = {} /\ IsSaved(n)
    BY DEF Died, Falls, Moves, Starts
  <1>b. ASSUME r.log = n.log PROVE LogKept
    BY <1>a, <1>b, SameLogCrash
  <1>1. CASE r = n
    BY <1>1, <1>b
  <1>2. ASSUME NEW q \in Round, r = StartElection(i, n, q) PROVE LogKept
    <2>1. Elects(i, n, r)
      BY <1>2, <1>a, StartElectionElects
    <2>. QED BY <1>a, <2>1, ElectsCrash
  <1>3. ASSUME NEW m \in rpcs, m.type = "RequestVote", r = HandleRequestVote(n, m) PROVE LogKept
    <2>1. m \in VoteRequest
      BY <1>3, <1>a, MessageKind DEF TypeOK
    <2>. QED BY <1>3, <1>a, <1>b, <2>1, HandleRequestVoteStill DEF Still
  <1>4. ASSUME NEW m \in rpcs, m.type = "AppendEntries", m.peer = i,
               r = HandleAppendEntries(n, m)
        PROVE  LogKept
    BY <1>4, <1>a, BatchCrash
  <1>5. ASSUME NEW m \in rpcs, m.type = "PreVoteResponse", r = HandlePreVoteResponse(i, n, m)
        PROVE  LogKept
    <2>1. m \in VoteResponse
      BY <1>5, <1>a, MessageKind DEF TypeOK
    <2>2. Elects(i, n, r)
      BY <1>5, <1>a, <2>1, HandlePreVoteResponseElects
    <2>. QED BY <1>a, <2>2, ElectsCrash
  <1>6. ASSUME NEW m \in rpcs, m.type = "RequestVoteResponse", m.caller = i,
               r = HandleRequestVoteResponse(i, n, m)
        PROVE  LogKept
    BY <1>6, <1>a, CountCrash
  <1>7. ASSUME NEW m \in rpcs, m.type = "AppendEntriesResponse",
               r = HandleAppendEntriesResponse(i, n, m)
        PROVE  LogKept
    <2>1. m \in AppendResponse
      BY <1>7, <1>a, MessageKind DEF TypeOK
    <2>. QED BY <1>7, <1>a, <1>b, <2>1, HandleAppendEntriesResponseLog
  <1>8. ASSUME NEW c \in Command, node[i].role = "Leader", r = ProposeCommand(i, n, c)
        PROVE  LogKept
    BY <1>8, <1>a, ProposeCrash
  <1>. QED BY <1>1, <1>2, <1>3, <1>4, <1>5, <1>6, <1>7, <1>8, Zenon DEF Died, Writes

LEMMA NextLog ==
    ASSUME FaultyDisk = FALSE
    PROVE  TypeOK /\ ElectionInv /\ LogInv /\ [Next]_vars
           => LogKept /\ \A j \in Node : Prolongs(node[j], node'[j])
  <1>. SUFFICES ASSUME TypeOK, ElectionInv, LogInv, [Next]_vars
                PROVE  LogKept /\ \A j \in Node : Prolongs(node[j], node'[j])
    OBVIOUS
  <1>0. \A j \in Node : node[j] \in NodeState
    BY DEF TypeOK
  <1>1. ASSUME NEW i \in Node, NEW r, NEW handled, NEW told, Ran(i, r, handled, told)
        PROVE  LogKept /\ \A j \in Node : Prolongs(node[j], node'[j])
    <2>1. LogKept /\ Prolongs(node[i], r)
      BY <1>1, RanLog
    <2>2. r \in NodeState /\ Moves(i, Done(r))
      BY <1>1 DEF Ran, Runs
    <2>3. node'[i] = Done(r) /\ \A j \in Node : j # i => node'[j] = node[j]
      BY <2>2, MovesFacts
    <2>4. node'[i].role = r.role /\ node'[i].log = r.log
      BY <2>2, <2>3, DoneFields
    <2>5. Prolongs(node[i], node'[i])
      BY <2>1, <2>4 DEF Prolongs
    <2>6. ASSUME NEW j \in Node, j # i PROVE Prolongs(node[j], node'[j])
      BY <1>0, <2>3, <2>6, StillProlongs
    <2>. QED BY <2>1, <2>5, <2>6
  <1>2. ASSUME NEW i \in Node, NEW n, NEW r, NEW handled, NEW told,
               Died(i, n, r, handled, told)
        PROVE  LogKept /\ \A j \in Node : Prolongs(node[j], node'[j])
    <2>1. LogKept
      BY <1>2, DiedLog
    <2>2. Moves(i, NewRaftNode(r))
      BY <1>2 DEF Died, Falls
    <2>3. node'[i] = NewRaftNode(r) /\ \A j \in Node : j # i => node'[j] = node[j]
      BY <2>2, MovesFacts
    <2>4. Prolongs(node[i], node'[i])
      BY <2>3 DEF Prolongs, NewRaftNode
    <2>5. ASSUME NEW j \in Node, j # i PROVE Prolongs(node[j], node'[j])
      BY <1>0, <2>3, <2>5, StillProlongs
    <2>. QED BY <2>1, <2>4, <2>5
  <1>3. CASE Idle
    <2>1. LogKept /\ node' = node
      BY <1>3, FewerCalls DEF Idle
    <2>. QED BY <1>0, <2>1, StillProlongs
  <1>. QED BY <1>1, <1>2, <1>3, NextCases

-----------------------------------------------------------------------------
(* The theorems.                                                             *)

\* The invariant behind the theorems below holds in every reachable state: the
\* entries of HandleAppendEntries, becomeLeader and ProposeCommand stand where
\* the leaders put them, and no majority's acknowledgement is ever undone.
THEOREM LogInvariantHolds ==
    ASSUME FaultyDisk = FALSE
    PROVE  Spec => []LogInv
  <1>1. TypeOK /\ ElectionInv /\ LogInv /\ [Next]_vars => LogInv'
    BY NextLog DEF LogKept
  <1>. QED BY <1>1, InitLog, TypeCorrect, ElectionInvariant, PTL DEF Spec

\* Logs that agree up to k have the same prefix of length k.
LEMMA AgreePrefix ==
    ASSUME NEW x \in Log, NEW y \in Log, NEW k \in Nat, Agree(x, y, k)
    PROVE  /\ SubSeq(x, 1, k) = SubSeq(y, 1, k)
           /\ IsPrefix(SubSeq(x, 1, k), y)
           /\ k = Len(x) => IsPrefix(x, y)
  <1>1. k <= Len(x) /\ k <= Len(y) /\ \A p \in 1..k : x[p] = y[p]
    BY DEF Agree
  <1>2. SubSeq(x, 1, k) = SubSeq(y, 1, k) /\ Len(SubSeq(x, 1, k)) = k
    BY <1>1, LogLength DEF Log
  <1>3. SubSeq(SubSeq(x, 1, k), 1, k) = SubSeq(x, 1, k)
    BY <1>1, LogLength DEF Log
  <1>. QED BY <1>1, <1>2, <1>3 DEF IsPrefix

\* What the invariant says of the state, with its ghosts named.
LEMMA StateFacts ==
    ASSUME TypeOK, LogInv
    PROVE  \E G, A : /\ GhostType(G, A, Terms) /\ GhostSound(G, A, Terms)
                     /\ \A i \in Node : /\ node[i] \in NodeState /\ node[i].log \in Log
                                        /\ node[i].currentTerm \in Nat
                                        /\ NodeSound(G, A, Terms, committed, i, node[i])
                     /\ \E u \in Nat : Settled(G, A, committed, Len(committed), u)
  <1>1. PICK G, A : G \in [Nat -> Log] /\ A \in [Node -> [Nat -> Nat]] /\ LogSound(G, A)
    BY DEF LogInv
  <1>2. \A i \in Node : /\ node[i] \in NodeState /\ node[i].log \in Log
                        /\ node[i].currentTerm \in Nat
    BY DEF TypeOK, NodeState
  <1>3. GhostType(G, A, Terms)
    BY <1>1, <1>2 DEF GhostType, Terms
  <1>. QED BY <1>1, <1>2, <1>3 DEF LogSound

\* HandleAppendEntries: two logs with an entry of the same term at an index are
\* the same up to it.  Each entry stands where the leader of its term had it.
THEOREM LogsMatch ==
    ASSUME FaultyDisk = FALSE
    PROVE  Spec => []LogMatching
  <1>1. TypeOK /\ LogInv => LogMatching
    <2>. SUFFICES ASSUME TypeOK, LogInv, NEW i \in Node, NEW j \in Node,
                         NEW k \in 1..Len(node[i].log), k <= Len(node[j].log),
                         node[i].log[k].term = node[j].log[k].term
                  PROVE  SubSeq(node[i].log, 1, k) = SubSeq(node[j].log, 1, k)
      BY DEF LogMatching
    <2>1. PICK G, A : /\ GhostType(G, A, Terms)
                      /\ \A l \in Node : /\ node[l].log \in Log
                                         /\ NodeSound(G, A, Terms, committed, l, node[l])
      BY StateFacts
    <2>2. G \in [Nat -> Log] /\ Backed(G, node[i].log) /\ Backed(G, node[j].log)
      BY <2>1 DEF GhostType, NodeSound, LogHeld
    <2>3. k \in Nat /\ k >= 1 /\ k <= Len(node[i].log)
      BY <2>1, LogLength
    <2>4. Agree(node[i].log, node[j].log, k)
      BY <2>1, <2>2, <2>3, MatchAgree
    <2>. QED BY <2>1, <2>3, <2>4, AgreePrefix
  <1>. QED BY <1>1, TypeCorrect, LogInvariantHolds, PTL

\* sendAppendEntriesToPeerLocked's response handler: while a peer is in the
\* leader's term it holds what matchIndex claims.
THEOREM MatchIndexHolds ==
    ASSUME FaultyDisk = FALSE
    PROVE  Spec => []MatchIndexSound
  <1>1. TypeOK /\ LogInv => MatchIndexSound
    <2>. SUFFICES ASSUME TypeOK, LogInv, NEW i \in Node, NEW j \in Node,
                         node[i].role = "Leader", node[j].currentTerm = node[i].currentTerm
                  PROVE  /\ node[i].matchIndex[j] <= LastIndex(node[j])
                         /\ IsPrefix(SubSeq(node[i].log, 1, node[i].matchIndex[j]), node[j].log)
      BY DEF MatchIndexSound
    <2>. DEFINE L == node[i].log
                K == node[j].log
                c == node[i].matchIndex[j]
    <2>1. PICK G, A : /\ GhostType(G, A, Terms)
                      /\ \A l \in Node : /\ node[l] \in NodeState /\ node[l].log \in Log
                                         /\ node[l].currentTerm \in Nat
                                         /\ NodeSound(G, A, Terms, committed, l, node[l])
      BY StateFacts
    <2>2. PICK t \in Nat : t = node[i].currentTerm /\ t = node[j].currentTerm
      BY <2>1
    <2>3. L = G[t] /\ c <= A[j][t] /\ Agree(G[t], K, A[j][t])
      BY <2>1, <2>2 DEF NodeSound, LeaderSound, LogHeld
    <2>4. c \in Nat /\ A[j][t] \in Nat /\ L \in Log /\ K \in Log /\ Len(L) \in Nat /\ Len(K) \in Nat
      <3>1. c \in Nat
        BY <2>1 DEF NodeState, Indexes
      <3>. QED BY <2>1, <3>1, GhostValues, LogLength
    <2>5. Agree(L, K, c)
      <3>1. Agree(L, K, A[j][t])
        BY <2>3
      <3>2. \A p \in 1..c : p \in 1..A[j][t]
        BY <2>3, <2>4
      <3>. QED BY <2>3, <2>4, <3>1, <3>2 DEF Agree
    <2>6. LastIndex(node[j]) = Len(K)
      BY <2>1, FinalTermIsLast
    <2>. QED BY <2>4, <2>5, <2>6, AgreePrefix DEF Agree
  <1>. QED BY <1>1, TypeCorrect, LogInvariantHolds, PTL

\* applyCommittedEntriesLocked: each node has applied exactly the commands of
\* the committed log up to its lastApplied, each at its place.
THEOREM StateMachinesAgree ==
    ASSUME FaultyDisk = FALSE
    PROVE  Spec => []StateMachineSafety
  <1>1. TypeOK /\ LogInv => StateMachineSafety
    <2>. SUFFICES ASSUME TypeOK, LogInv, NEW i \in Node
                  PROVE  node[i].kv = {<<k, committed[k].command>> :
                            k \in {l \in 1..node[i].lastApplied :
                                      l <= Len(committed) /\ committed[l].command # NoOp}}
      BY DEF StateMachineSafety
    <2>1. PICK G, A : \A l \in Node : NodeSound(G, A, Terms, committed, l, node[l])
      BY StateFacts
    <2>2. node[i].kv = AppliedPrefix(committed, node[i].lastApplied)
      BY <2>1 DEF NodeSound, CommitSound
    <2>. QED BY <2>2 DEF AppliedPrefix
  <1>. QED BY <1>1, TypeCorrect, LogInvariantHolds, PTL

\* A node for which a majority could vote has whatever was ever chosen.
LEMMA ElectableComplete ==
    ASSUME TypeOK, LogInv, NEW i \in Node, Electable(i)
    PROVE  Agree(committed, node[i].log, Len(committed))
  <1>. DEFINE K == node[i].log
              c == Len(committed)
              P == {j \in Node : AtLeastUpToDate(i, j)}
  <1>1. PICK G, A : /\ GhostType(G, A, Terms) /\ GhostSound(G, A, Terms)
                    /\ \A l \in Node : /\ node[l] \in NodeState /\ node[l].log \in Log
                                       /\ node[l].currentTerm \in Nat
                                       /\ NodeSound(G, A, Terms, committed, l, node[l])
                    /\ \E u \in Nat : Settled(G, A, committed, c, u)
    BY StateFacts
  <1>2. committed \in Log /\ c \in Nat /\ Len(K) \in Nat
    BY <1>1, LogLength DEF TypeOK
  <1>3. CASE c = 0
    BY <1>2, <1>3 DEF Agree
  <1>4. CASE c # 0
    <2>1. PICK s, k \in Nat : c <= k /\ Own(G, s, k) /\ Chosen(A, s, k) /\ Agree(committed, G[s], c)
      BY <1>1, <1>4 DEF Settled
    <2>2. PICK Q \in Quorum : \A j \in Q : A[j][s] >= k
      BY <2>1 DEF Chosen
    <2>3. P \in Quorum
      BY DEF Electable, Quorum
    <2>4. PICK j \in Node : j \in P /\ j \in Q
      BY <2>2, <2>3, QuorumsMeet
    <2>5. \/ FinalTerm(K) > FinalTerm(node[j].log)
          \/ FinalTerm(K) = FinalTerm(node[j].log) /\ Len(K) >= Len(node[j].log)
      <3>1. AtLeastUpToDate(i, j)
        BY <2>4
      <3>2. /\ LastTerm(node[i]) = FinalTerm(K) /\ LastIndex(node[i]) = Len(K)
            /\ LastTerm(node[j]) = FinalTerm(node[j].log)
            /\ LastIndex(node[j]) = Len(node[j].log)
        BY <1>1, FinalTermIsLast
      <3>. QED BY <3>1, <3>2 DEF AtLeastUpToDate, CandidateLogUpToDate
    <2>6. /\ LogHeld(G, A, Terms, j, node[j].log, node[j].currentTerm) /\ Backed(G, K)
      BY <1>1 DEF NodeSound, LogHeld
    <2>7. Covers(G, A, Terms, j, K, s + 1)
      <3>1. /\ GhostType(G, A, Terms) /\ GhostSound(G, A, Terms) /\ node[j].log \in Log
            /\ K \in Log /\ node[j].currentTerm \in Nat
        BY <1>1
      <3>2. s + 1 \in Nat
        OBVIOUS
      <3>. QED BY <2>5, <2>6, <3>1, <3>2, UpToDateCovers
    <2>8. k \in 1..A[j][s] /\ s < s + 1
      <3>1. A[j][s] \in Nat /\ A[j][s] >= k
        BY <1>1, <2>1, <2>2, <2>4, GhostValues
      <3>2. k >= 1
        BY <1>2, <1>4, <2>1
      <3>. QED BY <2>1, <3>1, <3>2
    <2>9. Agree(G[s], K, k) \/ Blocked(A, Terms, s, k)
      BY <2>1, <2>7, <2>8 DEF Covers
    <2>10. ~Blocked(A, Terms, s, k)
      BY <1>1, <2>1, ChosenNotBlocked
    <2>11. Len(G[s]) \in Nat
      BY <1>1, <2>1, GhostValues
    <2>. QED BY <1>2, <2>1, <2>9, <2>10, <2>11 DEF Agree
  <1>. QED BY <1>3, <1>4

\* checkAndUpdateCommitIndexLocked with the election restriction: whoever can
\* win an election has every entry that a leader ever committed.
THEOREM LeadersAreComplete ==
    ASSUME FaultyDisk = FALSE
    PROVE  Spec => []LeaderCompleteness
  <1>1. TypeOK /\ LogInv => LeaderCompleteness
    <2>. SUFFICES ASSUME TypeOK, LogInv, NEW i \in Node, Electable(i)
                  PROVE  IsPrefix(committed, node[i].log)
      BY DEF LeaderCompleteness
    <2>1. Agree(committed, node[i].log, Len(committed))
      BY ElectableComplete
    <2>2. committed \in Log /\ node[i].log \in Log /\ Len(committed) \in Nat
      BY LogLength DEF TypeOK, NodeState
    <2>. QED BY <2>1, <2>2, AgreePrefix
  <1>. QED BY <1>1, TypeCorrect, LogInvariantHolds, PTL

\* HandleAppendEntries: no step makes a leader that stays the leader cut or
\* rewrite its log.
THEOREM LeadersOnlyAppend ==
    ASSUME FaultyDisk = FALSE
    PROVE  Spec => LeaderAppendOnly
  <1>1. TypeOK /\ ElectionInv /\ LogInv /\ [Next]_vars /\ TypeOK'
        => [\A i \in Node : node[i].role = "Leader" /\ node'[i].role = "Leader"
                            => IsPrefix(node[i].log, node'[i].log)]_vars
    <2>. SUFFICES ASSUME TypeOK, ElectionInv, LogInv, [Next]_vars, TypeOK', NEW i \in Node,
                         node[i].role = "Leader", node'[i].role = "Leader"
                  PROVE  IsPrefix(node[i].log, node'[i].log)
      OBVIOUS
    <2>1. Agree(node[i].log, node'[i].log, Len(node[i].log))
      BY NextLog DEF Prolongs
    <2>2. node[i].log \in Log /\ node'[i].log \in Log /\ Len(node[i].log) \in Nat
      BY LogLength DEF TypeOK, NodeState
    <2>. QED BY <2>1, <2>2, AgreePrefix
  <1>. QED BY <1>1, TypeCorrect, ElectionInvariant, LogInvariantHolds, PTL
           DEF Spec, LeaderAppendOnly
=============================================================================
