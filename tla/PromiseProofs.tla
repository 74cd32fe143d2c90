---------------------------- MODULE PromiseProofs ----------------------------
(***************************************************************************)
(* What a cluster promises its clients: a blocked ProposeCommand waits for *)
(* its own entry, an acknowledged write is never lost, the cluster         *)
(* implements ReplicatedLog and Leadership, a cluster of one serves all    *)
(* that it stores, and pre-vote keeps a leader that is heard in office, as *)
(* long as storage transactions do not return errors.                      *)
(***************************************************************************)
EXTENDS LogProofs, MCRaftra

-----------------------------------------------------------------------------
(* The waiting room of one node.                                             *)

\* The call of c is blocked at leader n on an entry that n has not applied.
Waits(n, c) ==
    /\ n.role = "Leader"
    /\ n.newIndex[c] \in (n.lastApplied + 1)..Len(n.log)
    /\ n.log[n.newIndex[c]] = [term |-> n.currentTerm, command |-> c]
    /\ n.commitCh[c] = "empty"

\* Who is registered waits, and who was told its command is applied was told
\* the truth.
Room(n) ==
    /\ \A c \in n.pendingCommits : Waits(n, c)
    /\ \A c \in Command : n.newIndex[c] > 0 /\ n.commitCh[c] = "nil"
                          => <<n.newIndex[c], c>> \in n.kv

\* The handler went from n to r: the waiting room is sound, the same calls are
\* blocked, and nothing that was applied is undone.
Serves(n, r) == Room(r) /\ r.newIndex = n.newIndex /\ n.lastApplied <= r.lastApplied

\* r is n as far as the waiting room is concerned.
SameRoom(n, r) ==
    /\ r.role = n.role /\ r.currentTerm = n.currentTerm /\ r.log = n.log
    /\ r.lastApplied = n.lastApplied /\ r.kv = n.kv
    /\ r.pendingCommits = n.pendingCommits /\ r.newIndex = n.newIndex /\ r.commitCh = n.commitCh

\* Nobody waits at r, and nobody was told anything new but that it failed.
Vacant(n, r) ==
    /\ r.pendingCommits = {} /\ r.newIndex = n.newIndex
    /\ r.lastApplied = n.lastApplied /\ r.kv = n.kv
    /\ \A c \in Command : r.commitCh[c] = "nil" => n.commitCh[c] = "nil"

LEMMA SameRoomServes ==
    ASSUME NEW n \in NodeState, NEW r, Room(n), SameRoom(n, r)
    PROVE  Serves(n, r)
  <1>1. n.lastApplied \in Nat
    BY DEF NodeState
  <1>2. r.newIndex = n.newIndex /\ n.lastApplied <= r.lastApplied
    BY <1>1 DEF SameRoom
  <1>3. Room(r)
    BY DEF SameRoom, Room, Waits
  <1>. QED BY <1>2, <1>3 DEF Serves

LEMMA VacantServes ==
    ASSUME NEW n \in NodeState, NEW r, Room(n), Vacant(n, r)
    PROVE  Serves(n, r)
  <1>1. n.lastApplied \in Nat
    BY DEF NodeState
  <1>2. r.newIndex = n.newIndex /\ n.lastApplied <= r.lastApplied
    BY <1>1 DEF Vacant
  <1>3. Room(r)
    BY DEF Vacant, Room
  <1>. QED BY <1>2, <1>3 DEF Serves

LEMMA ServesTrans ==
    ASSUME NEW n \in NodeState, NEW m \in NodeState, NEW r \in NodeState,
           Serves(n, m), Serves(m, r)
    PROVE  Serves(n, r)
  <1>1. n.lastApplied \in Nat /\ m.lastApplied \in Nat /\ r.lastApplied \in Nat
    BY DEF NodeState
  <1>. QED BY <1>1 DEF Serves

LEMMA VacantTrans ==
    ASSUME NEW n, NEW m, NEW r, Vacant(n, m), Vacant(m, r)
    PROVE  Vacant(n, r)
  BY DEF Vacant

\* Nobody waits at a node that does not lead.
LEMMA NobodyWaits ==
    ASSUME NEW n, Room(n), n.role # "Leader"
    PROVE  n.pendingCommits = {}
  BY DEF Room, Waits

\* The writes of a term and a vote and the sending of calls do not concern it.
LEMMA SaveRoom ==
    ASSUME NEW n \in NodeState, NEW t, NEW v
    PROVE  SameRoom(n, SaveTerm(n, t)) /\ SameRoom(n, SaveVotedFor(n, v))
  <1>1. SameRoom(n, SaveTerm(n, t))
    BY DEF SameRoom, SaveTerm, NodeState
  <1>2. SameRoom(n, SaveVotedFor(n, v))
    BY DEF SameRoom, SaveVotedFor, NodeState
  <1>. QED BY <1>1, <1>2

LEMMA SendRoom ==
    ASSUME NEW n \in NodeState, NEW i, NEW js
    PROVE  SameRoom(n, SendAppendEntries(i, n, js))
  BY DEF SameRoom, SendAppendEntries, NodeState

\* checkTerm: a node that learns of a later term tells everyone who waits that
\* it lost its leader.
LEMMA CheckTermRoom ==
    ASSUME NEW n \in NodeState, NEW t \in Nat, Room(n)
    PROVE  /\ Serves(n, CheckTerm(n, t))
           /\ t > n.currentTerm => CheckTerm(n, t).pendingCommits = {}
  <1>. DEFINE d == StepDown(n, t)
              s == SaveTerm(d, t)
              v == SaveVotedFor(s, None)
              ch == [c \in Command |-> IF c \in n.pendingCommits THEN "ErrNotLeader"
                                       ELSE n.commitCh[c]]
  <1>1. d \in NodeState
    BY CheckTermType
  <1>2. /\ d.pendingCommits = {} /\ d.newIndex = n.newIndex
        /\ d.lastApplied = n.lastApplied /\ d.kv = n.kv /\ d.commitCh = ch
    BY DEF StepDown, NodeState
  <1>3. \A c \in Command : ch[c] = "nil" => n.commitCh[c] = "nil"
    OBVIOUS
  <1>. HIDE DEF d, ch
  <1>4. Vacant(n, d)
    BY <1>2, <1>3 DEF Vacant
  <1>5. s \in NodeState /\ SameRoom(d, s)
    BY <1>1, SaveType, SaveRoom, ConstantType
  <1>. HIDE DEF s
  <1>6. v \in NodeState /\ SameRoom(s, v)
    BY <1>5, SaveType, SaveRoom, ConstantType
  <1>. HIDE DEF v
  <1>7. Vacant(n, v)
    BY <1>4, <1>5, <1>6 DEF Vacant, SameRoom
  <1>8. Serves(n, v) /\ v.pendingCommits = {}
    BY <1>7, VacantServes DEF Vacant
  <1>9. Serves(n, n)
    BY SameRoomServes DEF SameRoom
  <1>. QED BY <1>8, <1>9, Zenon DEF CheckTerm, v, s, d

\* applyCommittedEntriesLocked wakes exactly those whose entry it applies.
LEMMA CommitRoom ==
    ASSUME NEW n \in NodeState, NEW k \in Nat, Room(n)
    PROVE  Serves(n, ApplyCommitted([n EXCEPT !.commitIndex = k]))
  <1>. DEFINE applied == {p \in (n.lastApplied + 1)..k : p <= Len(n.log) /\ n.log[p].command # NoOp}
              woken == {c \in n.pendingCommits : n.newIndex[c] \in applied}
              r == ApplyCommitted([n EXCEPT !.commitIndex = k])
  <1>1. /\ r.role = n.role /\ r.currentTerm = n.currentTerm /\ r.log = n.log
        /\ r.newIndex = n.newIndex
        /\ r.lastApplied = IF n.lastApplied < k THEN k ELSE n.lastApplied
        /\ r.kv = n.kv \cup {<<p, n.log[p].command>> : p \in applied}
        /\ r.commitCh = [c \in Command |-> IF c \in woken THEN "nil" ELSE n.commitCh[c]]
        /\ r.pendingCommits = n.pendingCommits \ woken
    BY DEF ApplyCommitted, NodeState
  <1>2. /\ n.lastApplied \in Nat /\ n.log \in Log /\ Len(n.log) \in Nat
        /\ n.pendingCommits \subseteq Command
        /\ \A c \in Command : n.newIndex[c] \in Nat
    BY LogLength DEF NodeState, Waiters, Registration
  <1>. HIDE DEF r
  <1>3. ASSUME NEW c \in n.pendingCommits
        PROVE  /\ c \in woken <=> n.newIndex[c] <= k
               /\ c \in woken => n.log[n.newIndex[c]].command = c
    <2>1. Waits(n, c) /\ c \in Command
      BY <1>2 DEF Room
    <2>2. /\ n.newIndex[c] \in (n.lastApplied + 1)..Len(n.log)
          /\ n.log[n.newIndex[c]].command = c
      BY <2>1 DEF Waits
    <2>3. c # NoOp
      BY <2>1, NoneAssumption
    <2>. QED BY <1>2, <2>1, <2>2, <2>3
  <1>4. ASSUME NEW c \in r.pendingCommits PROVE Waits(r, c)
    <2>1. c \in n.pendingCommits /\ c \notin woken /\ c \in Command
      BY <1>1, <1>2, <1>4
    <2>2. Waits(n, c)
      BY <2>1 DEF Room
    <2>3. n.newIndex[c] > k /\ n.newIndex[c] \in Nat
      BY <1>2, <1>3, <2>1
    <2>4. r.newIndex[c] \in (r.lastApplied + 1)..Len(r.log)
      BY <1>1, <1>2, <2>2, <2>3 DEF Waits
    <2>5. r.commitCh[c] = n.commitCh[c]
      BY <1>1, <2>1
    <2>. QED BY <1>1, <2>2, <2>4, <2>5 DEF Waits
  <1>5. ASSUME NEW c \in Command, r.newIndex[c] > 0, r.commitCh[c] = "nil"
        PROVE  <<r.newIndex[c], c>> \in r.kv
    <2>1. CASE c \in woken
      <3>1. n.newIndex[c] \in applied /\ n.log[n.newIndex[c]].command = c
        BY <1>3, <2>1
      <3>. QED BY <1>1, <3>1
    <2>2. CASE c \notin woken
      <3>1. n.commitCh[c] = "nil" /\ n.newIndex[c] > 0
        BY <1>1, <1>5, <2>2
      <3>2. <<n.newIndex[c], c>> \in n.kv
        BY <3>1 DEF Room
      <3>. QED BY <1>1, <3>2
    <2>. QED BY <2>1, <2>2
  <1>6. r.newIndex = n.newIndex /\ n.lastApplied <= r.lastApplied
    BY <1>1, <1>2
  <1>. QED BY <1>4, <1>5, <1>6 DEF Serves, Room, r

\* checkAndUpdateCommitIndexLocked commits and applies in one go.
LEMMA UpdateRoom ==
    ASSUME NEW n \in NodeState, Room(n)
    PROVE  Serves(n, CheckAndUpdateCommitIndex(n))
  <1>. DEFINE ready == {k \in (n.commitIndex + 1)..LastIndex(n) :
                            TermAt(n, k) = n.currentTerm /\ Replicated(n, k)}
              new == IF ready = {} THEN n.commitIndex ELSE Max(ready)
  <1>1. n.commitIndex \in Nat /\ LastIndex(n) \in Nat
    BY QueryType DEF NodeState
  <1>2. ready # {} => Max(ready) \in ready
    <2>1. ready \in SUBSET (0..LastIndex(n))
      BY <1>1
    <2>. QED BY <1>1, <2>1, MaxIsGreatest
  <1>3. new \in Nat
    BY <1>1, <1>2
  <1>. HIDE DEF new
  <1>4. Serves(n, ApplyCommitted([n EXCEPT !.commitIndex = new]))
    BY <1>3, CommitRoom
  <1>5. Serves(n, n)
    BY SameRoomServes DEF SameRoom
  <1>6. CheckAndUpdateCommitIndex(n)
           = IF n.role # "Leader" THEN n ELSE ApplyCommitted([n EXCEPT !.commitIndex = new])
    BY Zenon DEF CheckAndUpdateCommitIndex, new
  <1>. QED BY <1>4, <1>5, <1>6

\* becomeLeader starts with an empty waiting room.
LEMMA BecomeLeaderRoom ==
    ASSUME NEW n \in NodeState, NEW i \in Node, Room(n)
    PROVE  Serves(n, BecomeLeader(i, n))
  <1>. DEFINE f == FreshLeader(i, n)
              g == AppendEntries(f, <<NoOpEntry(n)>>)
              h == CheckAndUpdateCommitIndex(g)
              r == BroadcastAppendEntries(i, h)
  <1>1. f \in NodeState /\ g \in NodeState /\ h \in NodeState
    BY WinnerType
  <1>2. r \in NodeState
    BY <1>1, SendAppendEntriesType DEF BroadcastAppendEntries, Peers
  <1>3. CASE n.role # "Candidate"
    BY <1>3, SameRoomServes DEF SameRoom, BecomeLeader
  <1>4. CASE n.role = "Candidate"
    <2>1. n.pendingCommits = {}
      BY <1>4, NobodyWaits
    <2>2. Vacant(n, f)
      BY <2>1 DEF FreshLeader, NodeState, Vacant
    <2>. HIDE DEF f
    <2>3. Vacant(f, g)
      BY <1>1, <2>2 DEF AppendEntries, NodeState, Vacant
    <2>. HIDE DEF g
    <2>4. Serves(n, g)
      BY <2>2, <2>3, VacantTrans, VacantServes
    <2>5. Serves(g, h)
      BY <1>1, <2>4, UpdateRoom DEF Serves
    <2>. HIDE DEF h
    <2>6. Serves(h, r)
      BY <1>1, <2>5, SendRoom, SameRoomServes DEF BroadcastAppendEntries, Serves
    <2>. HIDE DEF r
    <2>7. Serves(n, r)
      <3>1. Serves(n, h)
        BY <1>1, <2>4, <2>5, ServesTrans
      <3>. QED BY <1>1, <1>2, <2>6, <3>1, ServesTrans
    <2>. QED BY <1>4, <2>7, Zenon DEF BecomeLeader, r, h, g, f
  <1>. QED BY <1>3, <1>4

\* campaignLocked is for a node that does not lead.
LEMMA CampaignRoom ==
    ASSUME NEW n \in NodeState, NEW i \in Node, Room(n), n.role # "Leader"
    PROVE  Serves(n, Campaign(i, n))
  <1>. DEFINE c == Candidacy(i, n)
              s == SaveTerm(c, n.currentTerm + 1)
              v == SaveVotedFor(s, i)
              calls == VoteRequests(i, v, "RequestVote", v.currentTerm, 1)
              asked == [v EXCEPT !.out = calls]
  <1>1. n.pendingCommits = {} /\ n.currentTerm + 1 \in Nat /\ i \in Vote
    BY NobodyWaits DEF NodeState, Vote
  <1>2. c \in NodeState
    BY <1>1, ConstantType DEF Candidacy, NodeState, Role
  <1>3. Vacant(n, c)
    BY <1>1 DEF Candidacy, NodeState, Vacant
  <1>. HIDE DEF c
  <1>4. s \in NodeState /\ SameRoom(c, s)
    BY <1>1, <1>2, SaveType, SaveRoom
  <1>. HIDE DEF s
  <1>5. v \in NodeState /\ SameRoom(s, v)
    BY <1>1, <1>4, SaveType, SaveRoom
  <1>. HIDE DEF v
  <1>6. Vacant(n, v)
    BY <1>3, <1>4, <1>5 DEF Vacant, SameRoom
  <1>7. Serves(n, v)
    BY <1>6, VacantServes
  <1>8. Serves(v, BecomeLeader(i, v)) /\ BecomeLeader(i, v) \in NodeState
    BY <1>5, <1>7, BecomeLeaderRoom, BecomeLeaderType DEF Serves
  <1>9. Serves(n, BecomeLeader(i, v))
    BY <1>5, <1>7, <1>8, ServesTrans
  <1>. HIDE DEF calls
  <1>10. SameRoom(v, asked)
    BY <1>5 DEF SameRoom, NodeState
  <1>11. Vacant(n, asked)
    BY <1>6, <1>10 DEF Vacant, SameRoom
  <1>12. Serves(n, asked)
    BY <1>11, VacantServes
  <1>13. Campaign(i, n) = IF Majority <= 1 THEN BecomeLeader(i, v) ELSE asked
    BY Zenon DEF Campaign, asked, calls, v, s, c
  <1>. QED BY <1>9, <1>12, <1>13

LEMMA StartElectionRoom ==
    ASSUME NEW n \in NodeState, NEW i \in Node, NEW q \in Round, Room(n), n.role # "Leader"
    PROVE  Serves(n, StartElection(i, n, q))
  <1>. DEFINE calls == VoteRequests(i, n, "PreVote", n.currentTerm + 1, q)
              asked == [n EXCEPT !.preVotes[q] = 1, !.out = calls]
  <1>1. SameRoom(n, asked)
    <2>. HIDE DEF calls
    <2>. QED BY DEF SameRoom, NodeState
  <1>2. Serves(n, asked)
    BY <1>1, SameRoomServes
  <1>3. Serves(n, Campaign(i, n))
    BY CampaignRoom
  <1>. QED BY <1>2, <1>3, Zenon DEF StartElection, asked, calls

LEMMA HandlePreVoteResponseRoom ==
    ASSUME NEW n \in NodeState, NEW i \in Node, NEW m \in VoteResponse, Room(n)
    PROVE  Serves(n, HandlePreVoteResponse(i, n, m))
  <1>. DEFINE counted == [n EXCEPT !.preVotes[m.round] = @ + 1]
              r == HandlePreVoteResponse(i, n, m)
  <1>1. m.term \in Nat /\ m.round \in Round
    BY DEF VoteResponse
  <1>2. counted \in NodeState
    <2>1. n.preVotes[m.round] + 1 \in Nat
      BY <1>1 DEF NodeState, Tally
    <2>2. [n.preVotes EXCEPT ![m.round] = n.preVotes[m.round] + 1] \in Tally
      BY <1>1, <2>1 DEF NodeState, Tally
    <2>3. counted = [n EXCEPT !.preVotes =
                        [n.preVotes EXCEPT ![m.round] = n.preVotes[m.round] + 1]]
      OBVIOUS
    <2>. QED BY <2>2, <2>3 DEF NodeState
  <1>3. SameRoom(n, counted)
    BY DEF SameRoom, NodeState
  <1>. HIDE DEF counted
  <1>4. Serves(n, counted)
    BY <1>3, SameRoomServes
  <1>5. Serves(n, n)
    BY SameRoomServes DEF SameRoom
  <1>6. Serves(n, CheckTerm(n, m.term))
    BY <1>1, CheckTermRoom
  <1>7. ASSUME n.role # "Leader" PROVE Serves(n, Campaign(i, counted))
    <2>1. counted.role # "Leader" /\ Room(counted)
      BY <1>3, <1>4, <1>7 DEF SameRoom, Serves
    <2>2. Serves(counted, Campaign(i, counted)) /\ Campaign(i, counted) \in NodeState
      BY <1>2, <2>1, CampaignRoom, CampaignType
    <2>. QED BY <1>2, <1>4, <2>2, ServesTrans
  <1>8. \/ r = CheckTerm(n, m.term) \/ r = n \/ r = counted
        \/ r = Campaign(i, counted) /\ n.role # "Leader"
    BY Zenon DEF HandlePreVoteResponse, counted
  <1>. HIDE DEF r
  <1>9. Serves(n, r)
    BY <1>4, <1>5, <1>6, <1>7, <1>8
  <1>. QED BY <1>9 DEF r

LEMMA HandleRequestVoteResponseRoom ==
    ASSUME NEW n \in NodeState, NEW i \in Node, NEW m \in VoteResponse, Room(n)
    PROVE  Serves(n, HandleRequestVoteResponse(i, n, m))
  <1>. DEFINE counted == [n EXCEPT !.votesReceived = @ + 1]
              r == HandleRequestVoteResponse(i, n, m)
  <1>1. m.term \in Nat
    BY DEF VoteResponse
  <1>2. counted \in NodeState /\ SameRoom(n, counted)
    BY DEF SameRoom, NodeState
  <1>. HIDE DEF counted
  <1>3. Serves(n, counted)
    BY <1>2, SameRoomServes
  <1>4. Serves(n, n)
    BY SameRoomServes DEF SameRoom
  <1>5. Serves(n, CheckTerm(n, m.term))
    BY <1>1, CheckTermRoom
  <1>6. Serves(n, BecomeLeader(i, counted))
    <2>1. Serves(counted, BecomeLeader(i, counted)) /\ BecomeLeader(i, counted) \in NodeState
      BY <1>2, <1>3, BecomeLeaderRoom, BecomeLeaderType DEF Serves
    <2>. QED BY <1>2, <1>3, <2>1, ServesTrans
  <1>7. r = CheckTerm(n, m.term) \/ r = n \/ r = counted \/ r = BecomeLeader(i, counted)
    BY Zenon DEF HandleRequestVoteResponse, counted
  <1>. HIDE DEF r
  <1>8. Serves(n, r)
    BY <1>3, <1>4, <1>5, <1>6, <1>7
  <1>. QED BY <1>8 DEF r

\* Whoever votes, or refuses to.
LEMMA VoteReplyRoom ==
    ASSUME NEW n \in NodeState, NEW m, NEW granted
    PROVE  SameRoom(n, VoteReply(n, m, granted))
  BY DEF SameRoom, VoteReply, NodeState

LEMMA HandleRequestVoteRoom ==
    ASSUME NEW n \in NodeState, NEW m \in VoteRequest, Room(n)
    PROVE  Serves(n, HandleRequestVote(n, m)) /\ Serves(n, HandlePreVote(n, m))
  <1>. DEFINE voter == CheckTerm(n, m.term)
              v == [voter EXCEPT !.votedFor = m.caller]
              s == SaveVotedFor(v, m.caller)
              r == HandleRequestVote(n, m)
  <1>1. m.term \in Nat /\ m.caller \in Vote
    BY DEF VoteRequest, Vote
  <1>2. voter \in NodeState /\ Serves(n, voter)
    BY <1>1, CheckTermType, CheckTermRoom
  <1>. HIDE DEF voter
  <1>3. v \in NodeState /\ SameRoom(voter, v)
    BY <1>1, <1>2 DEF NodeState, SameRoom
  <1>. HIDE DEF v
  <1>4. s \in NodeState /\ SameRoom(v, s)
    BY <1>1, <1>3, SaveType, SaveRoom, ConstantType
  <1>. HIDE DEF s
  <1>5. ASSUME NEW x, SameRoom(voter, x) PROVE Serves(n, x)
    <2>1. Serves(voter, x)
      BY <1>2, <1>5, SameRoomServes DEF Serves
    <2>. QED BY <1>2, <1>5, <2>1 DEF Serves, SameRoom
  <1>6. Serves(n, VoteReply(s, m, TRUE))
    <2>1. SameRoom(s, VoteReply(s, m, TRUE))
      BY <1>4, VoteReplyRoom
    <2>. HIDE DEF VoteReply
    <2>2. SameRoom(voter, VoteReply(s, m, TRUE))
      BY <1>3, <1>4, <2>1 DEF SameRoom
    <2>. QED BY <1>5, <2>2
  <1>7. Serves(n, VoteReply(voter, m, FALSE))
    BY <1>2, <1>5, VoteReplyRoom
  <1>8. ASSUME NEW granted PROVE Serves(n, VoteReply(n, m, granted))
    BY VoteReplyRoom, SameRoomServes
  <1>9. \/ r = VoteReply(n, m, FALSE) \/ r = VoteReply(voter, m, FALSE)
        \/ r = VoteReply(s, m, TRUE)
    BY Zenon DEF HandleRequestVote, s, v, voter
  <1>. HIDE DEF r
  <1>10. Serves(n, r)
    BY <1>6, <1>7, <1>8, <1>9
  <1>11. Serves(n, HandlePreVote(n, m))
    BY <1>8, Zenon DEF HandlePreVote
  <1>. QED BY <1>10, <1>11 DEF r

\* HandleAppendEntries: a node that takes another for the leader has nobody
\* waiting, so that what it cuts from its log nobody waits for.
LEMMA HandleAppendEntriesRoom ==
    ASSUME NEW n \in NodeState, NEW m \in AppendRequest, Room(n),
           ~(n.role = "Leader" /\ n.currentTerm = m.term)
    PROVE  Serves(n, HandleAppendEntries(n, m))
  <1>. DEFINE c == CheckTerm(n, m.term)
              f == AcceptLeader(n, m)
              g == Reconcile(f, m)
              h == FollowerCommit(g, m)
              r == HandleAppendEntries(n, m)
  <1>0. m.term \in Nat /\ n.currentTerm \in Nat
    BY BatchValues DEF NodeState
  <1>1. c \in NodeState /\ f \in NodeState /\ g \in NodeState /\ h \in NodeState
    BY <1>0, CheckTermType, AcceptLeaderType, ReconcileType, FollowerCommitType
  <1>2. ASSUME NEW x \in NodeState, Serves(n, x), NEW success
        PROVE  Serves(n, AppendReply(x, m, success))
    <2>1. SameRoom(x, AppendReply(x, m, success))
      BY DEF SameRoom, AppendReply, NodeState
    <2>2. Serves(x, AppendReply(x, m, success))
      BY <1>2, <2>1, SameRoomServes DEF Serves
    <2>. QED BY <1>2, <2>1, <2>2 DEF Serves, SameRoom
  <1>3. CASE m.term < n.currentTerm
    <2>1. Serves(n, n)
      BY SameRoomServes DEF SameRoom
    <2>2. r = AppendReply(n, m, FALSE)
      BY <1>3, Zenon DEF HandleAppendEntries
    <2>. QED BY <1>2, <2>1, <2>2
  <1>4. CASE ~(m.term < n.currentTerm)
    <2>1. Serves(n, c) /\ c.pendingCommits = {}
      <3>1. Serves(n, c) /\ (m.term > n.currentTerm => c.pendingCommits = {})
        BY <1>0, CheckTermRoom
      <3>2. ASSUME m.term = n.currentTerm PROVE c.pendingCommits = {}
        <4>1. c = n
          BY <1>0, <3>2 DEF CheckTerm
        <4>. QED BY <3>2, <4>1, NobodyWaits
      <3>. QED BY <1>0, <1>4, <3>1, <3>2
    <2>2. Vacant(c, f)
      BY <1>1, <2>1 DEF AcceptLeader, NodeState, Vacant
    <2>. HIDE DEF c, f
    <2>3. Vacant(f, g)
      BY <1>1, <2>2 DEF Reconcile, AppendEntries, TruncateFrom, NodeState, Vacant
    <2>. HIDE DEF g
    <2>4. Serves(n, f) /\ Serves(n, g)
      <3>1. Serves(c, f) /\ Serves(c, g)
        BY <1>1, <2>1, <2>2, <2>3, VacantTrans, VacantServes DEF Serves
      <3>. QED BY <1>1, <2>1, <3>1, ServesTrans
    <2>5. Serves(n, h)
      <3>. DEFINE last == m.prevLogIndex + Len(m.entries)
                  new == IF last < m.leaderCommit THEN last ELSE m.leaderCommit
      <3>1. new \in Nat
        BY BatchValues
      <3>. HIDE DEF new
      <3>2. Serves(g, ApplyCommitted([g EXCEPT !.commitIndex = new])) /\ Serves(g, g)
        BY <1>1, <2>4, <3>1, CommitRoom, SameRoomServes DEF Serves, SameRoom
      <3>3. h = g \/ h = ApplyCommitted([g EXCEPT !.commitIndex = new])
        BY Zenon DEF FollowerCommit, new
      <3>. HIDE DEF h
      <3>4. Serves(g, h)
        BY <3>2, <3>3
      <3>. QED BY <1>1, <2>4, <3>4, ServesTrans
    <2>. HIDE DEF h
    <2>6. r = AppendReply(f, m, FALSE) \/ r = AppendReply(g, m, FALSE) \/ r = AppendReply(h, m, TRUE)
      BY <1>4, Zenon DEF HandleAppendEntries, f, g, h
    <2>. HIDE DEF r
    <2>7. Serves(n, r)
      BY <1>1, <1>2, <2>4, <2>5, <2>6
    <2>. QED BY <2>7 DEF r
  <1>. QED BY <1>3, <1>4

LEMMA HandleAppendEntriesResponseRoom ==
    ASSUME NEW n \in NodeState, NEW i \in Node, NEW m \in AppendResponse, Room(n)
    PROVE  Serves(n, HandleAppendEntriesResponse(i, n, m))
  <1>. DEFINE j == m.peer
              match == m.prevLogIndex + m.numEntries
              advanced == [n EXCEPT !.nextIndex[j] = IF match + 1 > @ THEN match + 1 ELSE @,
                                    !.matchIndex[j] = IF match > @ THEN match ELSE @]
              retreated == [n EXCEPT !.nextIndex[j] = @ - 1]
              r == HandleAppendEntriesResponse(i, n, m)
  <1>1. m.term \in Nat /\ j \in Node
    BY DEF AppendResponse
  <1>2. /\ advanced \in NodeState
        /\ n.nextIndex[j] > 1 => retreated \in NodeState
    BY ResponseType, Zenon
  <1>3. SameRoom(n, advanced) /\ SameRoom(n, retreated)
    BY DEF SameRoom, NodeState
  <1>. HIDE DEF advanced, retreated
  <1>4. Serves(n, advanced) /\ Serves(n, retreated) /\ Serves(n, n)
    BY <1>3, SameRoomServes DEF SameRoom
  <1>5. Serves(n, CheckTerm(n, m.term))
    BY <1>1, CheckTermRoom
  <1>6. Serves(n, CheckAndUpdateCommitIndex(advanced))
    <2>1. /\ Serves(advanced, CheckAndUpdateCommitIndex(advanced))
          /\ CheckAndUpdateCommitIndex(advanced) \in NodeState
      BY <1>2, <1>4, UpdateRoom, CheckAndUpdateCommitIndexType DEF Serves
    <2>. QED BY <1>2, <1>4, <2>1, ServesTrans
  <1>7. ASSUME n.nextIndex[j] > 1 PROVE Serves(n, SendAppendEntries(i, retreated, {j}))
    <2>1. SameRoom(retreated, SendAppendEntries(i, retreated, {j})) /\ retreated \in NodeState
      BY <1>2, <1>7, SendRoom
    <2>. HIDE DEF SendAppendEntries
    <2>2. SameRoom(n, SendAppendEntries(i, retreated, {j}))
      BY <1>3, <2>1 DEF SameRoom
    <2>. QED BY <2>2, SameRoomServes
  <1>8. \/ r = CheckTerm(n, m.term) \/ r = n \/ r = CheckAndUpdateCommitIndex(advanced)
        \/ r = SendAppendEntries(i, retreated, {j}) /\ n.nextIndex[j] > 1
    BY Zenon DEF HandleAppendEntriesResponse, advanced, retreated
  <1>. HIDE DEF r
  <1>9. Serves(n, r)
    BY <1>4, <1>5, <1>6, <1>7, <1>8
  <1>. QED BY <1>9 DEF r

\* An entry is appended to the log: those who wait still do.
LEMMA AppendRoom ==
    ASSUME NEW n \in NodeState, Room(n), NEW e \in Entry, CanWrite(n)
    PROVE  LET g == AppendEntries(n, <<e>>)
           IN  /\ g \in NodeState /\ Serves(n, g)
               /\ g.role = n.role /\ g.currentTerm = n.currentTerm
               /\ Len(g.log) = Len(n.log) + 1 /\ g.log[Len(n.log) + 1] = e
               /\ g.lastApplied = n.lastApplied /\ g.kv = n.kv
               /\ g.pendingCommits = n.pendingCommits /\ g.newIndex = n.newIndex
               /\ g.commitCh = n.commitCh
  <1>. DEFINE g == AppendEntries(n, <<e>>)
  <1>1. /\ n.lastApplied \in Nat /\ n.log \in Log /\ Len(n.log) \in Nat
        /\ n.pendingCommits \subseteq Command
        /\ \A d \in Command : n.newIndex[d] \in Nat
    BY LogLength DEF NodeState, Waiters, Registration
  <1>2. g \in NodeState
    <2>1. <<e>> \in Log
      BY DEF Log
    <2>. QED BY <2>1, AppendEntriesType
  <1>3. /\ g.role = n.role /\ g.currentTerm = n.currentTerm /\ g.log = n.log \o <<e>>
        /\ g.lastApplied = n.lastApplied /\ g.kv = n.kv
        /\ g.pendingCommits = n.pendingCommits /\ g.newIndex = n.newIndex
        /\ g.commitCh = n.commitCh
    BY DEF AppendEntries, NodeState
  <1>. HIDE DEF g
  <1>4. /\ Len(g.log) = Len(n.log) + 1 /\ g.log[Len(n.log) + 1] = e
        /\ \A k \in 1..Len(n.log) : g.log[k] = n.log[k]
    BY <1>1, <1>3 DEF Log
  <1>5. ASSUME NEW d \in g.pendingCommits PROVE Waits(g, d)
    <2>1. Waits(n, d) /\ d \in Command
      BY <1>1, <1>3 DEF Room
    <2>2. n.newIndex[d] \in (n.lastApplied + 1)..Len(n.log) /\ n.newIndex[d] \in 1..Len(n.log)
      BY <1>1, <2>1 DEF Waits
    <2>3. g.log[g.newIndex[d]] = n.log[n.newIndex[d]]
          /\ g.newIndex[d] \in (g.lastApplied + 1)..Len(g.log)
      BY <1>1, <1>3, <1>4, <2>2
    <2>. QED BY <1>3, <2>1, <2>3 DEF Waits
  <1>6. Room(g)
    BY <1>3, <1>5 DEF Room
  <1>7. Serves(n, g)
    BY <1>1, <1>3, <1>6 DEF Serves
  <1>. QED BY <1>2, <1>3, <1>4, <1>7, Zenon DEF g

\* ProposeCommand registers the call at the index of its entry, where nobody
\* else waits, or in a cluster of one applies the command at once.
LEMMA ProposeRoom ==
    ASSUME NEW n \in NodeState, NEW i \in Node, NEW c \in Command, Room(n), n.role = "Leader",
           CanWrite(n), n.lastApplied <= Len(n.log)
    PROVE  LET r == ProposeCommand(i, n, c)
           IN  /\ Room(r) /\ n.lastApplied <= r.lastApplied
               /\ Peers(i) = {} => /\ r.newIndex = n.newIndex
                                   /\ <<Len(n.log) + 1, c>> \in r.kv
               /\ \A d \in Command : d # c => r.newIndex[d] = n.newIndex[d]
  <1>. DEFINE e == [term |-> n.currentTerm, command |-> c]
              new == Len(n.log) + 1
              g == AppendEntries(n, <<e>>)
              alone == ApplyCommitted([g EXCEPT !.commitIndex = new])
              room == {d \in g.pendingCommits : n.newIndex[d] # new} \cup {c}
              q == [g EXCEPT !.pendingCommits = {d \in @ : n.newIndex[d] # new} \cup {c},
                             !.newIndex[c] = new, !.commitCh[c] = "empty"]
              r == ProposeCommand(i, n, c)
  <1>1. /\ n.lastApplied \in Nat /\ n.log \in Log /\ Len(n.log) \in Nat /\ new \in Nat
        /\ n.pendingCommits \subseteq Command
        /\ n.newIndex \in [Command -> Nat] /\ DOMAIN n.commitCh = Command
    BY LogLength DEF NodeState, Waiters, Registration, Deliveries
  <1>2. e \in Entry /\ c # NoOp
    BY NoneAssumption DEF Entry, NodeState
  <1>3. /\ g \in NodeState /\ Serves(n, g)
        /\ g.role = n.role /\ g.currentTerm = n.currentTerm
        /\ Len(g.log) = new /\ g.log[new] = e
        /\ g.lastApplied = n.lastApplied /\ g.kv = n.kv
        /\ g.pendingCommits = n.pendingCommits /\ g.newIndex = n.newIndex
        /\ g.commitCh = n.commitCh
    BY <1>2, AppendRoom, Zenon
  <1>4. e.command = c
    OBVIOUS
  <1>. HIDE DEF g
  <1>5. CASE Peers(i) = {}
    <2>1. Serves(g, alone)
      BY <1>1, <1>3, CommitRoom DEF Serves
    <2>2. alone.kv = g.kv \cup {<<k, g.log[k].command>> :
                                   k \in {p \in (g.lastApplied + 1)..new :
                                             p <= Len(g.log) /\ g.log[p].command # NoOp}}
      BY <1>1, <1>3, ApplyCommittedFields, Zenon
    <2>3. new \in {p \in (g.lastApplied + 1)..new : p <= Len(g.log) /\ g.log[p].command # NoOp}
      BY <1>1, <1>2, <1>3, <1>4
    <2>4. <<new, c>> \in alone.kv
      BY <1>3, <1>4, <2>2, <2>3, Zenon
    <2>5. LastIndex(n) + 1 = new
      BY DEF LastIndex
    <2>6. r = alone
      BY <1>5, <2>5, Zenon DEF ProposeCommand, g
    <2>. HIDE DEF r, alone
    <2>7. Room(r) /\ n.lastApplied <= r.lastApplied /\ r.newIndex = n.newIndex
      BY <1>3, <2>1, <2>6 DEF Serves
    <2>. QED BY <2>4, <2>6, <2>7 DEF r
  <1>6. CASE Peers(i) # {}
    <2>1. /\ q.role = g.role /\ q.currentTerm = g.currentTerm /\ q.log = g.log
          /\ q.lastApplied = g.lastApplied /\ q.kv = g.kv
          /\ q.pendingCommits = room
          /\ q.newIndex = [g.newIndex EXCEPT ![c] = new]
          /\ q.commitCh = [g.commitCh EXCEPT ![c] = "empty"]
      BY <1>3 DEF NodeState
    <2>2. q \in NodeState
      <3>1. LastIndex(n) + 1 = new
        BY DEF LastIndex
      <3>. QED BY <3>1, ProposedType, Zenon DEF g
    <2>3. /\ q.newIndex[c] = new /\ q.commitCh[c] = "empty"
          /\ \A d \in Command : d # c => /\ q.newIndex[d] = n.newIndex[d]
                                         /\ q.commitCh[d] = n.commitCh[d]
      BY <1>1, <1>3, <2>1
    <2>. HIDE DEF q
    <2>4. ASSUME NEW d \in q.pendingCommits PROVE Waits(q, d)
      <3>1. CASE d = c
        <4>1. q.newIndex[d] \in (q.lastApplied + 1)..Len(q.log)
          BY <1>1, <1>3, <2>1, <2>3, <3>1
        <4>. QED BY <1>3, <2>1, <2>3, <3>1, <4>1 DEF Waits
      <3>2. CASE d # c
        <4>1. d \in g.pendingCommits /\ d \in Command
          BY <1>1, <1>3, <2>1, <3>2
        <4>2. Waits(g, d)
          BY <1>3, <4>1 DEF Serves, Room
        <4>3. q.newIndex[d] = g.newIndex[d] /\ q.commitCh[d] = g.commitCh[d]
          BY <1>3, <2>3, <3>2, <4>1
        <4>. QED BY <2>1, <4>2, <4>3 DEF Waits
      <3>. QED BY <3>1, <3>2
    <2>5. ASSUME NEW d \in Command, q.newIndex[d] > 0, q.commitCh[d] = "nil"
          PROVE  <<q.newIndex[d], d>> \in q.kv
      <3>1. d # c /\ n.newIndex[d] > 0 /\ n.commitCh[d] = "nil"
        BY <2>3, <2>5
      <3>2. <<n.newIndex[d], d>> \in n.kv
        BY <3>1 DEF Room
      <3>. QED BY <1>3, <2>1, <2>3, <3>1, <3>2
    <2>6. Room(q)
      BY <2>4, <2>5 DEF Room
    <2>7. r = BroadcastAppendEntries(i, q)
      <3>1. LastIndex(n) + 1 = new
        BY DEF LastIndex
      <3>. QED BY <1>6, <3>1, Zenon DEF ProposeCommand, g, q
    <2>8. SameRoom(q, r)
      BY <2>2, <2>7, SendRoom DEF BroadcastAppendEntries
    <2>. HIDE DEF r
    <2>9. Serves(q, r)
      BY <2>2, <2>6, <2>8, SameRoomServes
    <2>10. /\ Room(r) /\ n.lastApplied <= r.lastApplied
           /\ \A d \in Command : d # c => r.newIndex[d] = n.newIndex[d]
      BY <1>3, <2>1, <2>3, <2>9 DEF Serves
    <2>. QED BY <1>6, <2>10 DEF r
  <1>. QED BY <1>5, <1>6

\* A blocked call ends: it is off the waiting room, or takes itself off it.
LEMMA ProposalEndRoom ==
    ASSUME NEW n \in NodeState, NEW c \in Command, Room(n), NEW r,
           \/ r = ProposalReturns(n, c) /\ n.commitCh[c] # "empty"
           \/ r = ProposalTimesOut(n, c)
    PROVE  /\ Room(r) /\ r.lastApplied = n.lastApplied /\ r.kv = n.kv
           /\ r.newIndex[c] = 0
           /\ \A d \in Command : d # c => r.newIndex[d] = n.newIndex[d]
  <1>1. /\ n.pendingCommits \subseteq Command /\ c \in DOMAIN n.newIndex /\ c \in DOMAIN n.commitCh
    BY DEF NodeState, Waiters, Registration, Deliveries
  <1>2. /\ r.role = n.role /\ r.currentTerm = n.currentTerm /\ r.log = n.log
        /\ r.lastApplied = n.lastApplied /\ r.kv = n.kv
        /\ r.newIndex = [n.newIndex EXCEPT ![c] = 0]
        /\ r.commitCh = [n.commitCh EXCEPT ![c] = "empty"]
    BY DEF ProposalReturns, ProposalTimesOut, NodeState
  <1>3. /\ r.newIndex[c] = 0 /\ r.commitCh[c] = "empty"
        /\ \A d \in Command : d # c => r.newIndex[d] = n.newIndex[d] /\ r.commitCh[d] = n.commitCh[d]
    BY <1>1, <1>2
  <1>4. r.pendingCommits \subseteq n.pendingCommits /\ c \notin r.pendingCommits
    <2>1. CASE r = ProposalReturns(n, c) /\ n.commitCh[c] # "empty"
      <3>1. r.pendingCommits = n.pendingCommits
        BY <2>1 DEF ProposalReturns, NodeState
      <3>. QED BY <2>1, <3>1 DEF Room, Waits
    <2>2. CASE r = ProposalTimesOut(n, c)
      <3>1. r.pendingCommits = {d \in n.pendingCommits : n.newIndex[d] # n.newIndex[c]}
        BY <2>2 DEF ProposalTimesOut, NodeState
      <3>. QED BY <3>1
    <2>. QED BY <2>1, <2>2
  <1>5. ASSUME NEW d \in r.pendingCommits PROVE Waits(r, d)
    <2>1. d # c /\ d \in Command /\ Waits(n, d)
      BY <1>1, <1>4 DEF Room
    <2>. QED BY <1>2, <1>3, <2>1 DEF Waits
  <1>6. ASSUME NEW d \in Command, r.newIndex[d] > 0, r.commitCh[d] = "nil"
        PROVE  <<r.newIndex[d], d>> \in r.kv
    <2>1. d # c
      BY <1>3, <1>6
    <2>. QED BY <1>2, <1>3, <1>6, <2>1 DEF Room
  <1>7. Room(r)
    BY <1>5, <1>6 DEF Room
  <1>. QED BY <1>2, <1>3, <1>7

-----------------------------------------------------------------------------
(* The clients of the cluster.                                               *)

\* A blocked call is blocked at one node, and its client waits.
Callers ==
    \A i \in Node, c \in Command : node[i].newIndex[c] > 0 =>
        /\ outcome[c] = "waiting"
        /\ \A j \in Node : j # i => node[j].newIndex[c] = 0

\* What a client was told is committed is in the committed log.
Acknowledged ==
    \A c \in Command : outcome[c] = "ok" =>
        \E k \in 1..Len(committed) : committed[k].command = c

ClientInv == (\A i \in Node : Room(node[i])) /\ Callers /\ Acknowledged

\* A handler told at most one client something: one whose call is new or
\* blocked there, and that its command is committed only if it is applied.
Tells(n, r, told) ==
    \/ told = outcome /\ r.newIndex = n.newIndex
    \/ \E c \in Command, o \in Outcome :
          /\ told = [outcome EXCEPT ![c] = o]
          /\ outcome[c] = "new" \/ n.newIndex[c] > 0
          /\ \A d \in Command : d # c => r.newIndex[d] = n.newIndex[d]
          /\ r.newIndex[c] > 0 => o = "waiting"
          /\ o = "ok" => \E k : <<k, c>> \in r.kv

\* What a handler that ran to its end did for the clients of node i.
Attends(n, r, told) == Room(r) /\ n.lastApplied <= r.lastApplied /\ Tells(n, r, told)

LEMMA ServesAttends ==
    ASSUME NEW n, NEW r, Serves(n, r)
    PROVE  Attends(n, r, outcome)
  BY DEF Serves, Attends, Tells

LEMMA RanAttends ==
    ASSUME NEW i \in Node, NEW r, NEW handled, NEW told, Ran(i, r, handled, told), LogInv,
           ClientInv
    PROVE  Attends(node[i], r, told)
  <1>. DEFINE n == node[i]
              Goal == Attends(n, r, told)
  <1>. SUFFICES Goal
    OBVIOUS
  <1>a. TypeOK /\ ElectionInv /\ Moves(i, Done(r))
    BY DEF Ran, Runs, Moves
  <1>b. PICK G, A : Holds(G, A)
    BY DEF LogInv, Holds
  <1>c. /\ n \in NodeState /\ n.out = {} /\ IsSaved(n) /\ n.quota = MaxWrites
        /\ rpcs \subseteq Message /\ n.lastApplied \in Nat
    BY <1>a, <1>b, HoldsFacts DEF NodeState
  <1>d. Starts(i, n) /\ Room(n)
    BY <1>c DEF Starts, ClientInv
  <1>e. ASSUME Serves(n, r), told = outcome PROVE Goal
    BY <1>e, ServesAttends
  <1>f. \A c \in Command : outcome[c] \in Outcome
    BY <1>a DEF TypeOK
  <1>. HIDE DEF Goal
  <1>1. CASE told = outcome /\ r = BroadcastAppendEntries(i, n)
    BY <1>1, <1>c, <1>d, <1>e, SendRoom, SameRoomServes DEF BroadcastAppendEntries
  <1>2. CASE told = outcome /\ r = [n EXCEPT !.leaderContact = FALSE]
    <2>1. SameRoom(n, r)
      BY <1>2, <1>c DEF SameRoom, NodeState
    <2>. QED BY <1>2, <1>c, <1>d, <1>e, <2>1, SameRoomServes
  <1>3. ASSUME NEW m \in rpcs, m.type \in {"PreVote", "RequestVote"}, told = outcome,
               r = HandlePreVote(n, m) \/ r = HandleRequestVote(n, m)
        PROVE  Goal
    <2>1. m \in VoteRequest
      BY <1>3, <1>c, MessageKind
    <2>. QED BY <1>3, <1>c, <1>d, <1>e, <2>1, HandleRequestVoteRoom
  <1>4. ASSUME NEW c \in Command, n.newIndex[c] > 0, n.commitCh[c] # "empty",
               r = ProposalReturns(n, c),
               told = [outcome EXCEPT ![c] = IF n.commitCh[c] = "nil" THEN "ok" ELSE "failed"]
        PROVE  Goal
    <2>1. /\ Room(r) /\ r.lastApplied = n.lastApplied /\ r.kv = n.kv
          /\ r.newIndex[c] = 0
          /\ \A d \in Command : d # c => r.newIndex[d] = n.newIndex[d]
      BY <1>4, <1>c, <1>d, ProposalEndRoom
    <2>2. n.commitCh[c] = "nil" => <<n.newIndex[c], c>> \in r.kv
      BY <1>4, <1>d, <2>1 DEF Room
    <2>. DEFINE o == IF n.commitCh[c] = "nil" THEN "ok" ELSE "failed"
    <2>3. o \in Outcome /\ (o = "ok" => n.commitCh[c] = "nil")
      BY DEF Outcome
    <2>4. told = [outcome EXCEPT ![c] = o]
      BY <1>4
    <2>. HIDE DEF o
    <2>5. ~(r.newIndex[c] > 0)
      BY <2>1
    <2>6. o = "ok" => \E k : <<k, c>> \in r.kv
      BY <2>2, <2>3
    <2>7. Tells(n, r, told)
      BY <1>4, <2>1, <2>3, <2>4, <2>5, <2>6, Zenon DEF Tells
    <2>. QED BY <1>c, <2>1, <2>7 DEF Attends, Goal
  <1>5. ASSUME NEW c \in Command, n.newIndex[c] > 0, r = ProposalTimesOut(n, c),
               told = [outcome EXCEPT ![c] = "failed"]
        PROVE  Goal
    <2>1. /\ Room(r) /\ r.lastApplied = n.lastApplied /\ r.kv = n.kv
          /\ r.newIndex[c] = 0
          /\ \A d \in Command : d # c => r.newIndex[d] = n.newIndex[d]
      BY <1>5, <1>c, <1>d, ProposalEndRoom
    <2>2. ~(r.newIndex[c] > 0) /\ "failed" \in Outcome /\ "failed" # "ok"
      BY <2>1 DEF Outcome
    <2>3. Tells(n, r, told)
      BY <1>5, <2>1, <2>2, Zenon DEF Tells
    <2>. QED BY <1>c, <2>1, <2>3 DEF Attends, Goal
  <1>6. ASSUME NEW q \in Round, node[i].role # "Leader", r = StartElection(i, n, q),
               told = outcome
        PROVE  Goal
    BY <1>6, <1>c, <1>d, <1>e, StartElectionRoom
  <1>7. ASSUME NEW m \in rpcs, m.type = "AppendEntries", m.peer = i, told = outcome,
               r = HandleAppendEntries(n, m)
        PROVE  Goal
    <2>1. m \in AppendRequest /\ m.term \in Nat /\ n.currentTerm \in Nat
      BY <1>7, <1>c, MessageKind, BatchValues DEF NodeState
    <2>2. ~(n.role = "Leader" /\ n.currentTerm = m.term)
      <3>. SUFFICES ASSUME n.currentTerm = m.term PROVE ~(n.role = "Leader" /\ n.currentTerm = m.term)
        OBVIOUS
      <3>1. n.currentTerm <= m.term
        BY <2>1
      <3>2. Arrives(G, n, m)
        BY <1>7, <1>a, <1>b, <1>d, <3>1, BatchArrives
      <3>. QED BY <3>2 DEF Arrives
    <2>. QED BY <1>7, <1>c, <1>d, <1>e, <2>1, <2>2, HandleAppendEntriesRoom
  <1>8. ASSUME NEW m \in rpcs, m.type \in {"PreVoteResponse", "RequestVoteResponse"},
               told = outcome,
               r = HandlePreVoteResponse(i, n, m) \/ r = HandleRequestVoteResponse(i, n, m)
        PROVE  Goal
    <2>1. m \in VoteResponse
      BY <1>8, <1>c, MessageKind
    <2>. QED BY <1>8, <1>c, <1>d, <1>e, <2>1, HandlePreVoteResponseRoom,
                HandleRequestVoteResponseRoom
  <1>9. ASSUME NEW m \in rpcs, m.type = "AppendEntriesResponse", told = outcome,
               r = HandleAppendEntriesResponse(i, n, m)
        PROVE  Goal
    <2>1. m \in AppendResponse
      BY <1>9, <1>c, MessageKind
    <2>. QED BY <1>9, <1>c, <1>d, <1>e, <2>1, HandleAppendEntriesResponseRoom
  <1>10. ASSUME NEW c \in Command, node[i].role = "Leader", outcome[c] = "new",
                r = ProposeCommand(i, n, c), told = Proposed(i, n.quota, c)
         PROVE  Goal
    <2>1. CanWrite(n)
      BY <1>c DEF CanWrite, MaxWrites
    <2>2. n.lastApplied <= Len(n.log)
      <3>1. CommitSound(G, A, committed, n) /\ GhostType(G, A, Terms) /\ n.log \in Log
        BY <1>a, <1>b, HoldsFacts DEF NodeSound
      <3>2. n.commitIndex \in Nat /\ Len(n.log) \in Nat /\ n.lastApplied = n.commitIndex
            /\ Settled(G, A, n.log, n.commitIndex, n.currentTerm)
        BY <1>c, <3>1, LogLength DEF CommitSound, NodeState
      <3>. QED BY <3>2 DEF Settled, Agree
    <2>3. /\ Room(r) /\ n.lastApplied <= r.lastApplied
          /\ Peers(i) = {} => /\ r.newIndex = n.newIndex
                              /\ <<Len(n.log) + 1, c>> \in r.kv
          /\ \A d \in Command : d # c => r.newIndex[d] = n.newIndex[d]
      BY <1>10, <1>c, <1>d, <2>1, <2>2, ProposeRoom
    <2>. DEFINE o == IF Peers(i) = {} THEN "ok" ELSE "waiting"
    <2>4. n.quota # 0
      BY <1>c DEF MaxWrites
    <2>5. told = [outcome EXCEPT ![c] = o]
      BY <1>10, <2>4, Zenon DEF Proposed
    <2>6. o \in Outcome /\ (o = "ok" => Peers(i) = {}) /\ (Peers(i) # {} => o = "waiting")
      BY DEF Outcome
    <2>. HIDE DEF o
    <2>7. ~(n.newIndex[c] > 0)
      BY <1>10 DEF ClientInv, Callers
    <2>8. Tells(n, r, told)
      BY <1>10, <2>3, <2>5, <2>6, <2>7 DEF Tells
    <2>. QED BY <2>3, <2>8 DEF Attends, Goal
  <1>. QED BY <1>1, <1>2, <1>3, <1>4, <1>5, <1>6, <1>7, <1>8, <1>9, <1>10, Zenon
           DEF Ran, Reads, Writes

\* What a client was told stays true: the log that holds its command only grows.
LEMMA AnswersKept ==
    ASSUME TypeOK, TypeOK', LogKept, Acknowledged, NEW c \in Command, outcome[c] = "ok"
    PROVE  \E k \in 1..Len(committed') : committed'[k].command = c
  <1>1. PICK k \in 1..Len(committed) : committed[k].command = c
    BY DEF Acknowledged
  <1>2. Agree(committed, committed', Len(committed))
    BY DEF LogKept
  <1>3. Len(committed) <= Len(committed') /\ committed[k] = committed'[k]
    BY <1>1, <1>2, Zenon DEF Agree
  <1>4. Len(committed) \in Nat /\ Len(committed') \in Nat
    BY LogLength DEF TypeOK
  <1>5. k \in 1..Len(committed')
    BY <1>1, <1>3, <1>4
  <1>. QED BY <1>1, <1>3, <1>5, Zenon

\* A step of node i that attends to its clients keeps their invariant.
LEMMA RanClients ==
    ASSUME NEW i \in Node, NEW r, NEW handled, NEW told, Ran(i, r, handled, told), LogInv,
           ClientInv, LogKept
    PROVE  ClientInv'
  <1>. DEFINE n == node[i]
  <1>a. /\ Attends(n, r, told) /\ r \in NodeState /\ Moves(i, Done(r)) /\ outcome' = told
    BY RanAttends DEF Ran, Runs
  <1>b. /\ TypeOK /\ TypeOK' /\ outcome \in [Command -> Outcome]
    BY <1>a DEF Moves, TypeOK
  <1>1. node'[i] = Done(r) /\ \A j \in Node : j # i => node'[j] = node[j]
    BY <1>a, MovesFacts
  <1>2. SameRoom(r, Done(r))
    BY <1>a, ConstantType DEF Done, NodeState, SameRoom
  <1>3. /\ node'[i].newIndex = r.newIndex /\ node'[i].kv = r.kv
        /\ Room(node'[i])
    <2>1. Serves(r, Done(r))
      BY <1>a, <1>2, SameRoomServes DEF Attends
    <2>. QED BY <1>1, <1>2, <2>1 DEF SameRoom, Serves
  <1>4. \A j \in Node : Room(node'[j])
    BY <1>1, <1>3 DEF ClientInv
  <1>5. Callers /\ Acknowledged
    BY DEF ClientInv
  <1>6. CASE told = outcome /\ r.newIndex = n.newIndex
    <2>1. \A j \in Node : node'[j].newIndex = node[j].newIndex
      BY <1>1, <1>3, <1>6
    <2>2. Callers'
      BY <1>5, <1>6, <1>a, <2>1 DEF Callers
    <2>3. Acknowledged'
      BY <1>5, <1>6, <1>a, <1>b, LogLength DEF Acknowledged, LogKept, Agree, TypeOK
    <2>. QED BY <1>4, <2>2, <2>3 DEF ClientInv
  <1>7. ASSUME NEW c \in Command, NEW o \in Outcome,
               told = [outcome EXCEPT ![c] = o],
               outcome[c] = "new" \/ n.newIndex[c] > 0,
               \A d \in Command : d # c => r.newIndex[d] = n.newIndex[d],
               r.newIndex[c] > 0 => o = "waiting",
               o = "ok" => \E k : <<k, c>> \in r.kv
        PROVE  ClientInv'
    <2>1. outcome'[c] = o /\ \A d \in Command : d # c => outcome'[d] = outcome[d]
      BY <1>7, <1>a, <1>b, Zenon
    <2>2. \A j \in Node : \A d \in Command : d # c => node'[j].newIndex[d] = node[j].newIndex[d]
      BY <1>1, <1>3, <1>7
    <2>3. \A j \in Node : j # i => node[j].newIndex[c] = 0
      <3>1. \A j \in Node : node[j].newIndex[c] \in Nat
        BY <1>b DEF TypeOK, NodeState, Registration
      <3>2. CASE outcome[c] = "new"
        <4>1. \A j \in Node : ~(node[j].newIndex[c] > 0)
          BY <1>5, <3>2 DEF Callers
        <4>. QED BY <3>1, <4>1
      <3>3. CASE n.newIndex[c] > 0
        BY <1>5, <3>3 DEF Callers
      <3>. QED BY <1>7, <3>2, <3>3
    <2>4. ASSUME NEW j \in Node, NEW d \in Command, node'[j].newIndex[d] > 0
          PROVE  /\ outcome'[d] = "waiting"
                 /\ \A l \in Node : l # j => node'[l].newIndex[d] = 0
      <3>1. CASE d = c
        <4>1. j = i
          BY <1>1, <2>3, <2>4, <3>1
        <4>. QED BY <1>1, <1>3, <1>7, <2>1, <2>3, <2>4, <3>1, <4>1
      <3>2. CASE d # c
        <4>1. node[j].newIndex[d] > 0
          BY <2>2, <2>4, <3>2
        <4>. QED BY <1>5, <2>1, <2>2, <3>2, <4>1 DEF Callers
      <3>. QED BY <3>1, <3>2
    <2>5. Callers'
      BY <2>4 DEF Callers
    <2>6. ASSUME NEW d \in Command, outcome'[d] = "ok"
          PROVE  \E k \in 1..Len(committed') : committed'[k].command = d
      <3>1. CASE outcome[d] = "ok"
        BY <1>5, <1>b, <3>1, AnswersKept
      <3>2. CASE outcome[d] # "ok"
        <4>1. d = c
          BY <2>1, <2>6, <3>2
        <4>2. PICK k : <<k, c>> \in r.kv
          BY <1>7, <2>1, <2>6, <4>1
        <4>3. LogInv'
          BY DEF LogKept
        <4>4. PICK H, B : NodeSound(H, B, Terms', committed', i, node'[i])
          BY <4>3 DEF LogInv, LogSound
        <4>5. <<k, c>> \in AppliedPrefix(committed', node'[i].lastApplied)
          BY <1>3, <4>2, <4>4 DEF NodeSound, CommitSound
        <4>6. \E l \in 1..node'[i].lastApplied :
                 l <= Len(committed') /\ <<k, c>> = <<l, committed'[l].command>>
          BY <4>5, Zenon DEF AppliedPrefix
        <4>7. node'[i].lastApplied \in Nat /\ Len(committed') \in Nat
          BY <1>b, LogLength DEF TypeOK, NodeState
        <4>. QED BY <4>1, <4>6, <4>7
      <3>. QED BY <3>1, <3>2
    <2>7. Acknowledged'
      BY <2>6 DEF Acknowledged
    <2>. QED BY <1>4, <2>5, <2>7 DEF ClientInv
  <1>. QED BY <1>6, <1>7, <1>a, Zenon DEF Attends, Tells

\* A restarted node has no blocked calls, and their clients know it.
LEMMA RestartedRoom ==
    ASSUME NEW r
    PROVE  /\ Room(NewRaftNode(r))
           /\ \A c \in Command : NewRaftNode(r).newIndex[c] = 0
  BY DEF NewRaftNode, Room

LEMMA DiedClients ==
    ASSUME NEW i \in Node, NEW n, NEW r, NEW handled, NEW told, Died(i, n, r, handled, told),
           LogInv, ClientInv, LogKept
    PROVE  ClientInv'
  <1>a. /\ Moves(i, NewRaftNode(r))
        /\ outcome' = [c \in Command |-> IF node[i].newIndex[c] > 0 THEN "failed" ELSE outcome[c]]
    BY DEF Died, Falls
  <1>b. TypeOK /\ TypeOK'
    BY <1>a DEF Moves
  <1>1. node'[i] = NewRaftNode(r) /\ \A j \in Node : j # i => node'[j] = node[j]
    BY <1>a, MovesFacts
  <1>2. \A j \in Node : Room(node'[j])
    BY <1>1, RestartedRoom DEF ClientInv
  <1>3. Callers /\ Acknowledged
    BY DEF ClientInv
  <1>4. \A c \in Command : node'[i].newIndex[c] = 0
    BY <1>1, RestartedRoom
  <1>5. \A c \in Command : outcome'[c] = IF node[i].newIndex[c] > 0 THEN "failed" ELSE outcome[c]
    BY <1>a, Zenon
  <1>6. ASSUME NEW j \in Node, NEW c \in Command, node'[j].newIndex[c] > 0
        PROVE  /\ outcome'[c] = "waiting"
               /\ \A l \in Node : l # j => node'[l].newIndex[c] = 0
    <2>1. j # i /\ node[j].newIndex[c] > 0
      BY <1>1, <1>4, <1>6
    <2>2. /\ outcome[c] = "waiting" /\ node[i].newIndex[c] = 0
          /\ \A l \in Node : l # j => node[l].newIndex[c] = 0
      BY <1>3, <2>1 DEF Callers
    <2>. QED BY <1>1, <1>4, <1>5, <2>2
  <1>7. Callers'
    BY <1>6 DEF Callers
  <1>8. \A c \in Command : outcome'[c] = "ok" => outcome[c] = "ok"
    BY <1>5
  <1>9. Acknowledged'
    BY <1>3, <1>8, <1>b, AnswersKept DEF Acknowledged
  <1>. QED BY <1>2, <1>7, <1>9 DEF ClientInv

LEMMA NextClients ==
    ASSUME FaultyDisk = FALSE
    PROVE  TypeOK /\ ElectionInv /\ LogInv /\ ClientInv /\ [Next]_vars => ClientInv'
  <1>. SUFFICES ASSUME TypeOK, ElectionInv, LogInv, ClientInv, [Next]_vars
                PROVE  ClientInv'
    OBVIOUS
  <1>0. LogKept
    BY NextLog
  <1>1. CASE Idle
    BY <1>1 DEF Idle, ClientInv, Callers, Acknowledged
  <1>. QED BY <1>0, <1>1, NextCases, RanClients, DiedClients

LEMMA InitClients == Init => ClientInv
  <1>. SUFFICES ASSUME Init PROVE ClientInv
    OBVIOUS
  <1>1. \A i \in Node : node[i] = NewRaftNode(EmptyDisk)
    BY DEF Init
  <1>2. \A c \in Command : outcome[c] = "new"
    BY DEF Init
  <1>. QED BY <1>1, <1>2, RestartedRoom DEF ClientInv, Callers, Acknowledged

-----------------------------------------------------------------------------
(* The theorems.                                                             *)

\* ProposeCommand, applyCommittedEntriesLocked and checkTerm: whoever is
\* registered in pendingCommits waits, at a leader, for its own entry, which is
\* not applied yet, with an empty channel; a command has a call blocked at one
\* node at most; every acknowledged command is in the committed log.  A blocked
\* call need not be registered.
THEOREM ClientInvariant ==
    ASSUME FaultyDisk = FALSE
    PROVE  Spec => []ClientInv
  BY InitClients, NextClients, TypeCorrect, ElectionInvariant, LogInvariantHolds, PTL DEF Spec

\* ProposeCommand, checkTerm and applyCommittedEntriesLocked: who is in the
\* waiting room waits for its own entry, and its channel is empty, so that the
\* sends made while rn.mu is held never block.
THEOREM WaitersAreSound ==
    ASSUME FaultyDisk = FALSE
    PROVE  Spec => []WaitingRoomSound
  <1>1. ClientInv => WaitingRoomSound
    BY DEF ClientInv, Room, Waits, WaitingRoomSound, LastIndex
  <1>. QED BY <1>1, ClientInvariant, PTL

\* ProposeCommand: a write that a client was told is committed is in the log of
\* every node that can win an election.
THEOREM AckedWritesAreDurable ==
    ASSUME FaultyDisk = FALSE
    PROVE  Spec => []AckedDurable
  <1>1. TypeOK /\ LogInv /\ ClientInv => AckedDurable
    <2>. SUFFICES ASSUME TypeOK, LogInv, ClientInv, NEW c \in Command, outcome[c] = "ok",
                         NEW i \in Node, Electable(i)
                  PROVE  \E k \in 1..Len(node[i].log) : node[i].log[k].command = c
      BY DEF AckedDurable
    <2>1. PICK k \in 1..Len(committed) : committed[k].command = c
      BY DEF ClientInv, Acknowledged
    <2>2. Agree(committed, node[i].log, Len(committed))
      BY ElectableComplete
    <2>3. Len(committed) \in Nat /\ Len(node[i].log) \in Nat
      BY LogLength DEF TypeOK, NodeState
    <2>. QED BY <2>1, <2>2, <2>3 DEF Agree
  <1>. QED BY <1>1, TypeCorrect, LogInvariantHolds, ClientInvariant, PTL

-----------------------------------------------------------------------------
(* The cluster implements ReplicatedLog.                                     *)

\* What ReplicatedLog sees of the cluster.
Commands(com) == [k \in 1..Len(com) |-> com[k].command]
AppliedOf == [j \in Node |-> node[j].lastApplied]
StoreOf == [j \in Node |-> node[j].kv]
AckedOf == {c \in Command : outcome[c] = "ok"}

LEMMA CommandsType ==
    ASSUME NEW com \in Log
    PROVE  /\ Commands(com) \in Seq(Command \cup {NoOp})
           /\ Len(com) \in Nat /\ Len(Commands(com)) = Len(com)
           /\ \A k \in 1..Len(com) : Commands(com)[k] = com[k].command
  <1>1. Len(com) \in Nat
    BY LogLength
  <1>2. \A k \in 1..Len(com) : com[k].command \in Command \cup {NoOp}
    <2>1. \A k \in 1..Len(com) : com[k] \in Entry
      BY LogLength
    <2>. QED BY <2>1 DEF Entry
  <1>. QED BY <1>1, <1>2 DEF Commands

LEMMA CommandsPrefix ==
    ASSUME NEW x \in Log, NEW y \in Log, Agree(x, y, Len(x))
    PROVE  Promise!IsPrefix(Commands(x), Commands(y))
  <1>. DEFINE s == Commands(x)
              t == Commands(y)
  <1>1. /\ s \in Seq(Command \cup {NoOp}) /\ t \in Seq(Command \cup {NoOp})
        /\ Len(s) = Len(x) /\ Len(t) = Len(y) /\ Len(x) \in Nat /\ Len(y) \in Nat
        /\ \A k \in 1..Len(x) : s[k] = x[k].command
        /\ \A k \in 1..Len(y) : t[k] = y[k].command
    BY CommandsType
  <1>. HIDE DEF s, t
  <1>2. Len(s) <= Len(t) /\ \A k \in 1..Len(s) : s[k] = t[k]
    BY <1>1 DEF Agree
  <1>3. SubSeq(s, 1, Len(s)) = SubSeq(t, 1, Len(s))
    BY <1>1, <1>2
  <1>. QED BY <1>2, <1>3 DEF Promise!IsPrefix, s, t

\* The store that applying a prefix of the committed log gives.
LEMMA PrefixReplayed ==
    ASSUME NEW com \in Log, NEW k \in Nat, k <= Len(com)
    PROVE  AppliedPrefix(com, k) = Promise!Replay(Commands(com), k)
  <1>. DEFINE S == {l \in 1..k : l <= Len(com) /\ com[l].command # NoOp}
              R == {l \in 1..k : Commands(com)[l] # NoOp}
  <1>1. \A l \in 1..k : l \in 1..Len(com) /\ Commands(com)[l] = com[l].command
    BY CommandsType
  <1>2. S = R /\ \A l \in S : com[l].command = Commands(com)[l]
    BY <1>1
  <1>3. AppliedPrefix(com, k) = {<<l, com[l].command>> : l \in S}
    BY Zenon DEF AppliedPrefix
  <1>4. Promise!Replay(Commands(com), k) = {<<l, Commands(com)[l]>> : l \in R}
    BY Zenon DEF Promise!Replay
  <1>. HIDE DEF S, R
  <1>. QED BY <1>2, <1>3, <1>4

\* What the invariant says of the store of node j.
LEMMA StoreFacts ==
    ASSUME TypeOK, LogInv, NEW j \in Node
    PROVE  /\ committed \in Log /\ node[j].lastApplied \in Nat
           /\ node[j].lastApplied <= Len(committed)
           /\ node[j].kv = AppliedPrefix(committed, node[j].lastApplied)
  <1>1. PICK G, A : \A l \in Node : NodeSound(G, A, Terms, committed, l, node[l])
    BY StateFacts
  <1>2. /\ node[j].lastApplied <= Len(committed)
        /\ node[j].kv = AppliedPrefix(committed, node[j].lastApplied)
    BY <1>1 DEF NodeSound, CommitSound
  <1>. QED BY <1>2 DEF TypeOK, NodeState

LEMMA RanAdvances ==
    ASSUME NEW i \in Node, NEW r, NEW handled, NEW told, Ran(i, r, handled, told), LogInv,
           ClientInv, LogKept
    PROVE  /\ Promise!Advance(i)
           /\ AckedOf' = AckedOf \/ \E c \in Command : Promise!Acknowledge(c)
  <1>. DEFINE k == node'[i].lastApplied
              seen == Commands(committed')
  <1>a. /\ Attends(node[i], r, told) /\ r \in NodeState /\ Moves(i, Done(r)) /\ outcome' = told
    BY RanAttends DEF Ran, Runs
  <1>b. TypeOK /\ TypeOK' /\ LogInv'
    BY <1>a DEF Moves, LogKept
  <1>1. node'[i] = Done(r) /\ \A j \in Node : j # i => node'[j] = node[j]
    BY <1>a, MovesFacts
  <1>2. k = r.lastApplied /\ node'[i].kv = r.kv /\ node[i].lastApplied <= k
    <2>1. SameCommit(r, Done(r))
      BY <1>a, DoneFields
    <2>. QED BY <1>1, <1>a, <2>1 DEF SameCommit, Attends
  <1>3. /\ committed \in Log /\ committed' \in Log /\ k \in Nat /\ k <= Len(committed')
        /\ node'[i].kv = AppliedPrefix(committed', k)
    <2>2. PICK H, B : NodeSound(H, B, Terms', committed', i, node'[i])
      BY <1>b DEF LogInv, LogSound
    <2>3. k <= Len(committed') /\ node'[i].kv = AppliedPrefix(committed', k)
      BY <2>2 DEF NodeSound, CommitSound
    <2>. QED BY <1>b, <2>3 DEF TypeOK, NodeState
  <1>4. Promise!IsPrefix(Commands(committed), seen)
    BY <1>3, CommandsPrefix DEF LogKept
  <1>5. Len(seen) = Len(committed') /\ \A l \in 1..Len(committed') : seen[l] = committed'[l].command
    BY <1>3, CommandsType
  <1>6. node'[i].kv = Promise!Replay(seen, k)
    BY <1>3, PrefixReplayed
  <1>7. AppliedOf' = [AppliedOf EXCEPT ![i] = k] /\ AppliedOf[i] = node[i].lastApplied
    BY <1>1, Zenon DEF AppliedOf
  <1>8. StoreOf' = [StoreOf EXCEPT ![i] = Promise!Replay(seen, k)]
    BY <1>1, <1>6, Zenon DEF StoreOf
  <1>9. k \in AppliedOf[i]..Len(seen)
    BY <1>2, <1>3, <1>5, <1>7, <1>b, LogLength DEF TypeOK, NodeState
  <1>10. Promise!Advance(i)
    BY <1>4, <1>7, <1>8, <1>9, Zenon DEF Promise!Advance, AppliedOf, StoreOf, Commands
  <1>11. CASE told = outcome
    BY <1>10, <1>11, <1>a DEF AckedOf
  <1>12. ASSUME NEW c \in Command, NEW o \in Outcome,
                told = [outcome EXCEPT ![c] = o],
                outcome[c] = "new" \/ node[i].newIndex[c] > 0,
                o = "ok" => \E l : <<l, c>> \in r.kv
         PROVE  AckedOf' = AckedOf \/ Promise!Acknowledge(c)
    <2>1. outcome'[c] = o /\ \A d \in Command : d # c => outcome'[d] = outcome[d]
      <3>1. outcome \in [Command -> Outcome]
        BY <1>b DEF TypeOK
      <3>. QED BY <1>12, <1>a, <3>1, Zenon
    <2>2. outcome[c] # "ok"
      BY <1>12 DEF ClientInv, Callers
    <2>3. CASE o # "ok"
      BY <2>1, <2>2, <2>3 DEF AckedOf
    <2>4. CASE o = "ok"
      <3>1. PICK l : <<l, c>> \in r.kv
        BY <1>12, <2>4
      <3>2. <<l, c>> \in AppliedPrefix(committed', k)
        BY <1>2, <1>3, <3>1
      <3>3. \E p \in 1..k : p <= Len(committed') /\ <<l, c>> = <<p, committed'[p].command>>
        BY <3>2, Zenon DEF AppliedPrefix
      <3>4. PICK p \in 1..k : seen[p] = c
        <4>1. Len(committed') \in Nat
          BY <1>3, LogLength
        <4>. QED BY <1>3, <1>5, <3>3, <4>1
      <3>5. p \in 1..AppliedOf'[i]
        BY DEF AppliedOf
      <3>6. AckedOf' = AckedOf \cup {c}
        BY <2>1, <2>2, <2>4 DEF AckedOf
      <3>. QED BY <3>4, <3>5, <3>6, Zenon DEF Promise!Acknowledge, AppliedOf, AckedOf, Commands
    <2>. QED BY <2>3, <2>4
  <1>. QED BY <1>10, <1>11, <1>12, <1>a, Zenon DEF Attends, Tells

LEMMA DiedLoses ==
    ASSUME NEW i \in Node, NEW n, NEW r, NEW handled, NEW told, Died(i, n, r, handled, told),
           ClientInv
    PROVE  Promise!Lose(i)
  <1>a. /\ Moves(i, NewRaftNode(r))
        /\ outcome' = [c \in Command |-> IF node[i].newIndex[c] > 0 THEN "failed" ELSE outcome[c]]
    BY DEF Died, Falls
  <1>1. /\ node'[i] = NewRaftNode(r) /\ committed' = Longest(committed, NewRaftNode(r))
        /\ \A j \in Node : j # i => node'[j] = node[j]
    BY <1>a, MovesFacts
  <1>2. /\ node'[i].lastApplied = 0 /\ node'[i].kv = {}
        /\ committed' = committed
    BY <1>1 DEF NewRaftNode, Longest
  <1>3. AppliedOf' = [AppliedOf EXCEPT ![i] = 0]
    BY <1>1, <1>2, Zenon DEF AppliedOf
  <1>4. StoreOf' = [StoreOf EXCEPT ![i] = {}]
    BY <1>1, <1>2, Zenon DEF StoreOf
  <1>5. AckedOf' = AckedOf
    <2>1. \A c \in Command : outcome'[c] = IF node[i].newIndex[c] > 0 THEN "failed" ELSE outcome[c]
      BY <1>a, Zenon
    <2>2. \A c \in Command : node[i].newIndex[c] > 0 => outcome[c] = "waiting"
      BY DEF ClientInv, Callers
    <2>3. \A c \in Command : outcome'[c] = "ok" <=> outcome[c] = "ok"
      BY <2>1, <2>2
    <2>. QED BY <2>3 DEF AckedOf
  <1>6. Commands(committed') = Commands(committed)
    BY <1>2
  <1>. QED BY <1>3, <1>4, <1>5, <1>6, Zenon DEF Promise!Lose, AppliedOf, StoreOf, AckedOf, Commands

LEMMA InitRefines == Init => Promise!Init
  <1>. SUFFICES ASSUME Init PROVE Promise!Init
    OBVIOUS
  <1>1. committed = <<>> /\ committed \in Log
    BY DEF Init, Log
  <1>2. Commands(committed) \in Seq(Command \cup {NoOp}) /\ Len(Commands(committed)) = 0
    BY <1>1, CommandsType
  <1>3. \A j \in Node : node[j].lastApplied = 0 /\ node[j].kv = {}
    BY DEF Init, NewRaftNode
  <1>4. AppliedOf \in [Node -> 0..Len(Commands(committed))] /\ \A j \in Node : AppliedOf[j] = 0
    BY <1>2, <1>3 DEF AppliedOf
  <1>5. Promise!Replay(Commands(committed), 0) = {}
    BY DEF Promise!Replay
  <1>6. StoreOf = [j \in Node |-> Promise!Replay(Commands(committed), AppliedOf[j])]
    BY <1>3, <1>4, <1>5, Zenon DEF StoreOf
  <1>7. AckedOf = {}
    BY DEF Init, AckedOf
  <1>. QED BY <1>2, <1>4, <1>6, <1>7, Zenon DEF Promise!Init, AppliedOf, StoreOf, AckedOf, Commands

LEMMA NextRefines ==
    ASSUME FaultyDisk = FALSE
    PROVE  TypeOK /\ ElectionInv /\ LogInv /\ ClientInv /\ [Next]_vars
           => [Promise!Next]_<<Commands(committed), AppliedOf, StoreOf, AckedOf>>
  <1>. SUFFICES ASSUME TypeOK, ElectionInv, LogInv, ClientInv, [Next]_vars
                PROVE  [Promise!Next]_<<Commands(committed), AppliedOf, StoreOf, AckedOf>>
    OBVIOUS
  <1>0. LogKept
    BY NextLog
  <1>1. CASE Idle
    BY <1>1 DEF Idle, Commands, AppliedOf, StoreOf, AckedOf
  <1>2. ASSUME NEW i \in Node, NEW r, NEW handled, NEW told, Ran(i, r, handled, told)
        PROVE  Promise!Next
    <2>1. /\ Promise!Advance(i)
          /\ AckedOf' = AckedOf \/ \E c \in Command : Promise!Acknowledge(c)
      BY <1>0, <1>2, RanAdvances
    <2>. QED BY <2>1, Zenon DEF Promise!Next, AckedOf
  <1>3. ASSUME NEW i \in Node, NEW n, NEW r, NEW handled, NEW told,
               Died(i, n, r, handled, told)
        PROVE  Promise!Next
    <2>1. Promise!Lose(i)
      BY <1>3, DiedLoses
    <2>. QED BY <2>1, Zenon DEF Promise!Next
  <1>. QED BY <1>1, <1>2, <1>3, NextCases

\* checkAndUpdateCommitIndexLocked, applyCommittedEntriesLocked and
\* ProposeCommand implement ReplicatedLog: one log that only grows, of which
\* every node applies a prefix and every acknowledged write is part.
THEOREM ImplementsReplicatedLog ==
    ASSUME FaultyDisk = FALSE
    PROVE  Spec => Refinement
  <1>1. TypeOK /\ ElectionInv /\ LogInv /\ ClientInv /\ [Next]_vars
        => [Promise!Next]_(Promise!abstract)
    BY NextRefines DEF Promise!abstract, Commands, AppliedOf, StoreOf, AckedOf
  <1>. QED BY <1>1, InitRefines, TypeCorrect, ElectionInvariant, LogInvariantHolds,
              ClientInvariant, PTL DEF Spec, Refinement, Promise!Spec

-----------------------------------------------------------------------------
(* What the handlers do to a node's office: its role, term and leader.       *)

SameOffice(n, r) ==
    r.role = n.role /\ r.currentTerm = n.currentTerm /\ r.leaderID = n.leaderID

\* Node n may have moved to a later term, and lost its office there; it took
\* none.
Stays(n, r) ==
    /\ n.currentTerm <= r.currentTerm /\ r.leaderID = n.leaderID
    /\ r.role = "Leader" => n.role = "Leader" /\ r.currentTerm = n.currentTerm
    /\ r.currentTerm = n.currentTerm => /\ n.role = "Leader" => r.role = "Leader"
                                        /\ n.role = "Follower" => r.role = "Follower"

\* Node n took office, in a later term or in the one it stood for.
Rises(n, r) ==
    /\ n.role # "Leader" /\ r.role = "Leader" /\ r.leaderID = n.leaderID
    /\ \/ n.currentTerm < r.currentTerm
       \/ n.currentTerm = r.currentTerm /\ n.role = "Candidate"

LEMMA SameOfficeStays ==
    ASSUME NEW n \in NodeState, NEW r, SameOffice(n, r)
    PROVE  Stays(n, r)
  <1>1. n.currentTerm \in Nat
    BY DEF NodeState
  <1>. QED BY <1>1 DEF SameOffice, Stays

LEMMA StaysTrans ==
    ASSUME NEW n \in NodeState, NEW m \in NodeState, NEW r \in NodeState, Stays(n, m)
    PROVE  /\ Stays(m, r) => Stays(n, r)
           /\ Rises(m, r) /\ n.role # "Leader" => Rises(n, r)
  <1>1. n.currentTerm \in Nat /\ m.currentTerm \in Nat /\ r.currentTerm \in Nat
    BY DEF NodeState
  <1>2. n.role \in {"Follower", "Candidate", "Leader"}
    BY DEF NodeState, Role
  <1>3. Stays(m, r) => Stays(n, r)
    BY <1>1 DEF Stays
  <1>4. Rises(m, r) /\ n.role # "Leader" => Rises(n, r)
    BY <1>1, <1>2 DEF Stays, Rises
  <1>. QED BY <1>3, <1>4

\* What concerns the log, the disk, the commit index or the outbox leaves it
\* alone.
LEMMA LogOffice ==
    ASSUME NEW n \in NodeState, NEW t, NEW v, NEW entries, NEW k, NEW i, NEW js
    PROVE  /\ SameOffice(n, SaveTerm(n, t)) /\ SameOffice(n, SaveVotedFor(n, v))
           /\ SameOffice(n, AppendEntries(n, entries)) /\ SameOffice(n, TruncateFrom(n, k))
           /\ SameOffice(n, ApplyCommitted([n EXCEPT !.commitIndex = k]))
           /\ SameOffice(n, CheckAndUpdateCommitIndex(n))
           /\ SameOffice(n, SendAppendEntries(i, n, js))
  <1>1. SameOffice(n, SaveTerm(n, t)) /\ SameOffice(n, SaveVotedFor(n, v))
    BY DEF SameOffice, SaveTerm, SaveVotedFor, NodeState
  <1>2. SameOffice(n, AppendEntries(n, entries)) /\ SameOffice(n, TruncateFrom(n, k))
    BY DEF SameOffice, AppendEntries, TruncateFrom, NodeState
  <1>3. \A l : SameOffice(n, ApplyCommitted([n EXCEPT !.commitIndex = l]))
    BY DEF SameOffice, ApplyCommitted, NodeState
  <1>4. SameOffice(n, CheckAndUpdateCommitIndex(n))
    BY <1>3 DEF SameOffice, CheckAndUpdateCommitIndex
  <1>5. SameOffice(n, SendAppendEntries(i, n, js))
    BY DEF SameOffice, SendAppendEntries, NodeState
  <1>. QED BY <1>1, <1>2, <1>3, <1>4, <1>5

\* checkTerm.
LEMMA CheckTermOffice ==
    ASSUME NEW n \in NodeState, NEW t \in Nat
    PROVE  Stays(n, CheckTerm(n, t))
  <1>. DEFINE d == StepDown(n, t)
              s == SaveTerm(d, t)
              v == SaveVotedFor(s, None)
  <1>1. n.currentTerm \in Nat
    BY DEF NodeState
  <1>2. d \in NodeState
    BY CheckTermType
  <1>3. d.role = "Follower" /\ d.currentTerm = t /\ d.leaderID = n.leaderID
    BY DEF StepDown, NodeState
  <1>. HIDE DEF d
  <1>4. s \in NodeState /\ SameOffice(d, s)
    BY <1>2, SaveType, LogOffice, ConstantType
  <1>. HIDE DEF s
  <1>5. SameOffice(s, v)
    BY <1>4, LogOffice
  <1>. HIDE DEF v
  <1>6. t > n.currentTerm => Stays(n, v)
    BY <1>1, <1>3, <1>4, <1>5 DEF SameOffice, Stays
  <1>7. Stays(n, n)
    BY SameOfficeStays DEF SameOffice
  <1>. QED BY <1>6, <1>7, Zenon DEF CheckTerm, v, s, d

\* becomeLeader.
LEMMA BecomeLeaderOffice ==
    ASSUME NEW n \in NodeState, NEW i \in Node, n.role = "Candidate"
    PROVE  Rises(n, BecomeLeader(i, n))
  <1>. DEFINE f == FreshLeader(i, n)
              g == AppendEntries(f, <<NoOpEntry(n)>>)
              h == CheckAndUpdateCommitIndex(g)
              r == BroadcastAppendEntries(i, h)
  <1>1. f \in NodeState /\ g \in NodeState /\ h \in NodeState
    BY WinnerType
  <1>2. f.role = "Leader" /\ f.currentTerm = n.currentTerm /\ f.leaderID = n.leaderID
    BY DEF FreshLeader, NodeState
  <1>. HIDE DEF f
  <1>3. SameOffice(f, g)
    BY <1>1, LogOffice
  <1>. HIDE DEF g
  <1>4. SameOffice(g, h)
    BY <1>1, LogOffice
  <1>. HIDE DEF h
  <1>5. SameOffice(h, r)
    BY <1>1, LogOffice DEF BroadcastAppendEntries
  <1>. HIDE DEF r
  <1>6. Rises(n, r)
    BY <1>2, <1>3, <1>4, <1>5 DEF SameOffice, Rises
  <1>. QED BY <1>6, Zenon DEF BecomeLeader, r, h, g, f

\* campaignLocked.
LEMMA CampaignOffice ==
    ASSUME NEW n \in NodeState, NEW i \in Node, n.role # "Leader"
    PROVE  Stays(n, Campaign(i, n)) \/ Rises(n, Campaign(i, n))
  <1>. DEFINE c == Candidacy(i, n)
              s == SaveTerm(c, n.currentTerm + 1)
              v == SaveVotedFor(s, i)
              calls == VoteRequests(i, v, "RequestVote", v.currentTerm, 1)
              asked == [v EXCEPT !.out = calls]
              b == BecomeLeader(i, v)
  <1>1. n.currentTerm \in Nat /\ n.currentTerm + 1 \in Nat /\ i \in Vote
    BY DEF NodeState, Vote
  <1>2. c \in NodeState
    BY <1>1, ConstantType DEF Candidacy, NodeState, Role
  <1>3. c.role = "Candidate" /\ c.currentTerm = n.currentTerm + 1 /\ c.leaderID = n.leaderID
    BY DEF Candidacy, NodeState
  <1>. HIDE DEF c
  <1>4. s \in NodeState /\ SameOffice(c, s)
    BY <1>1, <1>2, SaveType, LogOffice
  <1>. HIDE DEF s
  <1>5. v \in NodeState /\ SameOffice(s, v)
    BY <1>1, <1>4, SaveType, LogOffice
  <1>. HIDE DEF v
  <1>6. v.role = "Candidate" /\ Stays(n, v)
    BY <1>1, <1>3, <1>4, <1>5 DEF SameOffice, Stays
  <1>7. b \in NodeState /\ Rises(v, b)
    BY <1>5, <1>6, BecomeLeaderType, BecomeLeaderOffice
  <1>. HIDE DEF b, calls
  <1>8. Rises(n, b)
    BY <1>5, <1>6, <1>7, StaysTrans
  <1>9. SameOffice(v, asked)
    BY <1>5 DEF SameOffice, NodeState
  <1>10. Stays(n, asked)
    BY <1>6, <1>9 DEF SameOffice, Stays
  <1>. QED BY <1>8, <1>10, Zenon DEF Campaign, asked, calls, b, v, s, c

\* The handlers of an election.
LEMMA ElectionOffice ==
    ASSUME NEW n \in NodeState, NEW i \in Node
    PROVE  /\ \A q \in Round : n.role # "Leader" =>
                 LET r == StartElection(i, n, q) IN Stays(n, r) \/ Rises(n, r)
           /\ \A m \in VoteResponse :
                 LET r == HandlePreVoteResponse(i, n, m) IN Stays(n, r) \/ Rises(n, r)
           /\ \A m \in VoteResponse :
                 LET r == HandleRequestVoteResponse(i, n, m) IN Stays(n, r) \/ Rises(n, r)
  <1>0. Stays(n, n)
    BY SameOfficeStays DEF SameOffice
  <1>1. ASSUME NEW q \in Round, n.role # "Leader"
        PROVE  Stays(n, StartElection(i, n, q)) \/ Rises(n, StartElection(i, n, q))
    <2>. DEFINE calls == VoteRequests(i, n, "PreVote", n.currentTerm + 1, q)
                asked == [n EXCEPT !.preVotes[q] = 1, !.out = calls]
    <2>1. SameOffice(n, asked)
      <3>. HIDE DEF calls
      <3>. QED BY DEF SameOffice, NodeState
    <2>2. Stays(n, asked)
      BY <2>1, SameOfficeStays
    <2>. QED BY <1>1, <2>2, CampaignOffice, Zenon DEF StartElection, asked, calls
  <1>2. ASSUME NEW m \in VoteResponse
        PROVE  Stays(n, HandlePreVoteResponse(i, n, m)) \/ Rises(n, HandlePreVoteResponse(i, n, m))
    <2>. DEFINE counted == [n EXCEPT !.preVotes[m.round] = @ + 1]
                r == HandlePreVoteResponse(i, n, m)
    <2>1. m.term \in Nat /\ m.round \in Round
      BY DEF VoteResponse
    <2>2. counted \in NodeState
      <3>1. n.preVotes[m.round] + 1 \in Nat
        BY <2>1 DEF NodeState, Tally
      <3>2. [n.preVotes EXCEPT ![m.round] = n.preVotes[m.round] + 1] \in Tally
        BY <2>1, <3>1 DEF NodeState, Tally
      <3>3. counted = [n EXCEPT !.preVotes =
                          [n.preVotes EXCEPT ![m.round] = n.preVotes[m.round] + 1]]
        OBVIOUS
      <3>. QED BY <3>2, <3>3 DEF NodeState
    <2>3. SameOffice(n, counted)
      BY DEF SameOffice, NodeState
    <2>. HIDE DEF counted
    <2>4. Stays(n, counted)
      BY <2>3, SameOfficeStays
    <2>5. ASSUME n.role # "Leader"
          PROVE  Stays(n, Campaign(i, counted)) \/ Rises(n, Campaign(i, counted))
      <3>1. Stays(counted, Campaign(i, counted)) \/ Rises(counted, Campaign(i, counted))
        BY <2>2, <2>3, <2>5, CampaignOffice DEF SameOffice
      <3>2. Campaign(i, counted) \in NodeState
        BY <2>2, CampaignType
      <3>. QED BY <2>2, <2>4, <2>5, <3>1, <3>2, StaysTrans
    <2>6. Stays(n, CheckTerm(n, m.term))
      BY <2>1, CheckTermOffice
    <2>7. \/ r = CheckTerm(n, m.term) \/ r = n \/ r = counted
          \/ r = Campaign(i, counted) /\ n.role # "Leader"
      BY Zenon DEF HandlePreVoteResponse, counted
    <2>. HIDE DEF r
    <2>8. Stays(n, r) \/ Rises(n, r)
      BY <1>0, <2>4, <2>5, <2>6, <2>7
    <2>. QED BY <2>8 DEF r
  <1>3. ASSUME NEW m \in VoteResponse
        PROVE  \/ Stays(n, HandleRequestVoteResponse(i, n, m))
               \/ Rises(n, HandleRequestVoteResponse(i, n, m))
    <2>. DEFINE counted == [n EXCEPT !.votesReceived = @ + 1]
                r == HandleRequestVoteResponse(i, n, m)
    <2>1. m.term \in Nat
      BY DEF VoteResponse
    <2>2. counted \in NodeState /\ SameOffice(n, counted)
      BY DEF SameOffice, NodeState
    <2>. HIDE DEF counted
    <2>3. Stays(n, counted) /\ Stays(n, CheckTerm(n, m.term))
      BY <2>1, <2>2, SameOfficeStays, CheckTermOffice
    <2>4. ASSUME n.role = "Candidate" PROVE Rises(n, BecomeLeader(i, counted))
      <3>1. Rises(counted, BecomeLeader(i, counted)) /\ BecomeLeader(i, counted) \in NodeState
        BY <2>2, <2>4, BecomeLeaderOffice, BecomeLeaderType DEF SameOffice
      <3>. QED BY <2>2, <2>3, <2>4, <3>1, StaysTrans
    <2>5. \/ r = CheckTerm(n, m.term) \/ r = n \/ r = counted
          \/ r = BecomeLeader(i, counted) /\ n.role = "Candidate"
      BY Zenon DEF HandleRequestVoteResponse, counted
    <2>. HIDE DEF r
    <2>6. Stays(n, r) \/ Rises(n, r)
      BY <1>0, <2>3, <2>4, <2>5
    <2>. QED BY <2>6 DEF r
  <1>. QED BY <1>1, <1>2, <1>3, Zenon

\* The handlers of a voter.
LEMMA VoterOffice ==
    ASSUME NEW n \in NodeState, NEW m \in VoteRequest
    PROVE  Stays(n, HandlePreVote(n, m)) /\ Stays(n, HandleRequestVote(n, m))
  <1>. DEFINE voter == CheckTerm(n, m.term)
              voted == [voter EXCEPT !.votedFor = m.caller]
              saved == SaveVotedFor(voted, m.caller)
              r == HandleRequestVote(n, m)
  <1>0. m.term \in Nat /\ m.caller \in Vote
    BY ConstantType DEF VoteRequest
  <1>1. \A q \in NodeState : \A granted : SameOffice(q, VoteReply(q, m, granted))
    <2>. SUFFICES ASSUME NEW q \in NodeState, NEW granted
                  PROVE  SameOffice(q, VoteReply(q, m, granted))
      OBVIOUS
    <2>1. PICK o : VoteReply(q, m, granted) = [q EXCEPT !.out = o]
      BY Zenon DEF VoteReply
    <2>. QED BY <2>1 DEF SameOffice, NodeState
  <1>2. Stays(n, HandlePreVote(n, m))
    BY <1>1, SameOfficeStays DEF HandlePreVote
  <1>3. voter \in NodeState /\ Stays(n, voter)
    BY <1>0, CheckTermType, CheckTermOffice
  <1>. HIDE DEF voter
  <1>4. voted \in NodeState /\ SameOffice(voter, voted)
    BY <1>0, <1>3 DEF SameOffice, NodeState
  <1>. HIDE DEF voted
  <1>5. saved \in NodeState /\ SameOffice(voted, saved)
    <2>1. n.currentTerm \in Nat
      BY DEF NodeState
    <2>. QED BY <1>0, <1>4, <2>1, SaveType, LogOffice
  <1>. HIDE DEF saved
  <1>6. /\ SameOffice(n, VoteReply(n, m, FALSE)) /\ SameOffice(voter, VoteReply(voter, m, FALSE))
        /\ SameOffice(voter, VoteReply(saved, m, TRUE))
    <2>1. SameOffice(saved, VoteReply(saved, m, TRUE))
      BY <1>1, <1>5
    <2>. QED BY <1>1, <1>3, <1>4, <1>5, <2>1 DEF SameOffice
  <1>7. \/ r = VoteReply(n, m, FALSE) \/ r = VoteReply(voter, m, FALSE)
        \/ r = VoteReply(saved, m, TRUE)
    BY Zenon DEF HandleRequestVote, voter, voted, saved
  <1>. HIDE DEF r
  <1>8. Stays(n, r)
    BY <1>3, <1>6, <1>7, SameOfficeStays DEF SameOffice, Stays
  <1>. QED BY <1>2, <1>8 DEF r

\* The handlers of a leader.
LEMMA LeaderOffice ==
    ASSUME NEW n \in NodeState, NEW i \in Node
    PROVE  /\ Stays(n, BroadcastAppendEntries(i, n))
           /\ Stays(n, [n EXCEPT !.leaderContact = FALSE])
           /\ \A m \in AppendResponse : Stays(n, HandleAppendEntriesResponse(i, n, m))
           /\ \A c \in Command : /\ Stays(n, ProposeCommand(i, n, c))
                                 /\ Stays(n, ProposalReturns(n, c))
                                 /\ Stays(n, ProposalTimesOut(n, c))
  <1>1. Stays(n, BroadcastAppendEntries(i, n))
    BY LogOffice, SameOfficeStays DEF BroadcastAppendEntries
  <1>2. Stays(n, [n EXCEPT !.leaderContact = FALSE])
    <2>1. SameOffice(n, [n EXCEPT !.leaderContact = FALSE])
      BY DEF SameOffice, NodeState
    <2>. QED BY <2>1, SameOfficeStays
  <1>3. ASSUME NEW m \in AppendResponse PROVE Stays(n, HandleAppendEntriesResponse(i, n, m))
    <2>. DEFINE j == m.peer
                match == m.prevLogIndex + m.numEntries
                advanced == [n EXCEPT !.nextIndex[j] = IF match + 1 > @ THEN match + 1 ELSE @,
                                      !.matchIndex[j] = IF match > @ THEN match ELSE @]
                retreated == [n EXCEPT !.nextIndex[j] = @ - 1]
                r == HandleAppendEntriesResponse(i, n, m)
    <2>0. m.term \in Nat
      BY DEF AppendResponse
    <2>1. advanced \in NodeState /\ (n.nextIndex[j] > 1 => retreated \in NodeState)
      BY ResponseType, Zenon
    <2>2. SameOffice(n, advanced) /\ SameOffice(n, retreated)
      BY DEF SameOffice, NodeState
    <2>3. \/ r = CheckTerm(n, m.term) \/ r = n \/ r = CheckAndUpdateCommitIndex(advanced)
          \/ n.nextIndex[j] > 1 /\ r = SendAppendEntries(i, retreated, {j})
      BY Zenon DEF HandleAppendEntriesResponse
    <2>. HIDE DEF advanced, retreated, r
    <2>4. r = CheckTerm(n, m.term) \/ SameOffice(n, r)
      <3>1. /\ SameOffice(advanced, CheckAndUpdateCommitIndex(advanced))
            /\ n.nextIndex[j] > 1 => SameOffice(retreated, SendAppendEntries(i, retreated, {j}))
        BY <2>1, LogOffice
      <3>. QED BY <2>2, <2>3, <3>1 DEF SameOffice
    <2>5. Stays(n, r)
      BY <2>0, <2>4, CheckTermOffice, SameOfficeStays
    <2>. QED BY <2>5 DEF r
  <1>4. ASSUME NEW c \in Command PROVE Stays(n, ProposeCommand(i, n, c))
    <2>. DEFINE new == LastIndex(n) + 1
                m == AppendEntries(n, <<[term |-> n.currentTerm, command |-> c]>>)
                waits == [m EXCEPT !.pendingCommits = {d \in @ : n.newIndex[d] # new} \cup {c},
                                   !.newIndex[c] = new, !.commitCh[c] = "empty"]
                r == ProposeCommand(i, n, c)
    <2>1. m \in NodeState /\ waits \in NodeState
      BY ProposedType, Zenon
    <2>2. SameOffice(n, m)
      BY LogOffice
    <2>. HIDE DEF m, new
    <2>3. SameOffice(m, waits)
      BY <2>1 DEF SameOffice, NodeState
    <2>4. \/ r = n \/ r = ApplyCommitted([m EXCEPT !.commitIndex = new])
          \/ r = BroadcastAppendEntries(i, waits)
      BY Zenon DEF ProposeCommand, m, new
    <2>. HIDE DEF waits, r
    <2>5. SameOffice(n, r)
      <3>1. /\ SameOffice(m, ApplyCommitted([m EXCEPT !.commitIndex = new]))
            /\ SameOffice(waits, BroadcastAppendEntries(i, waits))
        BY <2>1, LogOffice DEF BroadcastAppendEntries
      <3>. QED BY <2>2, <2>3, <2>4, <3>1 DEF SameOffice
    <2>6. Stays(n, r)
      BY <2>5, SameOfficeStays
    <2>. QED BY <2>6 DEF r
  <1>5. ASSUME NEW c \in Command
        PROVE  Stays(n, ProposalReturns(n, c)) /\ Stays(n, ProposalTimesOut(n, c))
    <2>1. SameOffice(n, ProposalReturns(n, c)) /\ SameOffice(n, ProposalTimesOut(n, c))
      BY DEF SameOffice, NodeState, ProposalReturns, ProposalTimesOut
    <2>. QED BY <2>1, SameOfficeStays
  <1>. QED BY <1>1, <1>2, <1>3, <1>4, <1>5

\* HandleAppendEntries: a batch of an earlier term is refused, and the sender
\* of any other is followed.
LEMMA FollowerOffice ==
    ASSUME NEW n \in NodeState, NEW m \in AppendRequest
    PROVE  LET r == HandleAppendEntries(n, m)
           IN  /\ m.term < n.currentTerm => Stays(n, r)
               /\ ~(m.term < n.currentTerm) => r.leaderID = m.caller
  <1>. DEFINE f == AcceptLeader(n, m)
              g == Reconcile(f, m)
              h == FollowerCommit(g, m)
              r == HandleAppendEntries(n, m)
  <1>1. \A q \in NodeState : \A success : SameOffice(q, AppendReply(q, m, success))
    <2>. SUFFICES ASSUME NEW q \in NodeState, NEW success
                  PROVE  SameOffice(q, AppendReply(q, m, success))
      OBVIOUS
    <2>1. PICK o : AppendReply(q, m, success) = [q EXCEPT !.out = o]
      BY Zenon DEF AppendReply
    <2>. QED BY <2>1 DEF SameOffice, NodeState
  <1>2. f \in NodeState /\ g \in NodeState /\ h \in NodeState
    BY AcceptLeaderType, ReconcileType, FollowerCommitType
  <1>3. f.leaderID = m.caller
    <2>1. m.term \in Nat
      BY BatchValues
    <2>2. CheckTerm(n, m.term) \in NodeState
      BY <2>1, CheckTermType
    <2>. QED BY <2>2 DEF AcceptLeader, NodeState
  <1>. HIDE DEF f
  <1>4. g.leaderID = m.caller
    <2>1. \A l : SameOffice(f, AppendEntries(f, l)) /\ SameOffice(f, TruncateFrom(f, l))
      BY <1>2, LogOffice
    <2>2. \A k, l : AppendEntries(TruncateFrom(f, k), l).leaderID = f.leaderID
      BY <1>2 DEF AppendEntries, TruncateFrom, NodeState
    <2>. QED BY <1>3, <2>1, <2>2 DEF Reconcile, SameOffice
  <1>. HIDE DEF g
  <1>5. h.leaderID = m.caller
    <2>1. \A k : SameOffice(g, ApplyCommitted([g EXCEPT !.commitIndex = k]))
      BY <1>2, LogOffice
    <2>. QED BY <1>4, <2>1 DEF FollowerCommit, SameOffice
  <1>. HIDE DEF h
  <1>6. m.term < n.currentTerm => Stays(n, r)
    <2>1. m.term < n.currentTerm => r = AppendReply(n, m, FALSE)
      BY Zenon DEF HandleAppendEntries
    <2>. HIDE DEF r
    <2>. QED BY <1>1, <2>1, SameOfficeStays
  <1>7. ~(m.term < n.currentTerm) => r.leaderID = m.caller
    <2>1. ~(m.term < n.currentTerm) => \/ r = AppendReply(f, m, FALSE) \/ r = AppendReply(g, m, FALSE)
                                       \/ r = AppendReply(h, m, TRUE)
      BY Zenon DEF HandleAppendEntries, f, g, h
    <2>. HIDE DEF r
    <2>2. /\ SameOffice(f, AppendReply(f, m, FALSE)) /\ SameOffice(g, AppendReply(g, m, FALSE))
          /\ SameOffice(h, AppendReply(h, m, TRUE))
      BY <1>1, <1>2
    <2>. QED BY <1>3, <1>4, <1>5, <2>1, <2>2 DEF SameOffice
  <1>. QED BY <1>6, <1>7

\* Node i took the sender of a batch, another node that was elected, for its
\* leader.
Joins(i, n, r) ==
    \E e \in elected :
        /\ e.leader # i /\ n.currentTerm <= e.term
        /\ r.currentTerm = e.term /\ r.leaderID = e.leader /\ r.role = "Follower"

\* What a handler that ran to its end did to the office of node i.
LEMMA RanOffice ==
    ASSUME NEW i \in Node, NEW r, NEW handled, NEW told, Ran(i, r, handled, told), LogInv
    PROVE  Stays(node[i], r) \/ Rises(node[i], r) \/ Joins(i, node[i], r)
  <1>. DEFINE n == node[i]
              Goal == Stays(n, r) \/ Rises(n, r) \/ Joins(i, n, r)
  <1>. SUFFICES Goal
    OBVIOUS
  <1>a. TypeOK /\ ElectionInv /\ Moves(i, Done(r))
    BY DEF Ran, Runs, Moves
  <1>b. PICK G, A : Holds(G, A)
    BY DEF LogInv, Holds
  <1>c. n \in NodeState /\ n.out = {} /\ IsSaved(n) /\ rpcs \subseteq Message
    BY <1>a, <1>b, HoldsFacts
  <1>d. Starts(i, n)
    BY <1>c DEF Starts
  <1>e. ASSUME Stays(n, r) \/ Rises(n, r) PROVE Goal
    BY <1>e
  <1>. HIDE DEF Goal
  <1>1. CASE r = BroadcastAppendEntries(i, n) \/ r = [n EXCEPT !.leaderContact = FALSE]
    BY <1>1, <1>c, <1>e, LeaderOffice
  <1>2. ASSUME NEW m \in rpcs, m.type \in {"PreVote", "RequestVote"},
               r = HandlePreVote(n, m) \/ r = HandleRequestVote(n, m)
        PROVE  Goal
    <2>1. m \in VoteRequest
      BY <1>2, <1>c, MessageKind
    <2>. QED BY <1>2, <1>c, <1>e, <2>1, VoterOffice
  <1>3. ASSUME NEW c \in Command, \/ r = ProposalReturns(n, c) \/ r = ProposalTimesOut(n, c)
                                  \/ r = ProposeCommand(i, n, c)
        PROVE  Goal
    BY <1>3, <1>c, <1>e, LeaderOffice
  <1>4. ASSUME NEW q \in Round, n.role # "Leader", r = StartElection(i, n, q)
        PROVE  Goal
    BY <1>4, <1>c, <1>e, ElectionOffice
  <1>5. ASSUME NEW m \in rpcs, m.type = "AppendEntries", m.peer = i, r = HandleAppendEntries(n, m)
        PROVE  Goal
    <2>1. m \in AppendRequest /\ m.term \in Nat /\ n.currentTerm \in Nat
      BY <1>5, <1>c, MessageKind, BatchValues DEF NodeState
    <2>2. CASE m.term < n.currentTerm
      BY <1>5, <1>c, <1>e, <2>1, <2>2, FollowerOffice
    <2>3. CASE ~(m.term < n.currentTerm)
      <3>1. n.currentTerm <= m.term
        BY <2>1, <2>3
      <3>2. Arrives(G, n, m)
        BY <1>5, <1>a, <1>b, <1>d, <3>1, BatchArrives
      <3>3. r.currentTerm = m.term /\ r.role = "Follower"
        BY <1>5, <1>c, <2>1, <3>2, HandleAppendEntriesLog
      <3>4. r.leaderID = m.caller
        BY <1>5, <1>c, <2>1, <2>3, FollowerOffice
      <3>5. m.caller # m.peer /\ [term |-> m.term, leader |-> m.caller] \in elected
        BY <1>5, <1>b DEF Holds, CallersElected, IsAppend
      <3>. DEFINE e == [term |-> m.term, leader |-> m.caller]
      <3>6. e.term = m.term /\ e.leader = m.caller
        OBVIOUS
      <3>. HIDE DEF e
      <3>7. e \in elected
        BY <3>5 DEF e
      <3>. QED BY <1>5, <3>1, <3>3, <3>4, <3>5, <3>6, <3>7 DEF Joins, Goal
    <2>. QED BY <2>2, <2>3
  <1>6. ASSUME NEW m \in rpcs, m.type \in {"PreVoteResponse", "RequestVoteResponse"},
               r = HandlePreVoteResponse(i, n, m) \/ r = HandleRequestVoteResponse(i, n, m)
        PROVE  Goal
    <2>1. m \in VoteResponse
      BY <1>6, <1>c, MessageKind
    <2>. QED BY <1>6, <1>c, <1>e, <2>1, ElectionOffice
  <1>7. ASSUME NEW m \in rpcs, m.type = "AppendEntriesResponse",
               r = HandleAppendEntriesResponse(i, n, m)
        PROVE  Goal
    <2>1. m \in AppendResponse
      BY <1>7, <1>c, MessageKind
    <2>. QED BY <1>7, <1>c, <1>e, <2>1, LeaderOffice
  <1>. QED BY <1>1, <1>2, <1>3, <1>4, <1>5, <1>6, <1>7, Zenon DEF Ran, Reads, Writes

-----------------------------------------------------------------------------
(* The cluster implements Leadership.                                        *)

\* A node that was elected is in a later term, or did not stand again in that
\* one.
ElectedPast ==
    \A e \in elected :
        /\ e.term <= node[e.leader].currentTerm
        /\ e.term = node[e.leader].currentTerm => node[e.leader].role # "Candidate"

\* What the step of one node does to the history of leaders.
LEMMA MovesElected ==
    ASSUME NEW i \in Node, NEW d, Moves(i, d)
    PROVE  /\ node'[i] = d /\ \A j \in Node : j # i => node'[j] = node[j]
           /\ node[i].currentTerm \in Nat /\ d.currentTerm \in Nat
           /\ node[i].currentTerm <= d.currentTerm
           /\ \A e \in elected : e.term \in Nat /\ e.leader \in Node
           /\ elected' = IF d.role = "Leader"
                         THEN elected \cup {[term |-> d.currentTerm, leader |-> i]} ELSE elected
           /\ node[i].role = "Leader"
                 => [term |-> node[i].currentTerm, leader |-> i] \in elected
  <1>1. /\ node'[i] = d /\ \A j \in Node : j # i => node'[j] = node[j]
        /\ d \in NodeState /\ node[i] \in NodeState
    BY MovesFacts
  <1>2. node[i].currentTerm \in Nat /\ d.currentTerm \in Nat
    BY <1>1 DEF NodeState
  <1>3. node[i].currentTerm <= d.currentTerm
    BY <1>2 DEF Moves, VoteStep
  <1>4. \A e \in elected : e.term \in Nat /\ e.leader \in Node
    BY DEF Moves, TypeOK, Elected
  <1>5. elected' = IF d.role = "Leader"
                   THEN elected \cup {[term |-> d.currentTerm, leader |-> i]} ELSE elected
    BY Zenon DEF Moves, Become, Witness
  <1>6. node[i].role = "Leader" => [term |-> node[i].currentTerm, leader |-> i] \in elected
    BY DEF Moves, ElectionInv, LeadersElected
  <1>. QED BY <1>1, <1>2, <1>3, <1>4, <1>5, <1>6, Zenon

\* No step makes a candidate of a node in a term in which it was none.
LEMMA ElectedStep ==
    ASSUME NEW i \in Node, NEW d, Moves(i, d), ElectedPast,
           d.currentTerm = node[i].currentTerm /\ node[i].role # "Candidate"
              => d.role # "Candidate"
    PROVE  ElectedPast'
  <1>1. /\ node'[i] = d /\ \A j \in Node : j # i => node'[j] = node[j]
        /\ node[i].currentTerm \in Nat /\ d.currentTerm \in Nat
        /\ node[i].currentTerm <= d.currentTerm
        /\ \A e \in elected : e.term \in Nat /\ e.leader \in Node
    BY MovesElected
  <1>2. elected' = IF d.role = "Leader"
                   THEN elected \cup {[term |-> d.currentTerm, leader |-> i]} ELSE elected
    BY MovesElected
  <1>3. ASSUME NEW e \in elected
        PROVE  /\ e.term <= node'[e.leader].currentTerm
               /\ e.term = node'[e.leader].currentTerm => node'[e.leader].role # "Candidate"
    <2>1. /\ e.term <= node[e.leader].currentTerm
          /\ e.term = node[e.leader].currentTerm => node[e.leader].role # "Candidate"
      BY DEF ElectedPast
    <2>2. CASE e.leader = i
      BY <1>1, <2>1, <2>2
    <2>3. CASE e.leader # i
      BY <1>1, <2>1, <2>3
    <2>. QED BY <2>2, <2>3
  <1>4. ASSUME d.role = "Leader", NEW e, e = [term |-> d.currentTerm, leader |-> i]
        PROVE  /\ e.term <= node'[e.leader].currentTerm
               /\ e.term = node'[e.leader].currentTerm => node'[e.leader].role # "Candidate"
    BY <1>1, <1>4
  <1>. QED BY <1>2, <1>3, <1>4 DEF ElectedPast

\* What Leadership sees of the cluster.
LeadsOf == {j \in Node : node[j].role = "Leader"}
LeaderOf == [j \in Node |-> node[j].leaderID]

\* What Leadership sees of a step of node i that leaves it as d.
LEMMA OfficeSeen ==
    ASSUME NEW i \in Node, NEW d, node'[i] = d, \A j \in Node : j # i => node'[j] = node[j]
    PROVE  /\ Terms' = [Terms EXCEPT ![i] = d.currentTerm] /\ Terms'[i] = d.currentTerm
           /\ Terms[i] = node[i].currentTerm
           /\ LeadsOf' = IF d.role = "Leader" THEN LeadsOf \cup {i} ELSE LeadsOf \ {i}
           /\ LeaderOf' = [LeaderOf EXCEPT ![i] = d.leaderID]
           /\ LeaderOf[i] = node[i].leaderID
  <1>1. Terms' = [Terms EXCEPT ![i] = d.currentTerm] /\ Terms'[i] = d.currentTerm
    BY Zenon DEF Terms
  <1>2. LeaderOf' = [LeaderOf EXCEPT ![i] = d.leaderID]
    BY Zenon DEF LeaderOf
  <1>3. LeadsOf' = IF d.role = "Leader" THEN LeadsOf \cup {i} ELSE LeadsOf \ {i}
    BY DEF LeadsOf
  <1>. QED BY <1>1, <1>2, <1>3, Zenon DEF Terms, LeaderOf

\* The abstract step of a node that kept its office, or lost it to a later term.
LEMMA StaysLeads ==
    ASSUME NEW i \in Node, NEW d, Moves(i, d), Stays(node[i], d)
    PROVE  \/ Leaders!Next
           \/ UNCHANGED <<Terms, LeadsOf, LeaderOf, elected>>
  <1>. DEFINE n == node[i]
              t == d.currentTerm
  <1>1. /\ node'[i] = d /\ \A j \in Node : j # i => node'[j] = node[j]
        /\ n.currentTerm \in Nat /\ t \in Nat /\ n.currentTerm <= t
        /\ elected' = IF d.role = "Leader"
                      THEN elected \cup {[term |-> t, leader |-> i]} ELSE elected
        /\ n.role = "Leader" => [term |-> n.currentTerm, leader |-> i] \in elected
    BY MovesElected, Zenon
  <1>2. elected' = elected
    BY <1>1 DEF Stays
  <1>3. /\ Terms' = [Terms EXCEPT ![i] = t] /\ Terms'[i] = t /\ Terms[i] = n.currentTerm
        /\ LeadsOf' = IF d.role = "Leader" THEN LeadsOf \cup {i} ELSE LeadsOf \ {i}
        /\ LeaderOf' = [LeaderOf EXCEPT ![i] = d.leaderID] /\ LeaderOf[i] = n.leaderID
    BY <1>1, OfficeSeen
  <1>4. d.leaderID = n.leaderID /\ LeaderOf' = LeaderOf
    BY <1>3 DEF Stays, LeaderOf
  <1>5. CASE n.currentTerm < t
    <2>1. d.role # "Leader"
      BY <1>1, <1>5 DEF Stays
    <2>2. t > Terms[i] /\ LeadsOf' = LeadsOf \ {i}
      BY <1>1, <1>3, <1>5, <2>1
    <2>3. /\ Terms'[i] \in Nat /\ Terms'[i] > Terms[i]
          /\ Terms' = [Terms EXCEPT ![i] = Terms'[i]]
      BY <1>1, <1>3, <2>2
    <2>. QED BY <1>2, <1>4, <2>2, <2>3, Zenon
             DEF Leaders!Next, Leaders!Adopt, Terms, LeadsOf, LeaderOf
  <1>6. CASE ~(n.currentTerm < t)
    <2>1. t = n.currentTerm
      BY <1>1, <1>6
    <2>2. n.role = "Leader" <=> d.role = "Leader"
      BY <2>1 DEF Stays
    <2>3. Terms' = Terms
      BY <1>3, <2>1 DEF Terms
    <2>4. LeadsOf' = LeadsOf
      BY <1>3, <2>2 DEF LeadsOf
    <2>. QED BY <1>2, <1>4, <2>3, <2>4
  <1>. QED BY <1>5, <1>6

\* The abstract step of a node that took office: no other node had it in that
\* term.
LEMMA RisesLeads ==
    ASSUME NEW i \in Node, NEW d, Moves(i, d), Rises(node[i], d), ElectedPast, ElectionSafety'
    PROVE  Leaders!Next
  <1>. DEFINE n == node[i]
              t == d.currentTerm
              won == [term |-> t, leader |-> i]
  <1>1. /\ node'[i] = d /\ \A j \in Node : j # i => node'[j] = node[j]
        /\ n.currentTerm \in Nat /\ t \in Nat /\ n.currentTerm <= t
        /\ elected' = IF d.role = "Leader" THEN elected \cup {won} ELSE elected
    BY MovesElected, Zenon
  <1>2. /\ d.role = "Leader" /\ n.role # "Leader" /\ d.leaderID = n.leaderID
        /\ elected' = elected \cup {won}
    BY <1>1 DEF Rises
  <1>3. /\ Terms' = [Terms EXCEPT ![i] = t] /\ Terms'[i] = t /\ Terms[i] = n.currentTerm
        /\ LeadsOf' = IF d.role = "Leader" THEN LeadsOf \cup {i} ELSE LeadsOf \ {i}
        /\ LeaderOf' = [LeaderOf EXCEPT ![i] = d.leaderID] /\ LeaderOf[i] = n.leaderID
    BY <1>1, OfficeSeen
  <1>4. LeaderOf' = LeaderOf
    BY <1>2, <1>3 DEF LeaderOf
  <1>5. ASSUME NEW e \in elected, e.term = t PROVE FALSE
    <2>1. won.term = t /\ won.leader = i
      OBVIOUS
    <2>. HIDE DEF won
    <2>2. e = won
      BY <1>2, <1>5, <2>1 DEF ElectionSafety
    <2>3. e.term <= n.currentTerm /\ (e.term = n.currentTerm => n.role # "Candidate")
      BY <2>1, <2>2 DEF ElectedPast
    <2>. QED BY <1>1, <1>5, <2>3 DEF Rises
  <1>6. i \notin LeadsOf /\ t >= Terms[i] /\ LeadsOf' = LeadsOf \cup {i}
    BY <1>1, <1>2, <1>3 DEF LeadsOf
  <1>7. \A e \in elected : e.term # t
    BY <1>5
  <1>8. /\ Terms'[i] \in Nat /\ Terms'[i] >= Terms[i]
        /\ Terms' = [Terms EXCEPT ![i] = Terms'[i]]
        /\ \A e \in elected : e.term # Terms'[i]
        /\ elected' = elected \cup {[term |-> Terms'[i], leader |-> i]}
    BY <1>1, <1>2, <1>3, <1>6, <1>7
  <1>. QED BY <1>4, <1>6, <1>8, Zenon DEF Leaders!Next, Leaders!Win, Terms, LeadsOf, LeaderOf

\* The abstract step of a node that took up a leader.
LEMMA JoinsLeads ==
    ASSUME NEW i \in Node, NEW d, Moves(i, d), Joins(i, node[i], d)
    PROVE  Leaders!Next
  <1>. DEFINE n == node[i]
              t == d.currentTerm
  <1>1. /\ node'[i] = d /\ \A j \in Node : j # i => node'[j] = node[j]
        /\ n.currentTerm \in Nat /\ t \in Nat
        /\ elected' = IF d.role = "Leader"
                      THEN elected \cup {[term |-> t, leader |-> i]} ELSE elected
    BY MovesElected, Zenon
  <1>2. PICK e \in elected : /\ e.leader # i /\ n.currentTerm <= e.term
                             /\ t = e.term /\ d.leaderID = e.leader /\ d.role = "Follower"
    BY DEF Joins
  <1>3. /\ Terms' = [Terms EXCEPT ![i] = t] /\ Terms[i] = n.currentTerm
        /\ LeadsOf' = IF d.role = "Leader" THEN LeadsOf \cup {i} ELSE LeadsOf \ {i}
        /\ LeaderOf' = [LeaderOf EXCEPT ![i] = d.leaderID]
    BY <1>1, OfficeSeen
  <1>4. elected' = elected /\ LeadsOf' = LeadsOf \ {i}
    BY <1>1, <1>2, <1>3
  <1>5. e.term >= Terms[i]
    BY <1>1, <1>2, <1>3
  <1>6. Leaders!Follow(i, e)
    BY <1>2, <1>3, <1>4, <1>5, Zenon DEF Leaders!Follow, Terms, LeadsOf, LeaderOf
  <1>. QED BY <1>6, Zenon DEF Leaders!Next

\* The abstract step of a node that restarted.
LEMMA RestartLeads ==
    ASSUME NEW i \in Node, NEW r, Moves(i, NewRaftNode(r))
    PROVE  Leaders!Next
  <1>. DEFINE n == node[i]
              d == NewRaftNode(r)
              t == d.currentTerm
  <1>0. d.role = "Follower" /\ d.leaderID = None
    BY DEF NewRaftNode
  <1>. HIDE DEF d
  <1>1. /\ node'[i] = d /\ \A j \in Node : j # i => node'[j] = node[j]
        /\ n.currentTerm \in Nat /\ t \in Nat /\ n.currentTerm <= t
        /\ elected' = IF d.role = "Leader"
                      THEN elected \cup {[term |-> t, leader |-> i]} ELSE elected
    BY MovesElected, Zenon DEF d
  <1>3. /\ Terms' = [Terms EXCEPT ![i] = t] /\ Terms'[i] = t /\ Terms[i] = n.currentTerm
        /\ LeadsOf' = IF d.role = "Leader" THEN LeadsOf \cup {i} ELSE LeadsOf \ {i}
        /\ LeaderOf' = [LeaderOf EXCEPT ![i] = d.leaderID]
    BY <1>1, OfficeSeen
  <1>4. elected' = elected /\ LeadsOf' = LeadsOf \ {i} /\ t >= Terms[i]
    BY <1>0, <1>1, <1>3
  <1>5. /\ Terms'[i] \in Nat /\ Terms'[i] >= Terms[i]
        /\ Terms' = [Terms EXCEPT ![i] = Terms'[i]]
        /\ LeaderOf' = [LeaderOf EXCEPT ![i] = None]
    BY <1>0, <1>1, <1>3, <1>4
  <1>. QED BY <1>4, <1>5, Zenon DEF Leaders!Next, Leaders!Restart, Terms, LeadsOf, LeaderOf

\* What Stays, Rises and Joins say of the handler's last state they say of the
\* state it leaves.
LEMMA DoneOffice ==
    ASSUME NEW i, NEW n, NEW r \in NodeState, Stays(n, r) \/ Rises(n, r) \/ Joins(i, n, r)
    PROVE  Stays(n, Done(r)) \/ Rises(n, Done(r)) \/ Joins(i, n, Done(r))
  <1>. DEFINE d == Done(r)
  <1>1. d.role = r.role /\ d.currentTerm = r.currentTerm /\ d.leaderID = r.leaderID
    BY DEF Done, NodeState
  <1>. HIDE DEF d
  <1>2. Stays(n, r) => Stays(n, d)
    BY <1>1 DEF Stays
  <1>3. Rises(n, r) => Rises(n, d)
    BY <1>1 DEF Rises
  <1>4. Joins(i, n, r) => Joins(i, n, d)
    BY <1>1 DEF Joins
  <1>. QED BY <1>2, <1>3, <1>4 DEF d

\* Of a node that moved, this is what becomes of its office.
LEMMA OfficeCases ==
    ASSUME FaultyDisk = FALSE, TypeOK, ElectionInv, LogInv, [Next]_vars
    PROVE  \/ \E i \in Node : \E d : /\ Moves(i, d)
                                     /\ Stays(node[i], d) \/ Rises(node[i], d) \/ Joins(i, node[i], d)
           \/ \E i \in Node : \E r : Moves(i, NewRaftNode(r))
           \/ Idle
  <1>1. ASSUME NEW i \in Node, NEW r, NEW handled, NEW told, Ran(i, r, handled, told)
        PROVE  \E d : /\ Moves(i, d)
                      /\ Stays(node[i], d) \/ Rises(node[i], d) \/ Joins(i, node[i], d)
    <2>1. r \in NodeState /\ Moves(i, Done(r))
      BY <1>1 DEF Ran, Runs
    <2>2. Stays(node[i], r) \/ Rises(node[i], r) \/ Joins(i, node[i], r)
      BY <1>1, RanOffice
    <2>. QED BY <2>1, <2>2, DoneOffice
  <1>2. ASSUME NEW i \in Node, NEW n, NEW r, NEW handled, NEW told,
               Died(i, n, r, handled, told)
        PROVE  Moves(i, NewRaftNode(r))
    BY <1>2 DEF Died, Falls
  <1>. QED BY <1>1, <1>2, NextCases

LEMMA NextElected ==
    ASSUME FaultyDisk = FALSE
    PROVE  TypeOK /\ ElectionInv /\ LogInv /\ ElectedPast /\ [Next]_vars => ElectedPast'
  <1>. SUFFICES ASSUME TypeOK, ElectionInv, LogInv, ElectedPast, [Next]_vars
                PROVE  ElectedPast'
    OBVIOUS
  <1>1. ASSUME NEW i \in Node, NEW d, Moves(i, d),
               Stays(node[i], d) \/ Rises(node[i], d) \/ Joins(i, node[i], d)
        PROVE  ElectedPast'
    <2>1. node[i].role \in {"Follower", "Candidate", "Leader"}
      BY DEF TypeOK, NodeState, Role
    <2>2. d.currentTerm = node[i].currentTerm /\ node[i].role # "Candidate"
          => d.role # "Candidate"
      BY <1>1, <2>1 DEF Stays, Rises, Joins
    <2>. QED BY <1>1, <2>2, ElectedStep
  <1>2. ASSUME NEW i \in Node, NEW r, Moves(i, NewRaftNode(r)) PROVE ElectedPast'
    <2>1. NewRaftNode(r).role # "Candidate"
      BY DEF NewRaftNode
    <2>. QED BY <1>2, <2>1, ElectedStep
  <1>3. CASE Idle
    BY <1>3 DEF Idle, ElectedPast
  <1>. QED BY <1>1, <1>2, <1>3, OfficeCases

LEMMA NextLeads ==
    ASSUME FaultyDisk = FALSE
    PROVE  TypeOK /\ ElectionInv /\ LogInv /\ ElectedPast /\ ElectionSafety' /\ [Next]_vars
           => [Leaders!Next]_<<Terms, LeadsOf, LeaderOf, elected>>
  <1>. SUFFICES ASSUME TypeOK, ElectionInv, LogInv, ElectedPast, ElectionSafety', [Next]_vars
                PROVE  Leaders!Next \/ UNCHANGED <<Terms, LeadsOf, LeaderOf, elected>>
    OBVIOUS
  <1>1. ASSUME NEW i \in Node, NEW d, Moves(i, d),
               Stays(node[i], d) \/ Rises(node[i], d) \/ Joins(i, node[i], d)
        PROVE  Leaders!Next \/ UNCHANGED <<Terms, LeadsOf, LeaderOf, elected>>
    BY <1>1, StaysLeads, RisesLeads, JoinsLeads
  <1>2. ASSUME NEW i \in Node, NEW r, Moves(i, NewRaftNode(r)) PROVE Leaders!Next
    BY <1>2, RestartLeads
  <1>3. CASE Idle
    BY <1>3 DEF Idle, Terms, LeadsOf, LeaderOf
  <1>. QED BY <1>1, <1>2, <1>3, OfficeCases

LEMMA InitLeads == Init => Leaders!Init /\ ElectedPast
  <1>. SUFFICES ASSUME Init PROVE Leaders!Init /\ ElectedPast
    OBVIOUS
  <1>1. elected = {}
    BY DEF Init
  <1>2. \A j \in Node : /\ node[j].currentTerm \in Nat /\ node[j].leaderID \in Node \cup {None}
                        /\ node[j].role # "Leader"
    BY DEF Init, NewRaftNode, EmptyDisk
  <1>3. Terms \in [Node -> Nat] /\ LeaderOf \in [Node -> Node \cup {None}] /\ LeadsOf = {}
    BY <1>2 DEF Terms, LeaderOf, LeadsOf
  <1>4. Leaders!Init
    BY <1>1, <1>3, Zenon DEF Leaders!Init, Terms, LeaderOf, LeadsOf
  <1>. QED BY <1>1, <1>4 DEF ElectedPast

\* checkTerm, campaignLocked, becomeLeader and HandleAppendEntries implement
\* Leadership: a term has one leader, no node goes back to an earlier term or
\* follows a node that was not elected in the term it is in.
THEOREM ImplementsLeadership ==
    ASSUME FaultyDisk = FALSE
    PROVE  Spec => LeadershipPromise
  <1>1. TypeOK /\ ElectionInv /\ LogInv /\ ElectedPast /\ ElectionSafety' /\ [Next]_vars
        => [Leaders!Next]_(Leaders!view)
    BY NextLeads DEF Leaders!view, Terms, LeadsOf, LeaderOf
  <1>. QED BY <1>1, InitLeads, NextElected, TypeCorrect, ElectionInvariant, LogInvariantHolds,
              OneLeaderPerTerm, PTL DEF Spec, LeadershipPromise, Leaders!Spec

-----------------------------------------------------------------------------
(* A cluster of one.                                                         *)

\* Node n has applied its whole log if it leads.
Serving(n) == n.role = "Leader" => n.lastApplied = Len(n.log)

\* A leader without peers sends nothing.
LEMMA NobodyToCall ==
    ASSUME NEW n \in NodeState, NEW i \in Node, Peers(i) = {}
    PROVE  LET r == BroadcastAppendEntries(i, n)
           IN  /\ r.out = n.out /\ r.role = n.role /\ r.log = n.log
               /\ r.lastApplied = n.lastApplied
  <1>. DEFINE raised == [j \in Node |-> IF j \in {} /\ n.nextIndex[j] = 0 THEN 1
                                        ELSE n.nextIndex[j]]
              m == [n EXCEPT !.nextIndex = raised]
              calls == {AppendRequestTo(i, m, j) : j \in {}}
  <1>1. calls = {}
    OBVIOUS
  <1>2. SendAppendEntries(i, n, {}) = IF n.role # "Leader" THEN n
                                      ELSE [m EXCEPT !.out = m.out \cup calls]
    BY Zenon DEF SendAppendEntries
  <1>3. /\ m.out = n.out /\ m.role = n.role /\ m.log = n.log
        /\ m.lastApplied = n.lastApplied
        /\ [m EXCEPT !.out = m.out].out = n.out /\ [m EXCEPT !.out = m.out].role = n.role
        /\ [m EXCEPT !.out = m.out].log = n.log
        /\ [m EXCEPT !.out = m.out].lastApplied = n.lastApplied
    <2>. HIDE DEF raised
    <2>. QED BY DEF NodeState
  <1>. HIDE DEF m, calls
  <1>4. m.out \cup calls = m.out
    BY <1>1
  <1>. QED BY <1>2, <1>3, <1>4 DEF BroadcastAppendEntries

\* becomeLeader in a cluster of one: the no-op is replicated as soon as it is
\* stored, and everything before it commits with it.
LEMMA SoleWinnerServes ==
    ASSUME NEW n \in NodeState, NEW i \in Node, Peers(i) = {}, n.role = "Candidate",
           CanWrite(n), n.out = {}, n.commitIndex <= Len(n.log),
           n.lastApplied = n.commitIndex
    PROVE  BecomeLeader(i, n).out = {} /\ Serving(BecomeLeader(i, n))
  <1>. DEFINE f == FreshLeader(i, n)
              g == AppendEntries(f, <<NoOpEntry(n)>>)
              h == CheckAndUpdateCommitIndex(g)
              ready == {k \in (g.commitIndex + 1)..LastIndex(g) :
                            TermAt(g, k) = g.currentTerm /\ Replicated(g, k)}
              last == Len(g.log)
              new == IF ready = {} THEN g.commitIndex ELSE Max(ready)
  <1>1. NoOpEntry(n) \in Entry /\ NoOpEntry(n).term = n.currentTerm
    BY DEF NoOpEntry, Entry, NodeState
  <1>2. f \in NodeState /\ g \in NodeState /\ h \in NodeState
    BY WinnerType
  <1>3. /\ f.log = n.log /\ f.quota = n.quota /\ f.role = "Leader" /\ f.out = n.out
        /\ f.currentTerm = n.currentTerm /\ f.commitIndex = n.commitIndex
        /\ f.lastApplied = n.lastApplied /\ f.matchIndex = NoIndex
    BY DEF FreshLeader, NodeState
  <1>4. CanWrite(f)
    BY <1>3 DEF CanWrite
  <1>. HIDE DEF f
  <1>5. /\ Extends(f.log, g.log, n.currentTerm) /\ g.role = "Leader" /\ g.out = {}
        /\ g.currentTerm = n.currentTerm /\ g.commitIndex = n.commitIndex
        /\ g.lastApplied = n.lastApplied
    BY <1>1, <1>2, <1>3, <1>4, AppendOne
  <1>. HIDE DEF g
  <1>6. /\ n.commitIndex \in Nat /\ Len(n.log) \in Nat /\ last = Len(n.log) + 1
        /\ g.log[last].term = n.currentTerm /\ LastIndex(g) = last
    BY <1>3, <1>5, LogLength DEF NodeState, Extends, LastIndex
  <1>7. Replicated(g, last)
    <2>1. Majority <= 1
      <3>1. Node = {i}
        BY DEF Peers
      <3>2. Cardinality(Node) = 1
        BY <3>1, FS_Singleton
      <3>3. 1 \div 2 + 1 <= 1
        OBVIOUS
      <3>. QED BY <3>2, <3>3 DEF Majority
    <2>2. Cardinality({j \in Node : g.matchIndex[j] >= last}) \in Nat
      BY NodeCardinality
    <2>. QED BY <2>1, <2>2, MajorityType DEF Replicated
  <1>8. TermAt(g, last) = g.currentTerm
    BY <1>5, <1>6 DEF TermAt
  <1>9. last \in ready
    BY <1>5, <1>6, <1>7, <1>8
  <1>10. ready \in SUBSET (0..last)
    BY <1>5, <1>6
  <1>11. new = last
    <2>1. last \in Nat
      BY <1>6
    <2>. HIDE DEF ready, last
    <2>2. ready # {}
      BY <1>9
    <2>3. Max(ready) \in ready /\ \A x \in ready : x <= Max(ready)
      BY <1>10, <2>1, <2>2, MaxIsGreatest
    <2>4. Max(ready) \in 0..last /\ last <= Max(ready)
      BY <1>9, <1>10, <2>3
    <2>5. Max(ready) = last
      BY <2>1, <2>4
    <2>. QED BY <2>2, <2>5
  <1>12. h = ApplyCommitted([g EXCEPT !.commitIndex = last])
    <2>1. CheckAndUpdateCommitIndex(g) =
             IF g.role # "Leader" THEN g ELSE ApplyCommitted([g EXCEPT !.commitIndex = new])
      BY DEF CheckAndUpdateCommitIndex
    <2>. HIDE DEF new, last
    <2>2. h = ApplyCommitted([g EXCEPT !.commitIndex = new])
      BY <1>5, <2>1
    <2>. HIDE DEF h
    <2>. QED BY <1>11, <2>2, Zenon
  <1>13. h.role = "Leader" /\ h.log = g.log /\ h.out = {} /\ h.lastApplied = last
    <2>1. last \in Nat /\ g.lastApplied \in Nat /\ g.lastApplied < last
      BY <1>5, <1>6
    <2>. HIDE DEF last, h
    <2>2. /\ h.role = g.role /\ h.log = g.log /\ h.out = g.out
          /\ h.lastApplied = IF g.lastApplied < last THEN last ELSE g.lastApplied
      BY <1>2, <1>12, <2>1, ApplyCommittedFields
    <2>. QED BY <1>5, <2>1, <2>2
  <1>. HIDE DEF h
  <1>14. /\ BroadcastAppendEntries(i, h).out = {}
         /\ BroadcastAppendEntries(i, h).log = g.log
         /\ BroadcastAppendEntries(i, h).lastApplied = last
    BY <1>2, <1>13, NobodyToCall
  <1>15. BecomeLeader(i, n) = BroadcastAppendEntries(i, h)
    BY Zenon DEF BecomeLeader, h, g, f
  <1>. QED BY <1>14, <1>15 DEF Serving

\* campaignLocked with all its transactions, which in a cluster of one wins.
LEMMA SoleCampaignServes ==
    ASSUME NEW n \in NodeState, NEW i \in Node, Peers(i) = {}, n.quota = MaxWrites,
           n.out = {}, n.commitIndex <= Len(n.log), n.lastApplied = n.commitIndex
    PROVE  Campaign(i, n).out = {} /\ Serving(Campaign(i, n))
  <1>. DEFINE c == Candidacy(i, n)
              s == SaveTerm(c, n.currentTerm + 1)
              m == SaveVotedFor(s, i)
  <1>1. n.currentTerm + 1 \in Nat
    BY DEF NodeState
  <1>2. /\ c \in NodeState /\ c.role = "Candidate" /\ c.quota = 4 /\ c.out = {} /\ c.log = n.log
        /\ c.commitIndex = n.commitIndex /\ c.lastApplied = n.lastApplied
    BY <1>1, ConstantType DEF Candidacy, NodeState, MaxWrites
  <1>. HIDE DEF c
  <1>3. /\ s \in NodeState /\ s.role = "Candidate" /\ s.quota = 3 /\ s.out = {} /\ s.log = n.log
        /\ s.commitIndex = n.commitIndex /\ s.lastApplied = n.lastApplied
    <2>1. s \in NodeState
      BY <1>1, <1>2, SaveType, ConstantType
    <2>. QED BY <1>2, <2>1 DEF SaveTerm, CanWrite, NodeState
  <1>. HIDE DEF s
  <1>4. /\ m \in NodeState /\ m.role = "Candidate" /\ m.quota = 2 /\ m.out = {} /\ m.log = n.log
        /\ m.commitIndex = n.commitIndex /\ m.lastApplied = n.lastApplied
    <2>1. m \in NodeState
      BY <1>3, SaveType, ConstantType
    <2>. QED BY <1>3, <2>1 DEF SaveVotedFor, CanWrite, NodeState
  <1>. HIDE DEF m
  <1>5. BecomeLeader(i, m).out = {} /\ Serving(BecomeLeader(i, m))
    <2>1. CanWrite(m)
      BY <1>4 DEF CanWrite
    <2>. QED BY <1>4, <2>1, SoleWinnerServes
  <1>6. Majority <= 1
    <2>1. Node = {i}
      BY DEF Peers
    <2>2. Cardinality(Node) = 1
      BY <2>1, FS_Singleton
    <2>3. 1 \div 2 + 1 <= 1
      OBVIOUS
    <2>. QED BY <2>2, <2>3 DEF Majority
  <1>7. Campaign(i, n) = BecomeLeader(i, m)
    BY <1>6, Zenon DEF Campaign, m, s, c
  <1>. QED BY <1>5, <1>7

\* ProposeCommand in a cluster of one: the command is applied when it is stored.
LEMMA SoleProposalServes ==
    ASSUME NEW n \in NodeState, NEW i \in Node, Peers(i) = {}, n.quota = MaxWrites,
           n.out = {}, n.lastApplied = Len(n.log), NEW c \in Command
    PROVE  ProposeCommand(i, n, c).out = {} /\ Serving(ProposeCommand(i, n, c))
  <1>. DEFINE e == [term |-> n.currentTerm, command |-> c]
              new == LastIndex(n) + 1
              g == AppendEntries(n, <<e>>)
              r == ApplyCommitted([g EXCEPT !.commitIndex = new])
  <1>1. e \in Entry
    BY DEF Entry, NodeState
  <1>2. CanWrite(n)
    BY DEF CanWrite, MaxWrites
  <1>3. /\ g \in NodeState /\ Extends(n.log, g.log, e.term) /\ g.out = {}
        /\ g.lastApplied = n.lastApplied
    BY <1>1, <1>2, AppendOne
  <1>. HIDE DEF g
  <1>4. Len(n.log) \in Nat /\ new = Len(n.log) + 1 /\ Len(g.log) = new
    BY <1>3, LogLength DEF NodeState, Extends, LastIndex
  <1>. HIDE DEF new
  <1>5. r.out = {} /\ r.log = g.log /\ r.lastApplied = new
    <2>1. new \in Nat
      BY <1>4
    <2>2. r.out = {} /\ r.log = g.log
          /\ r.lastApplied = IF g.lastApplied < new THEN new ELSE g.lastApplied
      BY <1>3, <2>1, ApplyCommittedFields
    <2>. QED BY <1>3, <1>4, <2>2
  <1>. HIDE DEF r
  <1>6. ProposeCommand(i, n, c) = r
    BY <1>2, Zenon DEF ProposeCommand, r, new, g
  <1>. QED BY <1>4, <1>5, <1>6 DEF Serving

\* No call is ever placed in a cluster of one.
SoleInv == rpcs = {} /\ \A i \in Node : Serving(node[i])

LEMMA SoleRan ==
    ASSUME TypeOK, LogInv, SoleInv, NEW i \in Node, Peers(i) = {}, NEW r, NEW handled, NEW told,
           Ran(i, r, handled, told)
    PROVE  SoleInv'
  <1>. DEFINE n == node[i]
  <1>1. /\ n \in NodeState /\ n.quota = MaxWrites /\ n.out = {} /\ Serving(n)
        /\ Node = {i}
    BY DEF TypeOK, SoleInv, Peers
  <1>2. n.commitIndex <= Len(n.log) /\ n.lastApplied = n.commitIndex
    <2>1. PICK G, A : NodeSound(G, A, Terms, committed, i, n)
      BY StateFacts
    <2>2. n.log \in Log /\ n.commitIndex \in Nat /\ n.currentTerm \in Nat
      BY <1>1 DEF NodeState
    <2>. QED BY <2>1, <2>2, SettledLength DEF NodeSound, CommitSound
  <1>3. /\ r \in NodeState /\ node'[i] = Done(r) /\ \A k \in rpcs' : k \in r.out
    BY MovesFacts DEF Ran, Runs, SoleInv
  <1>4. Done(r).role = r.role /\ Done(r).log = r.log /\ Done(r).lastApplied = r.lastApplied
    BY <1>3, DoneFields DEF SameCommit
  <1>5. r.out = {} /\ Serving(r)
    <2>1. CASE Reads(i, r, handled, told)
      <3>1. CASE r = BroadcastAppendEntries(i, n)
        BY <1>1, <3>1, NobodyToCall DEF Serving
      <3>2. CASE r = [n EXCEPT !.leaderContact = FALSE]
        BY <1>1, <3>2, ContactEndStill DEF Still, Serving
      <3>3. ASSUME NEW c \in Command, r = ProposalReturns(n, c) \/ r = ProposalTimesOut(n, c)
            PROVE  r.out = {} /\ Serving(r)
        BY <1>1, <3>3, ProposalEndStill DEF Still, Serving
      <3>. QED BY <2>1, <3>1, <3>2, <3>3 DEF Reads, SoleInv
    <2>2. CASE Writes(i, n, r, handled, told)
      <3>1. ASSUME NEW q \in Round, r = StartElection(i, n, q)
            PROVE  r.out = {} /\ Serving(r)
        <4>1. r = Campaign(i, n)
          BY <3>1, Zenon DEF StartElection
        <4>. QED BY <1>1, <1>2, <4>1, SoleCampaignServes
      <3>2. ASSUME NEW c \in Command, n.role = "Leader", r = ProposeCommand(i, n, c)
            PROVE  r.out = {} /\ Serving(r)
        BY <1>1, <3>2, SoleProposalServes DEF Serving
      <3>. QED BY <2>2, <3>1, <3>2 DEF Writes, SoleInv
    <2>. QED BY <2>1, <2>2 DEF Ran
  <1>. QED BY <1>1, <1>3, <1>4, <1>5 DEF SoleInv, Serving

\* The only node dies: it restarts as a follower.
LEMMA SoleDied ==
    ASSUME SoleInv, NEW i \in Node, Peers(i) = {}, NEW n, NEW r, NEW handled, NEW told,
           Died(i, n, r, handled, told)
    PROVE  SoleInv'
  <1>1. node'[i] = NewRaftNode(r) /\ rpcs' = {} /\ Node = {i}
    BY MovesFacts DEF Died, Falls, SoleInv, Peers
  <1>2. NewRaftNode(r).role = "Follower"
    BY DEF NewRaftNode
  <1>. QED BY <1>1, <1>2 DEF SoleInv, Serving

\* becomeLeader and ProposeCommand in a cluster of one: what the node has
\* stored is committed and applied before the handler that stored it ends, the
\* entries of its earlier lives included, so that a leader serves all of its
\* log whatever crashes came before.
THEOREM SoleLeaderServes ==
    ASSUME Cardinality(Node) = 1, FaultyDisk = FALSE
    PROVE  Spec => []SoleLeaderServesLog
  <1>1. \A i \in Node : Peers(i) = {}
    BY NodeAssumption, FS_Singleton DEF Peers
  <1>2. Init => SoleInv
    BY DEF Init, SoleInv, Serving, NewRaftNode
  <1>3. TypeOK /\ ElectionInv /\ LogInv /\ SoleInv /\ [Next]_vars => SoleInv'
    <2>. SUFFICES ASSUME TypeOK, ElectionInv, LogInv, SoleInv, [Next]_vars PROVE SoleInv'
      OBVIOUS
    <2>1. CASE Idle
      BY <2>1 DEF Idle, SoleInv
    <2>. QED BY <1>1, <2>1, NextCases, SoleRan, SoleDied
  <1>4. SoleInv => SoleLeaderServesLog
    BY DEF SoleInv, Serving, SoleLeaderServesLog, LastIndex
  <1>. QED BY <1>2, <1>3, <1>4, TypeCorrect, ElectionInvariant, LogInvariantHolds, PTL DEF Spec

-----------------------------------------------------------------------------
(* Pre-vote.  What a node trusts: its term, its role, whether a leader has   *)
(* made contact, and its pre-vote rounds.                                    *)

Deaf(n) == n.role # "Leader" /\ ~n.leaderContact

PreCall(m) == m.type \in {"PreVote", "PreVoteResponse"}

SameRound(k, m) == k.caller = m.caller /\ k.peer = m.peer /\ k.round = m.round

\* In term 1, on disk as in memory, and not standing for the next one.
Undisturbed(n) == n.currentTerm = 1 /\ n.diskTerm = 1 /\ n.role # "Candidate"

\* Call m cannot make anyone raise its term.
Mild(m) == /\ ~VoteCall(m)
           /\ m.type # "PreVote" => m.term <= 1
           /\ PreCall(m) => m.caller # m.peer

\* The nodes outside Q[i] from which i expects no answer in its round q.
Told(Q, i, q) ==
    {j \in Node \ Q[i] : ~\E m \in rpcs : PreCall(m) /\ m.caller = i /\ m.peer = j /\ m.round = q}

\* A node that does not hear from the leader knows that every node of Q of it does.
Hears(Q) == \A i \in Node : Deaf(node[i]) => \A j \in Q[i] : ~Deaf(node[j])

\* Everyone is undisturbed, and will stay so: an answer that grants a pre-vote
\* is from a deaf node, hence from outside the majority Q of the caller, and a
\* round counts no node twice.
StableInv(Q) ==
    /\ \A i \in Node : Undisturbed(node[i])
    /\ \A m \in rpcs : Mild(m)
    /\ \A k, m \in rpcs : PreCall(k) /\ PreCall(m) /\ SameRound(k, m)
                          /\ node[k.caller].preVotes[k.round] > 0 => k = m
    /\ \A m \in rpcs : /\ m.type = "PreVoteResponse" /\ m.granted
                       /\ node[m.caller].preVotes[m.round] > 0
                       => m.peer \notin Q[m.caller]
    /\ \A i \in Node, q \in Round : node[i].preVotes[q] > 0 =>
          Deaf(node[i]) /\ node[i].preVotes[q] <= Cardinality(Told(Q, i, q))

\* r trusts what n trusted.
SameTrust(n, r) ==
    /\ r.role = n.role /\ r.currentTerm = n.currentTerm /\ r.diskTerm = n.diskTerm
    /\ r.leaderContact = n.leaderContact /\ r.preVotes = n.preVotes

\* n calls nobody but with AppendEntries of its term.
Appends(n) == \A k \in n.out : IsAppend(k) /\ k.term = n.currentTerm

Steady(n, r) == SameTrust(n, r) /\ Appends(r)

LEMMA SteadyTrans ==
    ASSUME NEW n, NEW m, NEW r, SameTrust(n, m), Steady(m, r)
    PROVE  Steady(n, r)
  BY DEF Steady, SameTrust

\* What concerns the log or the commit index.
LEMMA LogSteady ==
    ASSUME NEW n \in NodeState, Appends(n), NEW entries, NEW k
    PROVE  /\ Steady(n, n)
           /\ Steady(n, AppendEntries(n, entries)) /\ Steady(n, TruncateFrom(n, k))
           /\ Steady(n, ApplyCommitted([n EXCEPT !.commitIndex = k]))
           /\ Steady(n, CheckAndUpdateCommitIndex(n))
  <1>1. Steady(n, n)
    BY DEF Steady, SameTrust
  <1>2. Steady(n, AppendEntries(n, entries)) /\ Steady(n, TruncateFrom(n, k))
    BY DEF Steady, SameTrust, Appends, AppendEntries, TruncateFrom, NodeState
  <1>3. \A l : Steady(n, ApplyCommitted([n EXCEPT !.commitIndex = l]))
    BY DEF Steady, SameTrust, Appends, ApplyCommitted, NodeState
  <1>4. Steady(n, CheckAndUpdateCommitIndex(n))
    BY <1>1, <1>3, Zenon DEF CheckAndUpdateCommitIndex
  <1>. QED BY <1>1, <1>2, <1>3, <1>4

\* A leader that sends.
LEMMA SendSteady ==
    ASSUME NEW n \in NodeState, Appends(n), NEW i, NEW js
    PROVE  Steady(n, SendAppendEntries(i, n, js))
  <1>. DEFINE raised == [j \in Node |-> IF j \in js /\ n.nextIndex[j] = 0 THEN 1
                                        ELSE n.nextIndex[j]]
              m == [n EXCEPT !.nextIndex = raised]
              calls == {AppendRequestTo(i, m, j) : j \in js}
              r == [m EXCEPT !.out = m.out \cup calls]
  <1>1. m.out = n.out /\ m.currentTerm = n.currentTerm /\ SameTrust(n, m)
    <2>. HIDE DEF raised
    <2>. QED BY DEF NodeState, SameTrust
  <1>2. \A c \in calls : IsAppend(c) /\ c.term = n.currentTerm
    <2>. HIDE DEF m
    <2>1. \A j : /\ AppendRequestTo(i, m, j).type = "AppendEntries"
                 /\ AppendRequestTo(i, m, j).term = m.currentTerm
      BY DEF AppendRequestTo
    <2>. QED BY <1>1, <2>1 DEF IsAppend
  <1>3. SameTrust(m, r) /\ r.out = n.out \cup calls
    <2>. HIDE DEF raised, calls
    <2>. QED BY DEF NodeState, SameTrust
  <1>4. SendAppendEntries(i, n, js) = IF n.role # "Leader" THEN n ELSE r
    BY Zenon DEF SendAppendEntries
  <1>. HIDE DEF m, calls, r
  <1>5. Steady(n, r)
    BY <1>1, <1>2, <1>3 DEF Steady, SameTrust, Appends
  <1>. QED BY <1>4, <1>5, LogSteady

\* The handlers of a leader, which hears of no later term.
LEMMA LeaderSteady ==
    ASSUME NEW n \in NodeState, n.out = {}, NEW i \in Node
    PROVE  /\ Steady(n, BroadcastAppendEntries(i, n))
           /\ \A m \in AppendResponse : m.term <= n.currentTerm =>
                 Steady(n, HandleAppendEntriesResponse(i, n, m))
           /\ \A c \in Command : /\ Steady(n, ProposeCommand(i, n, c))
                                 /\ Steady(n, ProposalReturns(n, c))
                                 /\ Steady(n, ProposalTimesOut(n, c))
  <1>0. Appends(n)
    BY DEF Appends
  <1>1. Steady(n, BroadcastAppendEntries(i, n))
    BY <1>0, SendSteady DEF BroadcastAppendEntries
  <1>2. ASSUME NEW m \in AppendResponse, m.term <= n.currentTerm
        PROVE  Steady(n, HandleAppendEntriesResponse(i, n, m))
    <2>. DEFINE j == m.peer
                match == m.prevLogIndex + m.numEntries
                advanced == [n EXCEPT !.nextIndex[j] = IF match + 1 > @ THEN match + 1 ELSE @,
                                      !.matchIndex[j] = IF match > @ THEN match ELSE @]
                retreated == [n EXCEPT !.nextIndex[j] = @ - 1]
                r == HandleAppendEntriesResponse(i, n, m)
    <2>0. ~(m.term > n.currentTerm)
      BY <1>2 DEF AppendResponse, NodeState
    <2>1. advanced \in NodeState /\ (n.nextIndex[j] > 1 => retreated \in NodeState)
      BY ResponseType, Zenon
    <2>2. /\ SameTrust(n, advanced) /\ SameTrust(n, retreated)
          /\ advanced.out = {} /\ retreated.out = {}
      BY DEF SameTrust, NodeState
    <2>3. \/ r = n \/ r = CheckAndUpdateCommitIndex(advanced)
          \/ n.nextIndex[j] > 1 /\ r = SendAppendEntries(i, retreated, {j})
      BY <2>0, Zenon DEF HandleAppendEntriesResponse
    <2>. HIDE DEF advanced, retreated, r
    <2>4. Appends(advanced) /\ Appends(retreated)
      BY <2>2 DEF Appends
    <2>5. /\ Steady(advanced, CheckAndUpdateCommitIndex(advanced))
          /\ n.nextIndex[j] > 1 => Steady(retreated, SendAppendEntries(i, retreated, {j}))
      BY <2>1, <2>4, LogSteady, SendSteady
    <2>6. Steady(n, n) /\ Steady(n, CheckAndUpdateCommitIndex(advanced))
      BY <1>0, <2>2, <2>5, SteadyTrans, LogSteady
    <2>7. n.nextIndex[j] > 1 => Steady(n, SendAppendEntries(i, retreated, {j}))
      BY <2>2, <2>5, SteadyTrans
    <2>8. Steady(n, r)
      BY <2>3, <2>6, <2>7
    <2>. QED BY <2>8 DEF r
  <1>3. ASSUME NEW c \in Command PROVE Steady(n, ProposeCommand(i, n, c))
    <2>. DEFINE new == LastIndex(n) + 1
                m == AppendEntries(n, <<[term |-> n.currentTerm, command |-> c]>>)
                waits == [m EXCEPT !.pendingCommits = {d \in @ : n.newIndex[d] # new} \cup {c},
                                   !.newIndex[c] = new, !.commitCh[c] = "empty"]
                r == ProposeCommand(i, n, c)
    <2>1. m \in NodeState /\ waits \in NodeState
      BY ProposedType, Zenon
    <2>2. Steady(n, m)
      BY <1>0, LogSteady
    <2>. HIDE DEF m, new
    <2>3. SameTrust(m, waits) /\ waits.out = m.out
      BY <2>1 DEF SameTrust, NodeState
    <2>4. \/ r = n \/ r = ApplyCommitted([m EXCEPT !.commitIndex = new])
          \/ r = BroadcastAppendEntries(i, waits)
      BY Zenon DEF ProposeCommand, m, new
    <2>. HIDE DEF waits, r
    <2>5. Appends(m) /\ Appends(waits) /\ SameTrust(n, waits) /\ SameTrust(n, m)
      BY <2>2, <2>3 DEF Steady, SameTrust, Appends
    <2>6. /\ Steady(m, ApplyCommitted([m EXCEPT !.commitIndex = new]))
          /\ Steady(waits, BroadcastAppendEntries(i, waits))
      BY <2>1, <2>5, LogSteady, SendSteady DEF BroadcastAppendEntries
    <2>7. Steady(n, r)
      BY <1>0, <2>4, <2>5, <2>6, SteadyTrans, LogSteady
    <2>. QED BY <2>7 DEF r
  <1>4. ASSUME NEW c \in Command
        PROVE  Steady(n, ProposalReturns(n, c)) /\ Steady(n, ProposalTimesOut(n, c))
    BY DEF Steady, SameTrust, Appends, NodeState, ProposalReturns, ProposalTimesOut
  <1>. QED BY <1>1, <1>2, <1>3, <1>4

\* HandleAppendEntries, of no later term: the contact ends every pre-vote round.
LEMMA FollowerSteady ==
    ASSUME NEW n \in NodeState, n.out = {}, n.role # "Candidate", NEW m \in AppendRequest,
           m.term <= n.currentTerm
    PROVE  LET r == HandleAppendEntries(n, m)
           IN  /\ r.role = n.role /\ r.currentTerm = n.currentTerm /\ r.diskTerm = n.diskTerm
               /\ Appends(r)
               /\ \/ r.leaderContact = n.leaderContact /\ r.preVotes = n.preVotes
                  \/ r.preVotes = NoRounds
  <1>. DEFINE f == AcceptLeader(n, m)
              g == Reconcile(f, m)
              h == FollowerCommit(g, m)
              r == HandleAppendEntries(n, m)
  <1>1. \A q \in NodeState : \A success : SameTrust(q, AppendReply(q, m, success))
                                          /\ Appends(AppendReply(q, m, success))
    <2>. SUFFICES ASSUME NEW q \in NodeState, NEW success
                  PROVE  SameTrust(q, AppendReply(q, m, success))
                         /\ Appends(AppendReply(q, m, success))
      OBVIOUS
    <2>. DEFINE reply == [type |-> "AppendEntriesResponse", caller |-> m.caller, peer |-> m.peer,
                          reqTerm |-> m.term, prevLogIndex |-> m.prevLogIndex,
                          numEntries |-> Len(m.entries), term |-> q.currentTerm,
                          success |-> success]
                o == IF ~m.open THEN {} ELSE {reply}
    <2>1. \A k \in o : IsAppend(k) /\ k.term = q.currentTerm
      BY DEF IsAppend
    <2>2. AppendReply(q, m, success) = [q EXCEPT !.out = o]
      BY Zenon DEF AppendReply
    <2>. HIDE DEF o
    <2>. QED BY <2>1, <2>2 DEF SameTrust, Appends, NodeState
  <1>2. f \in NodeState /\ g \in NodeState /\ h \in NodeState
    BY AcceptLeaderType, ReconcileType, FollowerCommitType
  <1>3. /\ f.role = n.role /\ f.currentTerm = n.currentTerm /\ f.diskTerm = n.diskTerm
        /\ f.preVotes = NoRounds /\ Appends(f)
    <2>1. ~(m.term > n.currentTerm)
      BY BatchValues DEF NodeState
    <2>2. CheckTerm(n, m.term) = n
      BY <2>1, Zenon DEF CheckTerm
    <2>3. f = [n EXCEPT !.role = IF @ = "Candidate" THEN "Follower" ELSE @,
                        !.votesReceived = 0, !.preVotes = NoRounds,
                        !.leaderID = m.caller, !.leaderContact = TRUE]
      BY <2>2, Zenon DEF AcceptLeader
    <2>. QED BY <2>3 DEF NodeState, Appends
  <1>. HIDE DEF f
  <1>4. Steady(f, g)
    <2>1. \A l : Steady(f, AppendEntries(f, l))
      BY <1>2, <1>3, LogSteady
    <2>2. \A k, l : Steady(f, AppendEntries(TruncateFrom(f, k), l))
      BY <1>2, <1>3 DEF Steady, SameTrust, Appends, AppendEntries, TruncateFrom, NodeState
    <2>3. Steady(f, f)
      BY <1>2, <1>3, LogSteady
    <2>. QED BY <2>1, <2>2, <2>3, Zenon DEF Reconcile, g
  <1>. HIDE DEF g
  <1>5. Steady(g, h)
    <2>1. Appends(g)
      BY <1>4 DEF Steady
    <2>2. Steady(g, g) /\ \A k : Steady(g, ApplyCommitted([g EXCEPT !.commitIndex = k]))
      BY <1>2, <2>1, LogSteady
    <2>. QED BY <2>2, Zenon DEF FollowerCommit, h
  <1>. HIDE DEF h
  <1>6. \/ r = AppendReply(n, m, FALSE) \/ r = AppendReply(f, m, FALSE)
        \/ r = AppendReply(g, m, FALSE) \/ r = AppendReply(h, m, TRUE)
    BY Zenon DEF HandleAppendEntries, f, g, h
  <1>. HIDE DEF r
  <1>7. Appends(r) /\ \E q \in {n, f, g, h} : SameTrust(q, r)
    BY <1>1, <1>2, <1>6
  <1>8. SameTrust(f, g) /\ SameTrust(g, h)
    BY <1>4, <1>5 DEF Steady
  <1>9. /\ r.role = n.role /\ r.currentTerm = n.currentTerm /\ r.diskTerm = n.diskTerm
        /\ \/ r.leaderContact = n.leaderContact /\ r.preVotes = n.preVotes
           \/ r.preVotes = NoRounds
    BY <1>3, <1>7, <1>8 DEF SameTrust
  <1>. QED BY <1>7, <1>9 DEF r

\* What node i leaves it as it was, apart from its rounds.
Untroubled(n, r) ==
    r.role = n.role /\ r.currentTerm = n.currentTerm /\ r.diskTerm = n.diskTerm

\* handlePreVoteLocked.
LEMMA HandlePreVoteTrust ==
    ASSUME NEW n \in NodeState, NEW m \in VoteRequest, m.type = "PreVote"
    PROVE  LET r == HandlePreVote(n, m)
           IN  /\ SameTrust(n, r)
               /\ \A k \in r.out : /\ k.type = "PreVoteResponse" /\ SameRound(k, m)
                                   /\ k.term = n.currentTerm /\ (k.granted => Deaf(n))
               /\ \A k, l \in r.out : k = l
  <1>. DEFINE granted == /\ m.term > n.currentTerm
                         /\ n.role # "Leader" /\ ~n.leaderContact
                         /\ CandidateLogUpToDate(n, m)
              reply == [type |-> IF m.type = "PreVote" THEN "PreVoteResponse"
                                 ELSE "RequestVoteResponse",
                        caller |-> m.caller, peer |-> m.peer, reqTerm |-> m.term,
                        round |-> m.round, term |-> n.currentTerm, granted |-> granted]
              o == IF ~m.open THEN {} ELSE {reply}
              r == [n EXCEPT !.out = o]
  <1>1. granted => Deaf(n)
    BY DEF Deaf
  <1>2. HandlePreVote(n, m) = r
    BY Zenon DEF HandlePreVote, VoteReply
  <1>. HIDE DEF granted
  <1>3. /\ reply.type = "PreVoteResponse" /\ SameRound(reply, m)
        /\ reply.term = n.currentTerm /\ reply.granted = granted
    BY DEF SameRound
  <1>4. \A k \in o : k = reply
    OBVIOUS
  <1>. HIDE DEF reply, o
  <1>5. SameTrust(n, r) /\ r.out = o
    BY DEF SameTrust, NodeState
  <1>. HIDE DEF r
  <1>. QED BY <1>1, <1>2, <1>3, <1>4, <1>5

\* startElection, where there is somebody to ask.
LEMMA StartElectionTrust ==
    ASSUME NEW n \in NodeState, NEW i \in Node, NEW q \in Round, Peers(i) # {}
    PROVE  LET r == StartElection(i, n, q)
           IN  /\ Untroubled(n, r) /\ r.leaderContact = n.leaderContact
               /\ r.preVotes[q] = 1 /\ \A p \in Round : p # q => r.preVotes[p] = n.preVotes[p]
               /\ \A k \in r.out : /\ k.type = "PreVote" /\ k.caller = i /\ k.peer # i
                                   /\ k.round = q
               /\ \A k, l \in r.out : k.peer = l.peer => k = l
  <1>. DEFINE call(j) == [type |-> "PreVote", caller |-> i, peer |-> j, open |-> TRUE,
                          term |-> n.currentTerm + 1, round |-> q,
                          lastLogIndex |-> LastIndex(n), lastLogTerm |-> LastTerm(n)]
              calls == VoteRequests(i, n, "PreVote", n.currentTerm + 1, q)
              r == [n EXCEPT !.preVotes[q] = 1, !.out = calls]
  <1>1. \A j : /\ call(j).type = "PreVote" /\ call(j).caller = i /\ call(j).peer = j
               /\ call(j).round = q
    OBVIOUS
  <1>2. \A k \in calls : \E j \in Node \ {i} : k = call(j)
    BY Zenon DEF VoteRequests, Peers
  <1>3. StartElection(i, n, q) = r
    BY Zenon DEF StartElection
  <1>. HIDE DEF call, calls
  <1>4. /\ r.role = n.role /\ r.currentTerm = n.currentTerm /\ r.diskTerm = n.diskTerm
        /\ r.leaderContact = n.leaderContact /\ r.out = calls
        /\ r.preVotes = [n.preVotes EXCEPT ![q] = 1]
    BY DEF NodeState
  <1>. HIDE DEF r
  <1>5. r.preVotes[q] = 1 /\ \A p \in Round : p # q => r.preVotes[p] = n.preVotes[p]
    <2>1. n.preVotes \in [Round -> Nat]
      BY DEF NodeState, Tally
    <2>. QED BY <1>4, <2>1
  <1>. QED BY <1>1, <1>2, <1>3, <1>4, <1>5 DEF Untroubled

\* The goroutine of startElection, as long as its answer is not decisive.
LEMMA CountTrust ==
    ASSUME NEW n \in NodeState, n.out = {}, NEW i \in Node, NEW m \in VoteResponse,
           m.term <= n.currentTerm,
           m.granted /\ n.preVotes[m.round] > 0 => n.preVotes[m.round] + 1 < Majority
    PROVE  LET r == HandlePreVoteResponse(i, n, m)
           IN  /\ Untroubled(n, r) /\ r.leaderContact = n.leaderContact /\ r.out = {}
               /\ \/ r.preVotes = n.preVotes
                  \/ /\ n.role # "Leader" /\ m.granted /\ n.preVotes[m.round] > 0
                     /\ r.preVotes[m.round] = n.preVotes[m.round] + 1
                     /\ \A p \in Round : p # m.round => r.preVotes[p] = n.preVotes[p]
  <1>. DEFINE v == n.preVotes[m.round]
              counted == [n EXCEPT !.preVotes[m.round] = @ + 1]
              r == HandlePreVoteResponse(i, n, m)
  <1>1. ~(m.term > n.currentTerm) /\ m.round \in Round
    BY DEF VoteResponse, NodeState
  <1>2. n.preVotes \in [Round -> Nat]
    BY DEF NodeState, Tally
  <1>3. v \in Nat
    BY <1>1, <1>2
  <1>4. /\ counted.role = n.role /\ counted.currentTerm = n.currentTerm
        /\ counted.diskTerm = n.diskTerm /\ counted.leaderContact = n.leaderContact
        /\ counted.out = {} /\ counted.preVotes = [n.preVotes EXCEPT ![m.round] = v + 1]
    BY DEF NodeState
  <1>. HIDE DEF counted
  <1>5. /\ counted.preVotes[m.round] = v + 1
        /\ \A p \in Round : p # m.round => counted.preVotes[p] = n.preVotes[p]
    BY <1>1, <1>2, <1>4
  <1>6. \/ r = n
        \/ /\ n.role # "Leader" /\ v # 0 /\ m.granted
           /\ r = IF counted.preVotes[m.round] >= Majority THEN Campaign(i, counted) ELSE counted
    BY <1>1, Zenon DEF HandlePreVoteResponse, counted
  <1>7. m.granted /\ v # 0 => v > 0 /\ ~(counted.preVotes[m.round] >= Majority)
    BY <1>3, <1>5, MajorityType
  <1>8. r = n \/ (n.role # "Leader" /\ v > 0 /\ m.granted /\ r = counted)
    BY <1>6, <1>7
  <1>. HIDE DEF r
  <1>9. /\ Untroubled(n, r) /\ r.leaderContact = n.leaderContact /\ r.out = {}
        /\ \/ r.preVotes = n.preVotes
           \/ /\ n.role # "Leader" /\ m.granted /\ v > 0
              /\ r.preVotes[m.round] = v + 1
              /\ \A p \in Round : p # m.round => r.preVotes[p] = n.preVotes[p]
    BY <1>4, <1>5, <1>8 DEF Untroubled
  <1>. QED BY <1>9 DEF r, v

-----------------------------------------------------------------------------
(* What a step does to StableInv.                                            *)

LEMMA StableFacts ==
    ASSUME TypeOK, NEW Q, StableInv(Q)
    PROVE  /\ \A i \in Node : /\ node[i] \in NodeState /\ node[i].out = {} /\ Undisturbed(node[i])
                              /\ \A q \in Round : node[i].preVotes[q] \in Nat
           /\ \A m \in rpcs : /\ m \in Message /\ m.caller \in Node /\ m.peer \in Node /\ Mild(m)
                              /\ PreCall(m) => m.round \in Round
  <1>1. \A i \in Node : node[i] \in NodeState /\ node[i].out = {} /\ Undisturbed(node[i])
    BY DEF TypeOK, StableInv
  <1>2. \A i \in Node, q \in Round : node[i].preVotes[q] \in Nat
    BY <1>1 DEF NodeState, Tally
  <1>3. \A m \in rpcs : /\ m \in Message /\ m.caller \in Node /\ m.peer \in Node /\ Mild(m)
    BY MessageKind DEF TypeOK, StableInv
  <1>4. \A m \in rpcs : PreCall(m) => m.round \in Round
    BY <1>3, MessageKind DEF PreCall, VoteRequest, VoteResponse
  <1>. QED BY <1>1, <1>2, <1>3, <1>4

\* Who has been told is outside Q, and there are few of those.
LEMMA ToldCardinality ==
    ASSUME NEW Q \in [Node -> SUBSET Node], NEW i \in Node, NEW q,
           Cardinality(Q[i]) >= Majority
    PROVE  /\ IsFiniteSet(Told(Q, i, q)) /\ Cardinality(Told(Q, i, q)) \in Nat
           /\ \A j \in Node \ Q[i] : j \notin Told(Q, i, q)
                 => Cardinality(Told(Q, i, q)) + 1 < Majority
  <1>. DEFINE T == Told(Q, i, q)
              R == Node \ Q[i]
  <1>1. T \in SUBSET R /\ R \in SUBSET Node /\ Q[i] \in SUBSET Node
    BY DEF Told
  <1>. HIDE DEF T
  <1>2. /\ IsFiniteSet(T) /\ IsFiniteSet(R) /\ IsFiniteSet(Q[i]) /\ IsFiniteSet(Node)
        /\ Cardinality(T) \in Nat /\ Cardinality(R) \in Nat /\ Cardinality(Q[i]) \in Nat
        /\ Cardinality(Node) \in Nat
    BY <1>1, NodeCardinality, NodeAssumption
  <1>3. Cardinality(R) = Cardinality(Node) - Cardinality(Q[i])
    BY <1>1, <1>2, FS_Difference
  <1>4. Cardinality(R) < Majority
    BY <1>2, <1>3, MajorityType
  <1>5. ASSUME NEW j \in R, j \notin T PROVE Cardinality(T) + 1 < Majority
    <2>1. T \cup {j} \in SUBSET R
      BY <1>1, <1>5
    <2>2. Cardinality(T \cup {j}) <= Cardinality(R)
      BY <1>1, <2>1, NodeCardinality
    <2>3. Cardinality(T \cup {j}) = Cardinality(T) + 1
      BY <1>2, <1>5, FS_AddElement
    <2>. QED BY <1>2, <1>4, <2>2, <2>3, MajorityType
  <1>. QED BY <1>2, <1>5 DEF T

\* A step after which a live round has the calls it had, or fewer, and counts
\* what it counted.
LEMMA RoundsKept ==
    ASSUME TypeOK, TypeOK', NEW Q \in [Node -> SUBSET Node], StableInv(Q),
           \A i \in Node : Undisturbed(node'[i]),
           \A i \in Node, q \in Round : node'[i].preVotes[q] > 0 =>
              /\ node[i].preVotes[q] = node'[i].preVotes[q]
              /\ Deaf(node[i]) => Deaf(node'[i]),
           \A k \in rpcs' : Mild(k),
           \A k \in rpcs' : PreCall(k) /\ node'[k.caller].preVotes[k.round] > 0 => k \in rpcs
    PROVE  StableInv(Q)'
  <1>a. \A k \in rpcs' : PreCall(k) => k.caller \in Node /\ k.round \in Round
    BY MessageKind DEF TypeOK, PreCall, VoteRequest, VoteResponse
  <1>b. \A k \in rpcs' : PreCall(k) /\ node'[k.caller].preVotes[k.round] > 0 =>
           k \in rpcs /\ node[k.caller].preVotes[k.round] > 0
    BY <1>a
  <1>1. \A k, m \in rpcs' : PreCall(k) /\ PreCall(m) /\ SameRound(k, m)
                            /\ node'[k.caller].preVotes[k.round] > 0 => k = m
    BY <1>b DEF StableInv, SameRound
  <1>2. \A m \in rpcs' : /\ m.type = "PreVoteResponse" /\ m.granted
                         /\ node'[m.caller].preVotes[m.round] > 0
                         => m.peer \notin Q[m.caller]
    BY <1>b DEF StableInv, PreCall
  <1>3. ASSUME NEW i \in Node, NEW q \in Round, node'[i].preVotes[q] > 0
        PROVE  Deaf(node'[i]) /\ node'[i].preVotes[q] <= Cardinality(Told(Q, i, q)')
    <2>1. Deaf(node[i]) /\ node[i].preVotes[q] <= Cardinality(Told(Q, i, q))
      BY <1>3 DEF StableInv
    <2>2. Told(Q, i, q) \in SUBSET (Told(Q, i, q)') /\ Told(Q, i, q)' \in SUBSET Node
      BY <1>3, <1>b DEF Told
    <2>3. /\ Cardinality(Told(Q, i, q)) \in Nat /\ Cardinality(Told(Q, i, q)') \in Nat
          /\ Cardinality(Told(Q, i, q)) <= Cardinality(Told(Q, i, q)')
      BY <2>2, NodeCardinality
    <2>4. node'[i].preVotes[q] \in Nat
      BY DEF TypeOK, NodeState, Tally
    <2>. QED BY <1>3, <2>1, <2>3, <2>4
  <1>. QED BY <1>1, <1>2, <1>3 DEF StableInv

LEMMA DoneTrust ==
    ASSUME NEW r \in NodeState
    PROVE  SameTrust(r, Done(r))
  BY DEF SameTrust, Done, NodeState

\* The state after a handler of node i.
LEMMA RunsFacts ==
    ASSUME TypeOK, NEW Q, StableInv(Q), NEW i, NEW r, NEW handled, Runs(i, r, handled)
    PROVE  /\ TypeOK' /\ i \in Node /\ SameTrust(r, node'[i])
           /\ \A j \in Node : j # i => node'[j] = node[j]
           /\ \A k \in rpcs' : k \in rpcs \ handled \/ k \in r.out
           /\ Untroubled(node[i], r) => \A j \in Node : Undisturbed(node'[j])
  <1>1. /\ TypeOK' /\ r \in NodeState /\ Moves(i, Done(r))
        /\ \A k \in rpcs' : k \in rpcs \ handled \/ k \in r.out
    BY DEF Runs, Moves
  <1>2. i \in Node /\ node'[i] = Done(r) /\ \A j \in Node : j # i => node'[j] = node[j]
    BY <1>1, MovesFacts
  <1>3. SameTrust(r, node'[i])
    BY <1>1, <1>2, DoneTrust
  <1>4. ASSUME Untroubled(node[i], r), NEW j \in Node PROVE Undisturbed(node'[j])
    BY <1>2, <1>3, <1>4 DEF StableInv, Undisturbed, Untroubled, SameTrust
  <1>. QED BY <1>1, <1>2, <1>3, <1>4

\* A handler that concerns no pre-vote round, or ends those of its node.
LEMMA SteadyStable ==
    ASSUME TypeOK, NEW Q \in [Node -> SUBSET Node], StableInv(Q), NEW i, NEW r, NEW handled,
           Runs(i, r, handled), Untroubled(node[i], r), Appends(r),
           \A q \in Round : r.preVotes[q] > 0 => /\ r.preVotes[q] = node[i].preVotes[q]
                                                 /\ Deaf(node[i]) => Deaf(r)
    PROVE  StableInv(Q)'
  <1>1. /\ TypeOK' /\ i \in Node /\ SameTrust(r, node'[i])
        /\ \A j \in Node : j # i => node'[j] = node[j]
        /\ \A k \in rpcs' : k \in rpcs \ handled \/ k \in r.out
        /\ \A j \in Node : Undisturbed(node'[j])
    BY RunsFacts
  <1>2. r.currentTerm = 1
    BY <1>1 DEF StableInv, Undisturbed, Untroubled
  <1>3. \A k \in r.out : Mild(k) /\ ~PreCall(k)
    BY <1>2 DEF Appends, IsAppend, Mild, VoteCall, PreCall
  <1>4. \A k \in rpcs' : Mild(k)
    BY <1>1, <1>3 DEF StableInv
  <1>5. \A k \in rpcs' : PreCall(k) => k \in rpcs
    BY <1>1, <1>3
  <1>6. \A j \in Node, q \in Round : node'[j].preVotes[q] > 0 =>
           /\ node[j].preVotes[q] = node'[j].preVotes[q]
           /\ Deaf(node[j]) => Deaf(node'[j])
    BY <1>1 DEF SameTrust, Deaf
  <1>. QED BY <1>1, <1>4, <1>5, <1>6, RoundsKept

\* The answer to a pre-vote, which is granted by deaf nodes only.
LEMMA ReplyStable ==
    ASSUME TypeOK, NEW Q \in [Node -> SUBSET Node], StableInv(Q), Hears(Q), NEW m \in rpcs,
           m.type = "PreVote", NEW r, r = HandlePreVote(node[m.peer], m), Runs(m.peer, r, {m})
    PROVE  StableInv(Q)'
  <1>. DEFINE i == m.peer
  <1>0. /\ m \in VoteRequest /\ m.caller \in Node /\ i \in Node /\ node[i] \in NodeState
        /\ m.round \in Round /\ PreCall(m) /\ Mild(m) /\ Undisturbed(node[i])
    BY StableFacts, MessageKind DEF PreCall
  <1>1. /\ SameTrust(node[i], r)
        /\ \A k \in r.out : /\ k.type = "PreVoteResponse" /\ SameRound(k, m)
                            /\ k.term = node[i].currentTerm /\ (k.granted => Deaf(node[i]))
        /\ \A k, l \in r.out : k = l
    BY <1>0, HandlePreVoteTrust
  <1>2. /\ TypeOK' /\ SameTrust(r, node'[i])
        /\ \A j \in Node : j # i => node'[j] = node[j]
        /\ \A k \in rpcs' : k \in rpcs \ {m} \/ k \in r.out
        /\ \A j \in Node : Undisturbed(node'[j])
    <2>1. Untroubled(node[i], r)
      BY <1>1 DEF SameTrust, Untroubled
    <2>. QED BY <2>1, RunsFacts
  <1>. HIDE DEF i
  <1>3. \A j \in Node : node'[j].preVotes = node[j].preVotes /\ (Deaf(node'[j]) <=> Deaf(node[j]))
    BY <1>0, <1>1, <1>2 DEF SameTrust, Deaf
  <1>4. \A k \in rpcs' : Mild(k)
    <2>1. \A k \in r.out : Mild(k)
      BY <1>0, <1>1 DEF Mild, VoteCall, PreCall, SameRound, Undisturbed
    <2>. QED BY <1>2, <2>1 DEF StableInv
  <1>a. \A k \in rpcs' : PreCall(k) => k.caller \in Node /\ k.round \in Round
    BY <1>2, MessageKind DEF TypeOK, PreCall, VoteRequest, VoteResponse
  <1>5. \A k, l \in rpcs' : PreCall(k) /\ PreCall(l) /\ SameRound(k, l)
                            /\ node'[k.caller].preVotes[k.round] > 0 => k = l
    <2>. SUFFICES ASSUME NEW k \in rpcs', NEW l \in rpcs', PreCall(k), PreCall(l),
                         SameRound(k, l), node[k.caller].preVotes[k.round] > 0
                  PROVE  k = l
      BY <1>3, <1>a
    <2>1. \A p \in rpcs \ {m} : PreCall(p) /\ node[p.caller].preVotes[p.round] > 0
                                => ~SameRound(p, m)
      BY <1>0 DEF StableInv
    <2>2. CASE k \in rpcs \ {m} /\ l \in rpcs \ {m}
      BY <2>2 DEF StableInv
    <2>3. CASE k \in r.out /\ l \in r.out
      BY <1>1, <2>3
    <2>4. CASE k \in r.out /\ l \in rpcs \ {m}
      BY <1>1, <2>1, <2>4 DEF SameRound
    <2>5. CASE k \in rpcs \ {m} /\ l \in r.out
      BY <1>1, <2>1, <2>5 DEF SameRound
    <2>. QED BY <1>2, <2>2, <2>3, <2>4, <2>5
  <1>6. ASSUME NEW k \in rpcs', k.type = "PreVoteResponse", k.granted,
               node'[k.caller].preVotes[k.round] > 0
        PROVE  k.peer \notin Q[k.caller]
    <2>1. PreCall(k) /\ node[k.caller].preVotes[k.round] > 0
      BY <1>3, <1>6, <1>a DEF PreCall
    <2>2. CASE k \in rpcs \ {m}
      BY <1>6, <2>1, <2>2 DEF StableInv
    <2>3. CASE k \in r.out
      <3>1. k.caller = m.caller /\ k.peer = i /\ k.round = m.round /\ Deaf(node[i])
        BY <1>1, <1>6, <2>3 DEF SameRound, i
      <3>2. Deaf(node[m.caller])
        BY <1>0, <2>1, <3>1 DEF StableInv
      <3>. QED BY <1>0, <3>1, <3>2 DEF Hears
    <2>. QED BY <1>2, <2>2, <2>3
  <1>7. ASSUME NEW j \in Node, NEW q \in Round, node'[j].preVotes[q] > 0
        PROVE  Deaf(node'[j]) /\ node'[j].preVotes[q] <= Cardinality(Told(Q, j, q)')
    <2>1. Deaf(node[j]) /\ node[j].preVotes[q] <= Cardinality(Told(Q, j, q))
      BY <1>3, <1>7 DEF StableInv
    <2>2. \A k \in rpcs' : PreCall(k) => \E p \in rpcs : PreCall(p) /\ SameRound(k, p)
      BY <1>0, <1>1, <1>2 DEF SameRound
    <2>3. Told(Q, j, q) \in SUBSET (Told(Q, j, q)') /\ Told(Q, j, q)' \in SUBSET Node
      BY <2>2 DEF Told, SameRound
    <2>4. /\ Cardinality(Told(Q, j, q)) \in Nat /\ Cardinality(Told(Q, j, q)') \in Nat
          /\ Cardinality(Told(Q, j, q)) <= Cardinality(Told(Q, j, q)')
      BY <2>3, NodeCardinality
    <2>5. node[j].preVotes[q] \in Nat
      BY StableFacts
    <2>. QED BY <1>3, <2>1, <2>4, <2>5
  <1>. QED BY <1>2, <1>4, <1>5, <1>6, <1>7 DEF StableInv

\* A new pre-vote round of a node that does not hear from the leader.
LEMMA RoundStable ==
    ASSUME TypeOK, NEW Q \in [Node -> SUBSET Node], StableInv(Q), Hears(Q), NEW i \in Node,
           NEW q \in Round, node[i].role # "Leader", Unheard(i, q), Peers(i) # {}, NEW r,
           r = StartElection(i, node[i], q), Runs(i, r, {})
    PROVE  StableInv(Q)'
  <1>0. node[i] \in NodeState /\ Undisturbed(node[i]) /\ Deaf(node[i])
    BY StableFacts DEF Unheard, Deaf
  <1>1. /\ Untroubled(node[i], r) /\ r.leaderContact = node[i].leaderContact
        /\ r.preVotes[q] = 1 /\ \A p \in Round : p # q => r.preVotes[p] = node[i].preVotes[p]
        /\ \A k \in r.out : k.type = "PreVote" /\ k.caller = i /\ k.peer # i /\ k.round = q
        /\ \A k, l \in r.out : k.peer = l.peer => k = l
    BY <1>0, StartElectionTrust
  <1>2. /\ TypeOK' /\ SameTrust(r, node'[i])
        /\ \A j \in Node : j # i => node'[j] = node[j]
        /\ \A k \in rpcs' : k \in rpcs \/ k \in r.out
        /\ \A j \in Node : Undisturbed(node'[j])
    BY <1>1, RunsFacts
  <1>3. /\ \A j \in Node : Deaf(node'[j]) <=> Deaf(node[j])
        /\ node'[i].preVotes[q] = 1
        /\ \A j \in Node, p \in Round : j # i \/ p # q => node'[j].preVotes[p] = node[j].preVotes[p]
    BY <1>1, <1>2 DEF SameTrust, Untroubled, Deaf
  <1>4. \A k \in r.out : PreCall(k) /\ Mild(k) /\ k.type # "PreVoteResponse"
    BY <1>1 DEF PreCall, Mild, VoteCall
  <1>5. \A k \in rpcs' : Mild(k)
    BY <1>2, <1>4 DEF StableInv
  <1>6. \A k \in rpcs : PreCall(k) => k.caller # i \/ k.round # q
    BY DEF Unheard, PreCall
  <1>a. \A k \in rpcs : PreCall(k) => /\ k.caller \in Node /\ k.round \in Round
                                      /\ node'[k.caller].preVotes[k.round]
                                            = node[k.caller].preVotes[k.round]
    BY <1>3, <1>6, StableFacts
  <1>7. \A k, l \in rpcs' : PreCall(k) /\ PreCall(l) /\ SameRound(k, l)
                            /\ node'[k.caller].preVotes[k.round] > 0 => k = l
    <2>. SUFFICES ASSUME NEW k \in rpcs', NEW l \in rpcs', PreCall(k), PreCall(l),
                         SameRound(k, l), node'[k.caller].preVotes[k.round] > 0
                  PROVE  k = l
      OBVIOUS
    <2>1. CASE k \in rpcs /\ l \in rpcs
      BY <1>a, <2>1 DEF StableInv
    <2>2. CASE k \in r.out /\ l \in r.out
      BY <1>1, <2>2 DEF SameRound
    <2>3. CASE (k \in r.out /\ l \in rpcs) \/ (k \in rpcs /\ l \in r.out)
      BY <1>1, <1>6, <2>3 DEF SameRound
    <2>. QED BY <1>2, <2>1, <2>2, <2>3
  <1>8. ASSUME NEW k \in rpcs', k.type = "PreVoteResponse", k.granted,
               node'[k.caller].preVotes[k.round] > 0
        PROVE  k.peer \notin Q[k.caller]
    <2>1. k \in rpcs /\ PreCall(k)
      BY <1>2, <1>4, <1>8 DEF PreCall
    <2>. QED BY <1>8, <1>a, <2>1 DEF StableInv
  <1>9. ASSUME NEW j \in Node, NEW p \in Round, node'[j].preVotes[p] > 0
        PROVE  Deaf(node'[j]) /\ node'[j].preVotes[p] <= Cardinality(Told(Q, j, p)')
    <2>1. Told(Q, j, p)' \in SUBSET Node
      BY DEF Told
    <2>2. CASE j = i /\ p = q
      <3>1. i \notin Q[i]
        BY <1>0 DEF Hears
      <3>2. i \in Told(Q, i, q)'
        <4>1. \A k \in rpcs' : PreCall(k) => k.caller # k.peer
          BY <1>5 DEF Mild
        <4>. QED BY <3>1, <4>1 DEF Told
      <3>3. Cardinality({i}) = 1 /\ {i} \in SUBSET (Told(Q, i, q)')
        BY <3>2, FS_Singleton
      <3>4. 1 <= Cardinality(Told(Q, i, q)')
        BY <2>1, <2>2, <3>3, NodeCardinality
      <3>. QED BY <1>0, <1>3, <2>2, <3>4
    <2>3. CASE j # i \/ p # q
      <3>1. /\ node'[j].preVotes[p] = node[j].preVotes[p]
            /\ Deaf(node[j]) /\ node[j].preVotes[p] <= Cardinality(Told(Q, j, p))
        BY <1>3, <1>9, <2>3 DEF StableInv
      <3>2. Told(Q, j, p) \in SUBSET (Told(Q, j, p)')
        <4>1. \A k \in rpcs' : k.caller = j /\ k.round = p => k \in rpcs
          BY <1>1, <1>2, <2>3
        <4>. QED BY <4>1 DEF Told
      <3>3. /\ Cardinality(Told(Q, j, p)) \in Nat /\ Cardinality(Told(Q, j, p)') \in Nat
            /\ Cardinality(Told(Q, j, p)) <= Cardinality(Told(Q, j, p)')
        BY <2>1, <3>2, NodeCardinality
      <3>4. node[j].preVotes[p] \in Nat
        BY StableFacts
      <3>. QED BY <1>3, <3>1, <3>3, <3>4
    <2>. QED BY <2>2, <2>3
  <1>. QED BY <1>2, <1>5, <1>7, <1>8, <1>9 DEF StableInv

\* An answer to a pre-vote is never decisive: it is the first of its node in
\* the round, and with it fewer than a majority are outside Q of the caller.
LEMMA NotDecisive ==
    ASSUME TypeOK, NEW Q \in [Node -> SUBSET Node], StableInv(Q),
           \A j \in Node : Cardinality(Q[j]) >= Majority,
           NEW m \in rpcs, m.type = "PreVoteResponse", m.granted,
           node[m.caller].preVotes[m.round] > 0
    PROVE  /\ m.peer \in Node \ Q[m.caller] /\ m.peer \notin Told(Q, m.caller, m.round)
           /\ node[m.caller].preVotes[m.round] + 1 < Majority
  <1>. DEFINE i == m.caller
              q == m.round
              T == Told(Q, i, q)
  <1>1. i \in Node /\ m.peer \in Node /\ PreCall(m) /\ q \in Round /\ node[i].preVotes[q] \in Nat
    BY StableFacts DEF PreCall
  <1>2. m.peer \in Node \ Q[i] /\ node[i].preVotes[q] <= Cardinality(T)
    BY <1>1 DEF StableInv
  <1>3. m.peer \notin T
    BY <1>1 DEF Told
  <1>4. Cardinality(T) \in Nat /\ Cardinality(T) + 1 < Majority
    BY <1>1, <1>2, <1>3, ToldCardinality
  <1>. QED BY <1>1, <1>2, <1>3, <1>4, MajorityType

\* So it is counted, at most.
LEMMA CountStable ==
    ASSUME TypeOK, NEW Q \in [Node -> SUBSET Node], StableInv(Q),
           \A j \in Node : Cardinality(Q[j]) >= Majority,
           NEW m \in rpcs, m.type = "PreVoteResponse", NEW r,
           r = HandlePreVoteResponse(m.caller, node[m.caller], m), Runs(m.caller, r, {m})
    PROVE  StableInv(Q)'
  <1>. DEFINE i == m.caller
              q == m.round
              n == node[i]
  <1>0. /\ m \in VoteResponse /\ i \in Node /\ m.peer \in Node /\ n \in NodeState /\ n.out = {}
        /\ q \in Round /\ PreCall(m) /\ Mild(m) /\ Undisturbed(n) /\ n.preVotes[q] \in Nat
    BY StableFacts, MessageKind DEF PreCall
  <1>1. m.term <= n.currentTerm
    BY <1>0 DEF Mild, Undisturbed
  <1>2. m.granted /\ n.preVotes[q] > 0 => /\ n.preVotes[q] + 1 < Majority
                                          /\ m.peer \in Node \ Q[i] /\ m.peer \notin Told(Q, i, q)
    BY NotDecisive
  <1>3. /\ Untroubled(n, r) /\ r.leaderContact = n.leaderContact /\ r.out = {}
        /\ \/ r.preVotes = n.preVotes
           \/ /\ n.role # "Leader" /\ m.granted /\ n.preVotes[q] > 0
              /\ r.preVotes[q] = n.preVotes[q] + 1
              /\ \A p \in Round : p # q => r.preVotes[p] = n.preVotes[p]
    BY <1>0, <1>1, <1>2, CountTrust
  <1>4. CASE r.preVotes = n.preVotes
    <2>1. Appends(r) /\ (Deaf(n) => Deaf(r))
      BY <1>3 DEF Appends, Deaf, Untroubled
    <2>. QED BY <1>0, <1>3, <1>4, <2>1, SteadyStable
  <1>5. CASE /\ n.role # "Leader" /\ m.granted /\ n.preVotes[q] > 0
             /\ r.preVotes[q] = n.preVotes[q] + 1
             /\ \A p \in Round : p # q => r.preVotes[p] = n.preVotes[p]
    <2>1. /\ TypeOK' /\ SameTrust(r, node'[i])
          /\ \A j \in Node : j # i => node'[j] = node[j]
          /\ \A k \in rpcs' : k \in rpcs \ {m}
          /\ \A j \in Node : Undisturbed(node'[j])
      BY <1>3, RunsFacts
    <2>2. /\ \A j \in Node : Deaf(node'[j]) <=> Deaf(node[j])
          /\ node'[i].preVotes[q] = n.preVotes[q] + 1
          /\ \A j \in Node, p \in Round : j # i \/ p # q
                => node'[j].preVotes[p] = node[j].preVotes[p]
      BY <1>3, <1>5, <2>1 DEF SameTrust, Untroubled, Deaf
    <2>a. node[i].preVotes[q] > 0
      BY <1>5
    <2>. HIDE DEF i, q, n
    <2>3. \A j \in Node, p \in Round : node'[j].preVotes[p] > 0 => node[j].preVotes[p] > 0
      BY <2>a, <2>2
    <2>4. \A k \in rpcs' : /\ Mild(k)
                           /\ PreCall(k) /\ node'[k.caller].preVotes[k.round] > 0
                              => k \in rpcs /\ node[k.caller].preVotes[k.round] > 0
      BY <2>1, <2>3, StableFacts
    <2>5. \A k, l \in rpcs' : PreCall(k) /\ PreCall(l) /\ SameRound(k, l)
                              /\ node'[k.caller].preVotes[k.round] > 0 => k = l
      BY <2>1, <2>4 DEF StableInv
    <2>6. \A k \in rpcs' : /\ k.type = "PreVoteResponse" /\ k.granted
                           /\ node'[k.caller].preVotes[k.round] > 0
                           => k.peer \notin Q[k.caller]
      BY <2>1, <2>4 DEF StableInv, PreCall
    <2>7. ASSUME NEW j \in Node, NEW p \in Round, node'[j].preVotes[p] > 0
          PROVE  Deaf(node'[j]) /\ node'[j].preVotes[p] <= Cardinality(Told(Q, j, p)')
      <3>1. /\ node[j].preVotes[p] > 0
            /\ Deaf(node[j]) /\ node[j].preVotes[p] <= Cardinality(Told(Q, j, p))
        BY <2>3, <2>7 DEF StableInv
      <3>2. Told(Q, j, p) \in SUBSET (Told(Q, j, p)') /\ Told(Q, j, p)' \in SUBSET Node
        BY <2>1 DEF Told
      <3>3. /\ Cardinality(Told(Q, j, p)) \in Nat /\ Cardinality(Told(Q, j, p)') \in Nat
            /\ Cardinality(Told(Q, j, p)) <= Cardinality(Told(Q, j, p)')
            /\ IsFiniteSet(Told(Q, j, p))
        BY <3>2, NodeCardinality
      <3>4. node[j].preVotes[p] \in Nat
        BY StableFacts
      <3>5. CASE j = i /\ p = q
        <4>1. m.peer \in Told(Q, i, q)'
          <5>1. m.peer \in Node \ Q[i]
            BY <1>2, <1>5
          <5>2. ASSUME NEW k \in rpcs', PreCall(k), k.caller = i, k.peer = m.peer, k.round = q
                PROVE  FALSE
            <6>1. k \in rpcs /\ k # m /\ SameRound(k, m)
              BY <2>1, <5>2 DEF SameRound, i, q
            <6>2. node[k.caller].preVotes[k.round] > 0
              BY <3>1, <3>5, <5>2
            <6>. QED BY <1>0, <5>2, <6>1, <6>2 DEF StableInv
          <5>. QED BY <5>1, <5>2 DEF Told
        <4>2. m.peer \notin Told(Q, i, q)
          BY <1>2, <1>5
        <4>3. Told(Q, i, q) \cup {m.peer} \in SUBSET (Told(Q, i, q)')
          BY <3>2, <3>5, <4>1
        <4>4. Cardinality(Told(Q, i, q) \cup {m.peer}) <= Cardinality(Told(Q, i, q)')
          BY <3>2, <3>5, <4>3, NodeCardinality
        <4>5. Cardinality(Told(Q, i, q) \cup {m.peer}) = Cardinality(Told(Q, i, q)) + 1
          BY <3>3, <3>5, <4>2, FS_AddElement
        <4>6. node'[j].preVotes[p] = node[j].preVotes[p] + 1
          BY <2>2, <3>5 DEF n
        <4>. QED BY <2>2, <3>1, <3>3, <3>4, <3>5, <4>4, <4>5, <4>6
      <3>6. CASE j # i \/ p # q
        BY <2>2, <3>1, <3>3, <3>4, <3>6
      <3>. QED BY <3>5, <3>6
    <2>. QED BY <2>1, <2>4, <2>5, <2>6, <2>7 DEF StableInv
  <1>. QED BY <1>3, <1>4, <1>5

\* A deaf node hears of a majority that is not deaf, so it is not alone.
LEMMA DeafHasPeers ==
    ASSUME NEW Q \in [Node -> SUBSET Node], \A j \in Node : Cardinality(Q[j]) >= Majority,
           Hears(Q), NEW i \in Node, Deaf(node[i])
    PROVE  Peers(i) # {}
  <1>1. Q[i] # {}
    <2>1. Cardinality({}) = 0
      BY FS_EmptySet
    <2>2. Cardinality(Node) \in Nat
      BY NodeAssumption, FS_CardinalityType
    <2>3. Cardinality(Q[i]) >= Majority /\ Majority \in Nat /\ Majority >= 1
      BY <2>2, MajorityType
    <2>. QED BY <2>1, <2>3
  <1>2. PICK j \in Q[i] : TRUE
    BY <1>1
  <1>3. j \in Node /\ ~Deaf(node[j])
    BY <1>2 DEF Hears
  <1>. QED BY <1>3 DEF Peers

\* No handler of an undisturbed cluster changes a term or a role.
LEMMA WritesUntroubled ==
    ASSUME TypeOK, NEW Q \in [Node -> SUBSET Node], StableInv(Q), Hears(Q),
           \A j \in Node : Cardinality(Q[j]) >= Majority,
           NEW i \in Node, NEW n, Starts(i, n), NEW r, NEW handled, NEW told,
           Writes(i, n, r, handled, told)
    PROVE  Untroubled(n, r)
  <1>0. /\ n \in NodeState /\ n.out = {} /\ n.currentTerm = 1 /\ n.role # "Candidate"
        /\ n.role = node[i].role /\ n.preVotes = node[i].preVotes
    BY StableFacts DEF Starts, Undisturbed
  <1>1. ASSUME NEW q \in Round, node[i].role # "Leader", Unheard(i, q),
               r = StartElection(i, n, q)
        PROVE  Untroubled(n, r)
    <2>1. Peers(i) # {}
      BY <1>1, DeafHasPeers DEF Unheard, Deaf
    <2>. QED BY <1>0, <1>1, <2>1, StartElectionTrust
  <1>2. ASSUME NEW m \in rpcs, m.type = "AppendEntries", r = HandleAppendEntries(n, m)
        PROVE  Untroubled(n, r)
    <2>1. m \in AppendRequest /\ m.term <= 1
      BY <1>2, StableFacts, MessageKind DEF Mild
    <2>. QED BY <1>0, <1>2, <2>1, FollowerSteady DEF Untroubled
  <1>3. ASSUME NEW m \in rpcs, m.type = "PreVoteResponse", m.caller = i,
               r = HandlePreVoteResponse(i, n, m)
        PROVE  Untroubled(n, r)
    <2>1. m \in VoteResponse /\ m.term <= 1
      BY <1>3, StableFacts, MessageKind DEF Mild
    <2>2. m.granted /\ n.preVotes[m.round] > 0 => n.preVotes[m.round] + 1 < Majority
      BY <1>0, <1>3, NotDecisive
    <2>. QED BY <1>0, <1>3, <2>1, <2>2, CountTrust
  <1>4. ASSUME NEW m \in rpcs, m.type = "AppendEntriesResponse",
               r = HandleAppendEntriesResponse(i, n, m)
        PROVE  Untroubled(n, r)
    <2>1. m \in AppendResponse /\ m.term <= 1
      BY <1>4, StableFacts, MessageKind DEF Mild
    <2>2. Steady(n, r)
      BY <1>0, <1>4, <2>1, LeaderSteady
    <2>. QED BY <2>2 DEF Steady, SameTrust, Untroubled
  <1>5. ASSUME NEW c \in Command, r = ProposeCommand(i, n, c)
        PROVE  Untroubled(n, r)
    <2>1. Steady(n, r)
      BY <1>0, <1>5, LeaderSteady
    <2>. QED BY <2>1 DEF Steady, SameTrust, Untroubled
  <1>6. \A m \in rpcs : m.type # "RequestVote" /\ m.type # "RequestVoteResponse"
    BY DEF StableInv, Mild, VoteCall
  <1>. QED BY <1>1, <1>2, <1>3, <1>4, <1>5, <1>6, Zenon DEF Writes

\* A crash: the term is on disk, and the rounds of the node end.
LEMMA DiedStable ==
    ASSUME TypeOK, NEW Q \in [Node -> SUBSET Node], StableInv(Q), Hears(Q),
           \A j \in Node : Cardinality(Q[j]) >= Majority,
           NEW i \in Node, NEW n, NEW r, NEW handled, NEW told, Died(i, n, r, handled, told)
    PROVE  StableInv(Q)'
  <1>1. r.diskTerm = 1
    <2>1. Starts(i, n) /\ n.diskTerm = 1
      BY DEF Died, Starts, StableInv, Undisturbed
    <2>2. r = n \/ Untroubled(n, r)
      BY <2>1, WritesUntroubled DEF Died
    <2>. QED BY <2>1, <2>2 DEF Untroubled
  <1>2. /\ TypeOK' /\ node'[i] = NewRaftNode(r)
        /\ \A j \in Node : j # i => node'[j] = node[j]
        /\ \A k \in rpcs' : (k.caller # i => k \in rpcs) /\ \E m \in rpcs : Echoes(k, m)
    BY MovesFacts DEF Died, Falls, Moves
  <1>3. /\ NewRaftNode(r).currentTerm = 1 /\ NewRaftNode(r).diskTerm = 1
        /\ NewRaftNode(r).role = "Follower"
        /\ \A q \in Round : NewRaftNode(r).preVotes[q] = 0
    BY <1>1 DEF NewRaftNode, NoRounds
  <1>4. \A j \in Node : Undisturbed(node'[j])
    BY <1>2, <1>3 DEF StableInv, Undisturbed
  <1>5. \A k \in rpcs' : Mild(k)
    <2>1. ASSUME NEW k \in rpcs', NEW m \in rpcs, Echoes(k, m), Mild(m), m \in Message PROVE Mild(k)
      <3>1. m.type \in {"PreVote", "PreVoteResponse", "AppendEntries", "AppendEntriesResponse"}
        BY <2>1 DEF Mild, VoteCall, Message, Request, Response, VoteRequest, AppendRequest,
                    VoteResponse, AppendResponse
      <3>. QED BY <2>1, <3>1 DEF Echoes, Mild, VoteCall, PreCall, IsRequest
    <2>. QED BY <1>2, <2>1, StableFacts
  <1>6. \A k \in rpcs' : PreCall(k) => k.caller \in Node /\ k.round \in Round
    BY <1>2, MessageKind DEF TypeOK, PreCall, VoteRequest, VoteResponse
  <1>7. \A k \in rpcs' : PreCall(k) /\ node'[k.caller].preVotes[k.round] > 0 => k \in rpcs
    BY <1>2, <1>3, <1>6
  <1>8. \A j \in Node, q \in Round : node'[j].preVotes[q] > 0 =>
           /\ node[j].preVotes[q] = node'[j].preVotes[q]
           /\ Deaf(node[j]) => Deaf(node'[j])
    BY <1>2, <1>3
  <1>. QED BY <1>2, <1>4, <1>5, <1>7, <1>8, RoundsKept

\* A critical section that completes.
LEMMA RanStable ==
    ASSUME TypeOK, NEW Q \in [Node -> SUBSET Node], StableInv(Q), Hears(Q),
           \A j \in Node : Cardinality(Q[j]) >= Majority,
           NEW i \in Node, Starts(i, node[i]),
           NEW r, NEW handled, NEW told, Ran(i, r, handled, told)
    PROVE  StableInv(Q)'
  <1>. DEFINE n == node[i]
  <1>0. /\ n \in NodeState /\ n.out = {} /\ Undisturbed(n) /\ Runs(i, r, handled)
        /\ r \in NodeState
    BY StableFacts DEF Ran, Runs
  <1>1. ASSUME Steady(n, r) PROVE StableInv(Q)'
    <2>1. Untroubled(n, r) /\ Appends(r) /\ r.preVotes = n.preVotes /\ (Deaf(n) => Deaf(r))
      BY <1>1 DEF Steady, SameTrust, Untroubled, Deaf
    <2>. QED BY <1>0, <2>1, SteadyStable
  <1>2. CASE Reads(i, r, handled, told)
    <2>1. CASE r = BroadcastAppendEntries(i, n)
      BY <1>0, <1>1, <2>1, LeaderSteady
    <2>2. CASE r = [n EXCEPT !.leaderContact = FALSE]
      <3>1. /\ Untroubled(n, r) /\ Appends(r) /\ r.preVotes = n.preVotes
            /\ Deaf(n) => Deaf(r)
        BY <1>0, <2>2 DEF NodeState, Untroubled, Appends, Deaf
      <3>. QED BY <1>0, <3>1, SteadyStable
    <2>3. ASSUME NEW m \in rpcs, m.type = "PreVote", m.peer = i, r = HandlePreVote(n, m),
                 handled = {m}
          PROVE  StableInv(Q)'
      BY <1>0, <2>3, ReplyStable
    <2>4. ASSUME NEW c \in Command, r = ProposalReturns(n, c) \/ r = ProposalTimesOut(n, c)
          PROVE  StableInv(Q)'
      BY <1>0, <1>1, <2>4, LeaderSteady
    <2>. QED BY <1>2, <2>1, <2>2, <2>3, <2>4, Zenon DEF Reads
  <1>3. CASE Writes(i, n, r, handled, told)
    <2>0. Untroubled(n, r)
      BY <1>3, WritesUntroubled
    <2>1. ASSUME NEW q \in Round, n.role # "Leader", Unheard(i, q), r = StartElection(i, n, q),
                 handled = {}
          PROVE  StableInv(Q)'
      <3>1. Peers(i) # {}
        BY <2>1, DeafHasPeers DEF Unheard, Deaf
      <3>. QED BY <1>0, <2>1, <3>1, RoundStable
    <2>2. ASSUME NEW m \in rpcs, m.type = "AppendEntries", r = HandleAppendEntries(n, m)
          PROVE  StableInv(Q)'
      <3>1. m \in AppendRequest /\ m.term <= n.currentTerm /\ n.role # "Candidate"
        BY <1>0, <2>2, StableFacts, MessageKind DEF Mild, Undisturbed
      <3>2. /\ Appends(r)
            /\ \/ r.leaderContact = n.leaderContact /\ r.preVotes = n.preVotes
               \/ r.preVotes = NoRounds
        BY <1>0, <2>2, <3>1, FollowerSteady
      <3>3. \A q \in Round : r.preVotes[q] > 0 => /\ r.preVotes[q] = n.preVotes[q]
                                                  /\ Deaf(n) => Deaf(r)
        <4>1. CASE r.preVotes = NoRounds
          BY <4>1 DEF NoRounds
        <4>2. CASE r.leaderContact = n.leaderContact /\ r.preVotes = n.preVotes
          BY <2>0, <4>2 DEF Untroubled, Deaf
        <4>. QED BY <3>2, <4>1, <4>2
      <3>. QED BY <1>0, <2>0, <3>2, <3>3, SteadyStable
    <2>3. ASSUME NEW m \in rpcs, m.type = "PreVoteResponse", m.caller = i,
                 r = HandlePreVoteResponse(i, n, m), handled = {m}
          PROVE  StableInv(Q)'
      BY <1>0, <2>3, CountStable
    <2>4. ASSUME NEW m \in rpcs, m.type = "AppendEntriesResponse",
                 r = HandleAppendEntriesResponse(i, n, m)
          PROVE  StableInv(Q)'
      <3>1. m \in AppendResponse /\ m.term <= n.currentTerm
        BY <1>0, <2>4, StableFacts, MessageKind DEF Mild, Undisturbed
      <3>. QED BY <1>0, <1>1, <2>4, <3>1, LeaderSteady
    <2>5. ASSUME NEW c \in Command, r = ProposeCommand(i, n, c)
          PROVE  StableInv(Q)'
      BY <1>0, <1>1, <2>5, LeaderSteady
    <2>6. \A m \in rpcs : m.type # "RequestVote" /\ m.type # "RequestVoteResponse"
      BY DEF StableInv, Mild, VoteCall
    <2>. QED BY <1>3, <2>1, <2>2, <2>3, <2>4, <2>5, <2>6, Zenon DEF Writes
  <1>. QED BY <1>2, <1>3 DEF Ran

\* A step from a state in which every deaf node has a majority that is not.
LEMMA NextStable ==
    ASSUME FaultyDisk = FALSE, TypeOK, ElectionInv, NEW Q \in [Node -> SUBSET Node],
           \A j \in Node : Cardinality(Q[j]) >= Majority,
           StableInv(Q), Hears(Q), [Next]_vars
    PROVE  StableInv(Q)'
  <1>1. \A i \in Node : Starts(i, node[i])
    <2>1. MaxWrites \in Quotas
      BY DEF Quotas, MaxWrites
    <2>. QED BY <2>1, WithStarts, WithSame
  <1>2. CASE Idle
    <2>1. /\ TypeOK' /\ node' = node /\ \A k \in rpcs' : k \in rpcs
      BY <1>2, NextType DEF Idle
    <2>. QED BY <2>1, RoundsKept, StableFacts
  <1>. QED BY <1>1, <1>2, NextCases, RanStable, DiedStable

LEMMA AllAreMajority == Cardinality(Node) >= Majority
  <1>1. Cardinality(Node) \in Nat /\ Cardinality(Node) # 0
    BY NodeAssumption, FS_CardinalityType, FS_EmptySet
  <1>2. \A k \in Nat : k # 0 => k >= k \div 2 + 1
    OBVIOUS
  <1>. QED BY <1>1, <1>2 DEF Majority

\* The cluster that the theorems below start from.
LEMMA EstablishedStart ==
    ASSUME EstablishedInit(1), NEW Q \in [Node -> SUBSET Node]
    PROVE  TypeOK /\ ElectionInv /\ StableInv(Q) /\ Hears(Q)
           /\ \A j \in Node : ~Deaf(node[j])
  <1>1. PICK i \in Node :
           /\ node = [j \in Node |-> IF j = i THEN Leads(i, 1) ELSE Follows(i, 1)]
           /\ ballots = {[voter |-> j, term |-> 1, candidate |-> i] : j \in Node}
           /\ elected = {[term |-> 1, leader |-> i]}
    BY DEF EstablishedInit
  <1>0. committed = <<E(1)>> /\ rpcs = {} /\ outcome = [c \in Command |-> "new"] /\ crashes = 0
    BY DEF EstablishedInit
  <1>. DEFINE d == [diskTerm |-> 1, diskVote |-> i, log |-> <<E(1)>>]
              new == NewRaftNode(d)
              f == Follows(i, 1)
              l == Leads(i, 1)
  <1>2. <<E(1)>> \in Log /\ i \in Vote
    BY DEF E, Entry, Log, Vote
  <1>3. /\ new \in NodeState /\ new.role = "Follower" /\ new.currentTerm = 1 /\ new.diskTerm = 1
        /\ new.votedFor = i /\ new.diskVote = i /\ new.quota = MaxWrites /\ new.out = {}
        /\ new.preVotes = NoRounds /\ new.votesReceived = 0
    <2>1. d.diskTerm \in Nat /\ d.diskVote \in Vote /\ d.log \in Log
      BY <1>2
    <2>2. new \in NodeState
      BY <2>1, NewRaftNodeType
    <2>. QED BY <2>2 DEF NewRaftNode
  <1>4. f = [new EXCEPT !.leaderID = i, !.leaderContact = TRUE, !.commitIndex = 1,
                        !.lastApplied = 1]
    BY Zenon DEF Follows
  <1>. HIDE DEF new, f
  <1>5. /\ f \in NodeState /\ f.role = "Follower" /\ f.currentTerm = 1 /\ f.diskTerm = 1
        /\ f.votedFor = i /\ f.diskVote = i /\ f.quota = MaxWrites /\ f.out = {}
        /\ f.preVotes = NoRounds /\ f.leaderContact
    BY <1>2, <1>3, <1>4 DEF NodeState
  <1>6. l = [f EXCEPT !.role = "Leader", !.leaderID = None, !.leaderContact = FALSE,
                      !.nextIndex = [j \in Node |-> IF j = i THEN 0 ELSE 2],
                      !.matchIndex = [j \in Node |-> IF j = i THEN 0 ELSE 1]]
    BY Zenon DEF Leads, f
  <1>. HIDE DEF l
  <1>7. /\ l \in NodeState /\ l.role = "Leader" /\ l.currentTerm = 1 /\ l.diskTerm = 1
        /\ l.votedFor = i /\ l.diskVote = i /\ l.quota = MaxWrites /\ l.out = {}
        /\ l.preVotes = NoRounds
    <2>. DEFINE ni == [j \in Node |-> IF j = i THEN 0 ELSE 2]
                mi == [j \in Node |-> IF j = i THEN 0 ELSE 1]
    <2>1. ni \in Indexes /\ mi \in Indexes
      BY DEF Indexes
    <2>2. None \in Vote /\ "Leader" \in Role
      BY ConstantType DEF Role
    <2>. DEFINE g == [f EXCEPT !.role = "Leader", !.leaderID = None, !.leaderContact = FALSE]
    <2>3. l = [g EXCEPT !.nextIndex = ni, !.matchIndex = mi]
      BY <1>5, <1>6 DEF NodeState
    <2>4. /\ g \in NodeState /\ g.role = "Leader" /\ g.currentTerm = 1 /\ g.diskTerm = 1
          /\ g.votedFor = i /\ g.diskVote = i /\ g.quota = MaxWrites /\ g.out = {}
          /\ g.preVotes = NoRounds
      BY <1>5, <2>2 DEF NodeState
    <2>. HIDE DEF ni, mi, g
    <2>. QED BY <2>1, <2>3, <2>4 DEF NodeState
  <1>8. \A j \in Node : node[j] = IF j = i THEN l ELSE f
    BY <1>1 DEF l, f
  <1>9. \A j \in Node : /\ node[j] \in NodeState /\ Undisturbed(node[j]) /\ ~Deaf(node[j])
                        /\ node[j].role # "Candidate" /\ (node[j].role = "Leader" => j = i)
                        /\ node[j].votedFor = i /\ node[j].diskVote = i
                        /\ node[j].quota = MaxWrites /\ node[j].out = {}
                        /\ \A q \in Round : node[j].preVotes[q] = 0
    BY <1>5, <1>7, <1>8 DEF Undisturbed, Deaf, NoRounds
  <1>10. TypeOK
    <2>1. node \in [Node -> NodeState]
      BY <1>1, <1>9
    <2>2. ballots \subseteq Ballot /\ elected \subseteq Elected
      BY <1>1 DEF Ballot, Elected
    <2>. QED BY <1>0, <1>2, <1>9, <2>1, <2>2, ClusterAssumption DEF TypeOK, Outcome
  <1>11. ElectionInv
    <2>1. \A j \in Node : [voter |-> j, term |-> 1, candidate |-> i] \in ballots
      BY <1>1
    <2>2. Supporters(i, 1) = Node
      BY <2>1 DEF Supporters
    <2>3. Cardinality(Supporters(i, 1)) >= Majority
      BY <2>2, AllAreMajority
    <2>4. BallotInv
      <3>1. Saved
        BY <1>9 DEF Saved, Undisturbed
      <3>2. VotesHeld
        BY <1>1, <1>9 DEF VotesHeld, Undisturbed
      <3>3. OneVotePerTerm
        BY <1>1 DEF OneVotePerTerm
      <3>. QED BY <3>1, <3>2, <3>3 DEF BallotInv
    <2>5. CallsSound
      BY <1>0 DEF CallsSound
    <2>6. TallySound
      BY <1>9 DEF TallySound
    <2>7. LeadersElected
      BY <1>1, <1>9, <2>3 DEF LeadersElected, Undisturbed
    <2>. QED BY <2>4, <2>5, <2>6, <2>7 DEF ElectionInv
  <1>12. StableInv(Q)
    BY <1>0, <1>9 DEF StableInv
  <1>. QED BY <1>9, <1>10, <1>11, <1>12 DEF Hears

\* StableInv keeps everybody in term 1.
LEMMA StableTerms ==
    ASSUME NEW Q, StableInv(Q)
    PROVE  NoDisruption
  BY DEF StableInv, Undisturbed, NoDisruption

\* handlePreVoteLocked and the staleness test of startElection, whatever the
\* cluster's size: as long as each node that does not hear from the leader has
\* a majority that does, and it is always the same one, no node ever leaves
\* the leader's term, crashes, lost and late answers included.
THEOREM FixedMajorityUndisturbed ==
    ASSUME FaultyDisk = FALSE, NEW Q \in [Node -> SUBSET Node],
           \A j \in Node : Cardinality(Q[j]) >= Majority
    PROVE  EstablishedInit(1) /\ [][Next /\ Hears(Q)']_vars => []NoDisruption
  <1>. DEFINE Inv == TypeOK /\ ElectionInv /\ StableInv(Q) /\ Hears(Q)
  <1>1. EstablishedInit(1) => Inv
    BY EstablishedStart
  <1>2. Inv /\ [Next /\ Hears(Q)']_vars => Inv'
    <2>. SUFFICES ASSUME TypeOK, ElectionInv, StableInv(Q), Hears(Q), [Next /\ Hears(Q)']_vars
                  PROVE  TypeOK' /\ ElectionInv' /\ StableInv(Q)' /\ Hears(Q)'
      OBVIOUS
    <2>1. [Next]_vars
      OBVIOUS
    <2>2. TypeOK' /\ ElectionInv'
      BY <2>1, NextType, NextElection DEF Kept
    <2>3. StableInv(Q)'
      BY <2>1, NextStable
    <2>4. Hears(Q)'
      BY DEF Hears, vars
    <2>. QED BY <2>2, <2>3, <2>4
  <1>3. Inv => NoDisruption
    BY StableTerms
  <1>. QED BY <1>1, <1>2, <1>3, PTL

\* Up to four nodes, a majority that leaves a given node out is all the others.
LEMMA SmallMajorityHears ==
    ASSUME Cardinality(Node) <= 4, NEW Q \in [Node -> SUBSET Node],
           Q = [i \in Node |-> IF Cardinality(Node) <= 2 THEN Node ELSE Node \ {i}]
    PROVE  /\ \A i \in Node : Cardinality(Q[i]) >= Majority
           /\ MajorityHears => Hears(Q)
  <1>. DEFINE N == Cardinality(Node)
              H == {j \in Node : node[j].role = "Leader" \/ node[j].leaderContact}
  <1>1. N \in Nat /\ N >= 1 /\ Majority = N \div 2 + 1
    <2>1. N # 0
      BY NodeAssumption, FS_EmptySet
    <2>. QED BY <2>1, NodeAssumption, FS_CardinalityType DEF Majority
  <1>2. \A i \in Node : Cardinality(Node \ {i}) = N - 1
    BY NodeAssumption, FS_RemoveElement
  <1>. HIDE DEF N
  <1>3. \/ (N = 1 /\ Majority = 1) \/ (N = 2 /\ Majority = 2)
        \/ (N = 3 /\ Majority = 2) \/ (N = 4 /\ Majority = 3)
    <2>1. N <= 4
      BY DEF N
    <2>2. N = 1 \/ N = 2 \/ N = 3 \/ N = 4
      BY <1>1, <2>1
    <2>. QED BY <1>1, <2>2
  <1>4. \A i \in Node : Cardinality(Q[i]) >= Majority
    BY <1>2, <1>3 DEF N
  <1>5. ASSUME MajorityHears, NEW i \in Node, Deaf(node[i]), NEW j \in Q[i], Deaf(node[j])
        PROVE  FALSE
    <2>1. i \notin H /\ j \notin H /\ H \in SUBSET Node /\ j \in Node
      BY <1>5 DEF Deaf
    <2>2. Cardinality(H) >= Majority
      BY <1>5 DEF MajorityHears
    <2>3. H \in SUBSET (Node \ {i}) /\ H \in SUBSET ((Node \ {i}) \ {j})
      BY <2>1
    <2>. HIDE DEF H
    <2>4. Cardinality(H) \in Nat /\ Cardinality(H) <= N - 1
      BY <1>2, <2>1, <2>3, NodeCardinality
    <2>5. CASE N <= 2
      BY <1>3, <2>2, <2>4, <2>5
    <2>6. CASE N > 2
      <3>1. j # i
        BY <1>3, <1>5, <2>6 DEF N
      <3>2. IsFiniteSet(Node \ {i})
        BY NodeAssumption, FS_Subset
      <3>3. Cardinality((Node \ {i}) \ {j}) = N - 2
        <4>1. j \in Node \ {i}
          BY <2>1, <3>1
        <4>2. Cardinality((Node \ {i}) \ {j}) = Cardinality(Node \ {i}) - 1
          BY <3>2, <4>1, FS_RemoveElement
        <4>3. Cardinality(Node \ {i}) = N - 1
          BY <1>2
        <4>. QED BY <1>1, <4>2, <4>3
      <3>4. Cardinality(H) <= N - 2
        BY <2>3, <3>3, NodeCardinality
      <3>. QED BY <1>3, <2>2, <2>4, <2>6, <3>4
    <2>. QED BY <1>3, <2>5, <2>6
  <1>. QED BY <1>4, <1>5 DEF Hears

\* handlePreVoteLocked and startElection in a cluster of at most four nodes:
\* while at any time a majority hears from the leader, not always the same
\* one, no cut off, late or restarted node raises a term.  Five nodes are too
\* many: a round that is still open adds up answers of different times.
THEOREM LeaderUndisturbed ==
    ASSUME Cardinality(Node) <= 4, FaultyDisk = FALSE
    PROVE  StableSpec => []NoDisruption
  <1>. DEFINE Q == [i \in Node |-> IF Cardinality(Node) <= 2 THEN Node ELSE Node \ {i}]
              Inv == TypeOK /\ ElectionInv /\ StableInv(Q) /\ MajorityHears
  <1>0. Q \in [Node -> SUBSET Node]
    OBVIOUS
  <1>1. (\A i \in Node : Cardinality(Q[i]) >= Majority) /\ (MajorityHears => Hears(Q))
    BY <1>0, SmallMajorityHears
  <1>2. EstablishedInit(1) => Inv
    <2>. SUFFICES ASSUME EstablishedInit(1) PROVE Inv
      OBVIOUS
    <2>1. TypeOK /\ ElectionInv /\ StableInv(Q) /\ \A j \in Node : ~Deaf(node[j])
      BY <1>0, EstablishedStart
    <2>2. {i \in Node : node[i].role = "Leader" \/ node[i].leaderContact} = Node
      BY <2>1 DEF Deaf
    <2>3. MajorityHears
      BY <2>2, AllAreMajority DEF MajorityHears
    <2>. QED BY <2>1, <2>3
  <1>3. Inv /\ [StableNext]_vars => Inv'
    <2>. SUFFICES ASSUME TypeOK, ElectionInv, StableInv(Q), MajorityHears, [StableNext]_vars
                  PROVE  TypeOK' /\ ElectionInv' /\ StableInv(Q)' /\ MajorityHears'
      OBVIOUS
    <2>1. [Next]_vars
      BY DEF StableNext
    <2>2. TypeOK' /\ ElectionInv'
      BY <2>1, NextType, NextElection DEF Kept
    <2>3. StableInv(Q)'
      BY <1>0, <1>1, <2>1, NextStable
    <2>4. MajorityHears'
      BY DEF MajorityHears, StableNext, vars
    <2>. QED BY <2>2, <2>3, <2>4
  <1>4. Inv => NoDisruption
    BY StableTerms
  <1>. QED BY <1>2, <1>3, <1>4, PTL DEF StableSpec
=============================================================================
