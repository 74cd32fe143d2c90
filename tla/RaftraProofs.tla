---------------------------- MODULE RaftraProofs ----------------------------
(***************************************************************************)
(* A Raftra cluster of any size, with any number of terms, crashes, calls  *)
(* and commands, is well typed whatever transactions fail.  And elections  *)
(* are safe in it, whatever calls are lost, delayed or answered out of     *)
(* order and wherever processes crash, as long as storage transactions do  *)
(* not return errors.                                                      *)
(***************************************************************************)
EXTENDS Raftra, FiniteSetTheorems, SequenceTheorems, WellFoundedInduction, TLAPS

-----------------------------------------------------------------------------
(* Extrema.                                                                  *)

\* A set of numbers up to N has a greatest element, which Max returns.
LEMMA MaxIsGreatest ==
    ASSUME NEW N \in Nat, NEW S \in SUBSET (0..N), S # {}
    PROVE  Max(S) \in S /\ \A x \in S : x <= Max(S)
  <1>. DEFINE T == {N - x : x \in S}
              less == OpToRel(<, Nat)
  <1>1. IsWellFoundedOn(less, Nat)
    BY NatLessThanWellFounded
  <1>2. T \subseteq Nat /\ T # {}
    <2>1. \A x \in S : N - x \in Nat
      OBVIOUS
    <2>. QED BY <2>1, Zenon
  <1>3. PICK y \in T : \A z \in T : ~ (<<z, y>> \in less)
    <2>. HIDE DEF T, less
    <2>. QED BY <1>1, <1>2, WFMin
  <1>4. \A z \in T : ~(z < y)
    BY <1>2, <1>3 DEF OpToRel
  <1>5. PICK x \in S : y = N - x
    BY <1>3
  <1>6. \A z \in S : N - z \in T
    OBVIOUS
  <1>7. \A z \in S : x >= z
    <2>. HIDE DEF T
    <2>. QED BY <1>4, <1>5, <1>6
  <1>. QED BY <1>7 DEF Max

\* A set of natural numbers has a least element, which Min returns.
LEMMA MinIsLeast ==
    ASSUME NEW S \in SUBSET Nat, S # {}
    PROVE  Min(S) \in S /\ \A x \in S : Min(S) <= x
  <1>. DEFINE less == OpToRel(<, Nat)
  <1>1. IsWellFoundedOn(less, Nat)
    BY NatLessThanWellFounded
  <1>2. PICK y \in S : \A z \in S : ~ (<<z, y>> \in less)
    <2>. HIDE DEF less
    <2>. QED BY <1>1, WFMin
  <1>3. \A z \in S : ~(z < y)
    BY <1>2 DEF OpToRel
  <1>4. \E x \in S : \A z \in S : x <= z
    BY <1>3
  <1>. QED BY <1>4 DEF Min

-----------------------------------------------------------------------------
(* Types.                                                                    *)

\* The constant values that handlers assign have their field's type.
LEMMA ConstantType ==
    /\ NoRounds \in Tally
    /\ NoIndex \in Indexes
    /\ {} \in Waiters /\ {} \in Applied /\ {} \in Outbox
    /\ MaxWrites \in Quota
    /\ None \in Vote /\ Node \subseteq Vote
    /\ Role = {"Follower", "Candidate", "Leader"}
    /\ [c \in Command |-> 0] \in Registration
    /\ [c \in Command |-> "empty"] \in Deliveries
  BY DEF NoRounds, NoIndex, Tally, Indexes, Waiters, Applied, Outbox, Quota, MaxWrites,
         Vote, Role, Registration, Deliveries, Delivery

\* Each transaction of the storage keeps the state well typed.
LEMMA SaveType ==
    ASSUME NEW n \in NodeState, NEW t \in Nat, NEW v \in Vote
    PROVE  SaveTerm(n, t) \in NodeState /\ SaveVotedFor(n, v) \in NodeState
  <1>1. CanWrite(n) => n.quota - 1 \in Quota
    BY DEF NodeState, Quota, CanWrite, MaxWrites
  <1>2. SaveTerm(n, t) \in NodeState
    BY <1>1 DEF NodeState, SaveTerm
  <1>3. SaveVotedFor(n, v) \in NodeState
    BY <1>1 DEF NodeState, SaveVotedFor
  <1>. QED BY <1>2, <1>3

\* So does appending entries,
LEMMA AppendEntriesType ==
    ASSUME NEW n \in NodeState, NEW entries \in Log
    PROVE  AppendEntries(n, entries) \in NodeState
  <1>1. CanWrite(n) => n.quota - 1 \in Quota
    BY DEF NodeState, Quota, CanWrite, MaxWrites
  <1>2. n.log \o entries \in Log
    BY DEF NodeState, Log
  <1>. QED BY <1>1, <1>2 DEF NodeState, AppendEntries

\* and so does cutting the log.
LEMMA TruncateFromType ==
    ASSUME NEW n \in NodeState, NEW k \in 1..Len(n.log)
    PROVE  TruncateFrom(n, k) \in NodeState
  <1>1. CanWrite(n) => n.quota - 1 \in Quota
    BY DEF NodeState, Quota, CanWrite, MaxWrites
  <1>2. SubSeq(n.log, 1, k - 1) \in Log
    BY DEF NodeState, Log
  <1>. QED BY <1>1, <1>2 DEF NodeState, TruncateFrom

\* An entry of a log is an entry.
LEMMA EntryType ==
    ASSUME NEW log \in Log, NEW k \in 1..Len(log)
    PROVE  /\ log[k] \in Entry
           /\ log[k].term \in Nat
           /\ log[k].command # NoOp => log[k].command \in Command
  <1>1. log[k] \in Entry
    BY ElementOfSeq DEF Log
  <1>. QED BY <1>1 DEF Entry

\* What the storage is asked for has its type.
LEMMA QueryType ==
    ASSUME NEW n \in NodeState, NEW k \in Int
    PROVE  LastIndex(n) \in Nat /\ TermAt(n, k) \in Nat /\ LastTerm(n) \in Nat
  <1>0. n.log \in Log
    BY DEF NodeState
  <1>1. LastIndex(n) \in Nat
    BY <1>0 DEF Log, LastIndex
  <1>2. \A l \in 1..Len(n.log) : n.log[l].term \in Nat
    BY <1>0, EntryType
  <1>3. \A l \in Int : TermAt(n, l) \in Nat
    BY <1>2 DEF TermAt
  <1>. QED BY <1>1, <1>3 DEF LastTerm

\* checkTerm keeps the state well typed.
LEMMA CheckTermType ==
    ASSUME NEW n \in NodeState, NEW t \in Nat
    PROVE  StepDown(n, t) \in NodeState /\ CheckTerm(n, t) \in NodeState
  <1>1. [c \in Command |-> IF c \in n.pendingCommits THEN "ErrNotLeader"
                           ELSE n.commitCh[c]] \in Deliveries
    BY DEF NodeState, Deliveries, Delivery
  <1>2. StepDown(n, t) \in NodeState
    BY <1>1, ConstantType DEF NodeState, StepDown
  <1>3. SaveTerm(StepDown(n, t), t) \in NodeState
    BY <1>2, SaveType, ConstantType
  <1>4. SaveVotedFor(SaveTerm(StepDown(n, t), t), None) \in NodeState
    BY <1>3, SaveType, ConstantType
  <1>. QED BY <1>2, <1>4 DEF CheckTerm

\* Applying committed entries does, whatever the commit index is.
LEMMA ApplyCommittedType ==
    ASSUME NEW n \in NodeState
    PROVE  ApplyCommitted(n) \in NodeState
  <1>. DEFINE applied == {k \in (n.lastApplied + 1)..n.commitIndex :
                              k <= Len(n.log) /\ n.log[k].command # NoOp}
              woken == {c \in n.pendingCommits : n.newIndex[c] \in applied}
              last == IF n.lastApplied < n.commitIndex THEN n.commitIndex ELSE n.lastApplied
              kv == n.kv \cup {<<k, n.log[k].command>> : k \in applied}
              ch == [c \in Command |-> IF c \in woken THEN "nil" ELSE n.commitCh[c]]
  <1>0. n.lastApplied \in Nat /\ n.commitIndex \in Nat /\ n.log \in Log /\ n.kv \in Applied
        /\ n.pendingCommits \in Waiters /\ n.commitCh \in Deliveries
    BY DEF NodeState
  <1>1. \A k \in applied : k \in Nat /\ n.log[k].command \in Command
    <2>1. \A k \in applied : k \in 1..Len(n.log) /\ n.log[k].command # NoOp
      BY <1>0
    <2>. QED BY <1>0, <2>1, EntryType
  <1>2. kv \in Applied
    <2>. HIDE DEF applied
    <2>. QED BY <1>0, <1>1 DEF Applied
  <1>3. ch \in Deliveries
    <2>. HIDE DEF woken
    <2>. QED BY <1>0 DEF Deliveries, Delivery
  <1>4. n.pendingCommits \ woken \in Waiters
    BY <1>0 DEF Waiters
  <1>5. last \in Nat
    BY <1>0
  <1>6. ApplyCommitted(n) = [n EXCEPT !.lastApplied = last, !.kv = kv, !.commitCh = ch,
                                      !.pendingCommits = n.pendingCommits \ woken]
    BY DEF ApplyCommitted
  <1>. HIDE DEF applied, woken, last, kv, ch
  <1>. QED BY <1>2, <1>3, <1>4, <1>5, <1>6, ZenonT(60) DEF NodeState

\* Committing by the count of matching peers does.
LEMMA CheckAndUpdateCommitIndexType ==
    ASSUME NEW n \in NodeState
    PROVE  CheckAndUpdateCommitIndex(n) \in NodeState
  <1>. DEFINE ready == {k \in (n.commitIndex + 1)..LastIndex(n) :
                            TermAt(n, k) = n.currentTerm /\ Replicated(n, k)}
              new == IF ready = {} THEN n.commitIndex ELSE Max(ready)
  <1>1. n.commitIndex \in Nat /\ LastIndex(n) \in Nat
    BY QueryType DEF NodeState
  <1>2. ready \in SUBSET (0..LastIndex(n))
    BY <1>1
  <1>3. new \in Nat
    <2>. HIDE DEF ready
    <2>1. ready # {} => Max(ready) \in ready
      BY <1>1, <1>2, MaxIsGreatest
    <2>2. 0..LastIndex(n) \subseteq Nat
      BY <1>1
    <2>3. ready # {} => Max(ready) \in Nat
      BY <1>2, <2>1, <2>2, Zenon
    <2>. QED BY <1>1, <2>3, Zenon
  <1>4. [n EXCEPT !.commitIndex = new] \in NodeState
    <2>. HIDE DEF new
    <2>. QED BY <1>3 DEF NodeState
  <1>5. CheckAndUpdateCommitIndex(n) =
           IF n.role # "Leader" THEN n ELSE ApplyCommitted([n EXCEPT !.commitIndex = new])
    BY DEF CheckAndUpdateCommitIndex
  <1>6. ApplyCommitted([n EXCEPT !.commitIndex = new]) \in NodeState
    BY <1>4, ApplyCommittedType, Zenon
  <1>. HIDE DEF new
  <1>. QED BY <1>5, <1>6, Zenon

-----------------------------------------------------------------------------
(* Types of the messages and of the handlers that send them.                 *)

\* A request built from nextIndex of at least one is a request.
LEMMA AppendRequestType ==
    ASSUME NEW n \in NodeState, NEW i \in Node, NEW j \in Node, n.nextIndex[j] > 0
    PROVE  AppendRequestTo(i, n, j) \in AppendRequest
  <1>. DEFINE next == n.nextIndex[j]
              last == next + MaxEntriesPerAppend - 1
              end == IF last < LastIndex(n) THEN last ELSE LastIndex(n)
  <1>1. next \in Nat /\ next > 0 /\ n.log \in Seq(Entry) /\ n.currentTerm \in Nat
        /\ n.commitIndex \in Nat /\ LastIndex(n) = Len(n.log)
    BY DEF NodeState, Indexes, Log, LastIndex
  <1>2. end \in Int /\ end <= Len(n.log)
    BY <1>1, BoundAssumption
  <1>3. SubSeq(n.log, next, end) \in Seq(Entry)
    <2>. HIDE DEF next, end
    <2>. QED BY <1>1, <1>2, SubSeqProperties
  <1>4. next - 1 \in Nat
    BY <1>1
  <1>5. TermAt(n, next - 1) \in Nat
    BY <1>4, QueryType
  <1>. QED BY <1>1, <1>3, <1>4, <1>5 DEF AppendRequestTo, AppendRequest

\* Sending to some peers keeps the state well typed.
LEMMA SendAppendEntriesType ==
    ASSUME NEW n \in NodeState, NEW i \in Node, NEW js \in SUBSET Node
    PROVE  SendAppendEntries(i, n, js) \in NodeState
  <1>. DEFINE raised == [j \in Node |-> IF j \in js /\ n.nextIndex[j] = 0 THEN 1
                                        ELSE n.nextIndex[j]]
              m == [n EXCEPT !.nextIndex = raised]
              calls == {AppendRequestTo(i, m, j) : j \in js}
  <1>1. n.nextIndex \in [Node -> Nat] /\ n.out \subseteq Message
    BY DEF NodeState, Indexes, Outbox
  <1>2. raised \in Indexes /\ \A j \in js : raised[j] > 0
    BY <1>1 DEF Indexes
  <1>3. m \in NodeState /\ m.nextIndex = raised /\ m.out = n.out
    <2>. HIDE DEF raised
    <2>. QED BY <1>2 DEF NodeState
  <1>4. calls \subseteq Message
    <2>. HIDE DEF m, raised
    <2>1. \A j \in js : AppendRequestTo(i, m, j) \in AppendRequest
      BY <1>2, <1>3, AppendRequestType
    <2>. QED BY <2>1 DEF Message, Request
  <1>5. m.out \cup calls \in Outbox
    <2>. HIDE DEF m, calls
    <2>. QED BY <1>1, <1>3, <1>4 DEF Outbox
  <1>6. [m EXCEPT !.out = m.out \cup calls] \in NodeState
    <2>. HIDE DEF m, calls
    <2>. QED BY <1>3, <1>5 DEF NodeState
  <1>. QED BY <1>6 DEF SendAppendEntries

\* A new leader with its no-op stored and, in a cluster of one, committed.
LEMMA WinnerType ==
    ASSUME NEW n \in NodeState, NEW i \in Node
    PROVE  /\ FreshLeader(i, n) \in NodeState
           /\ AppendEntries(FreshLeader(i, n), <<NoOpEntry(n)>>) \in NodeState
           /\ CheckAndUpdateCommitIndex(AppendEntries(FreshLeader(i, n), <<NoOpEntry(n)>>))
                 \in NodeState
  <1>. DEFINE next == [j \in Node |-> IF j = i THEN 0 ELSE LastIndex(n) + 1]
              f == FreshLeader(i, n)
              g == AppendEntries(f, <<NoOpEntry(n)>>)
  <1>1. next \in Indexes
    BY QueryType DEF Indexes
  <1>2. f \in NodeState
    <2>. HIDE DEF next
    <2>1. [n EXCEPT !.role = "Leader", !.votesReceived = 0, !.preVotes = NoRounds,
                    !.nextIndex = next, !.matchIndex = NoIndex] \in NodeState
      BY <1>1, ConstantType DEF NodeState
    <2>. QED BY <2>1, Zenon DEF FreshLeader, next
  <1>3. <<NoOpEntry(n)>> \in Log
    BY DEF NoOpEntry, Log, Entry, NodeState
  <1>4. g \in NodeState
    BY <1>2, <1>3, AppendEntriesType
  <1>. QED BY <1>2, <1>4, CheckAndUpdateCommitIndexType

\* becomeLeader keeps the state well typed.
LEMMA BecomeLeaderType ==
    ASSUME NEW n \in NodeState, NEW i \in Node
    PROVE  BecomeLeader(i, n) \in NodeState
  <1>. DEFINE h == CheckAndUpdateCommitIndex(AppendEntries(FreshLeader(i, n), <<NoOpEntry(n)>>))
  <1>1. h \in NodeState
    BY WinnerType
  <1>2. BroadcastAppendEntries(i, h) \in NodeState
    BY <1>1, SendAppendEntriesType DEF BroadcastAppendEntries, Peers
  <1>. QED BY <1>2, Zenon DEF BecomeLeader

\* The calls of a campaign or of a pre-vote round are messages.
LEMMA VoteRequestsType ==
    ASSUME NEW n \in NodeState, NEW i \in Node, NEW t \in Nat, NEW r \in Round,
           NEW type \in {"PreVote", "RequestVote"}
    PROVE  VoteRequests(i, n, type, t, r) \in Outbox
  <1>1. LastIndex(n) \in Nat /\ LastTerm(n) \in Nat
    BY QueryType
  <1>2. \A j \in Node : [type |-> type, caller |-> i, peer |-> j, open |-> TRUE,
                         term |-> t, round |-> r, lastLogIndex |-> LastIndex(n),
                         lastLogTerm |-> LastTerm(n)] \in VoteRequest
    BY <1>1 DEF VoteRequest
  <1>3. VoteRequests(i, n, type, t, r) \subseteq VoteRequest
    BY <1>2, Zenon DEF VoteRequests, Peers
  <1>. QED BY <1>3 DEF Outbox, Message, Request

\* campaignLocked keeps the state well typed.
LEMMA CampaignType ==
    ASSUME NEW n \in NodeState, NEW i \in Node
    PROVE  Campaign(i, n) \in NodeState
  <1>. DEFINE c == Candidacy(i, n)
              s == SaveTerm(c, n.currentTerm + 1)
              m == SaveVotedFor(s, i)
  <1>1. n.currentTerm + 1 \in Nat
    BY DEF NodeState
  <1>2. c \in NodeState
    BY <1>1, ConstantType DEF Candidacy, NodeState
  <1>3. s \in NodeState
    BY <1>1, <1>2, SaveType, ConstantType
  <1>4. m \in NodeState
    BY <1>3, SaveType, ConstantType
  <1>. HIDE DEF m
  <1>5. BecomeLeader(i, m) \in NodeState
    BY <1>4, BecomeLeaderType
  <1>6. VoteRequests(i, m, "RequestVote", m.currentTerm, 1) \in Outbox
    <2>1. m.currentTerm \in Nat /\ 1 \in Round
      BY <1>4, BoundAssumption DEF NodeState, Round
    <2>. QED BY <1>4, <2>1, VoteRequestsType
  <1>7. [m EXCEPT !.out = VoteRequests(i, m, "RequestVote", m.currentTerm, 1)] \in NodeState
    BY <1>4, <1>6 DEF NodeState
  <1>. QED BY <1>5, <1>7, Zenon DEF Campaign, m

\* startElection does.
LEMMA StartElectionType ==
    ASSUME NEW n \in NodeState, NEW i \in Node, NEW r \in Round
    PROVE  StartElection(i, n, r) \in NodeState
  <1>. DEFINE out == VoteRequests(i, n, "PreVote", n.currentTerm + 1, r)
              votes == [n.preVotes EXCEPT ![r] = 1]
  <1>1. out \in Outbox
    BY VoteRequestsType DEF NodeState
  <1>2. votes \in Tally
    BY DEF NodeState, Tally
  <1>3. [n EXCEPT !.preVotes = votes, !.out = out] \in NodeState
    <2>. HIDE DEF votes, out
    <2>. QED BY <1>1, <1>2 DEF NodeState
  <1>. QED BY <1>3, CampaignType DEF StartElection

\* The answer to a RequestVote leaves the state well typed.
LEMMA HandleRequestVoteResponseType ==
    ASSUME NEW n \in NodeState, NEW i \in Node, NEW m \in VoteResponse
    PROVE  HandleRequestVoteResponse(i, n, m) \in NodeState
  <1>. DEFINE counted == [n EXCEPT !.votesReceived = n.votesReceived + 1]
  <1>1. counted \in NodeState
    BY DEF NodeState
  <1>2. BecomeLeader(i, counted) \in NodeState
    BY <1>1, BecomeLeaderType, Zenon
  <1>3. CheckTerm(n, m.term) \in NodeState
    BY CheckTermType DEF VoteResponse
  <1>. QED BY <1>1, <1>2, <1>3, Zenon DEF HandleRequestVoteResponse

\* The answer to a pre-vote leaves the state well typed.
LEMMA HandlePreVoteResponseType ==
    ASSUME NEW n \in NodeState, NEW i \in Node, NEW m \in VoteResponse
    PROVE  HandlePreVoteResponse(i, n, m) \in NodeState
  <1>. DEFINE votes == [n.preVotes EXCEPT ![m.round] = n.preVotes[m.round] + 1]
              counted == [n EXCEPT !.preVotes = votes]
  <1>1. votes \in Tally
    BY DEF NodeState, Tally, VoteResponse
  <1>2. counted \in NodeState
    <2>. HIDE DEF votes
    <2>. QED BY <1>1 DEF NodeState
  <1>3. Campaign(i, counted) \in NodeState
    BY <1>2, CampaignType, Zenon
  <1>4. CheckTerm(n, m.term) \in NodeState
    BY CheckTermType DEF VoteResponse
  <1>5. [n EXCEPT !.preVotes[m.round] = @ + 1] = counted
    OBVIOUS
  <1>. QED BY <1>2, <1>3, <1>4, <1>5, Zenon DEF HandlePreVoteResponse

\* A voter's answer is a message.
LEMMA VoteReplyType ==
    ASSUME NEW n \in NodeState, NEW m \in VoteRequest, NEW granted \in BOOLEAN
    PROVE  VoteReply(n, m, granted) \in NodeState
  <1>. DEFINE reply == [type |-> IF m.type = "PreVote" THEN "PreVoteResponse"
                                 ELSE "RequestVoteResponse",
                        caller |-> m.caller, peer |-> m.peer, reqTerm |-> m.term,
                        round |-> m.round, term |-> n.currentTerm, granted |-> granted]
  <1>1. reply \in VoteResponse
    BY DEF VoteResponse, VoteRequest, NodeState
  <1>2. (IF ~m.open THEN {} ELSE {reply}) \in Outbox
    <2>. HIDE DEF reply
    <2>. QED BY <1>1 DEF Outbox, Message, Response
  <1>3. VoteReply(n, m, granted) = [n EXCEPT !.out = IF ~m.open THEN {} ELSE {reply}]
    BY DEF VoteReply
  <1>. HIDE DEF reply
  <1>. QED BY <1>2, <1>3 DEF NodeState

\* HandleRequestVote and handlePreVoteLocked keep the state well typed.
LEMMA HandleRequestVoteType ==
    ASSUME NEW n \in NodeState, NEW m \in VoteRequest
    PROVE  HandleRequestVote(n, m) \in NodeState /\ HandlePreVote(n, m) \in NodeState
  <1>. DEFINE voter == CheckTerm(n, m.term)
              voted == [voter EXCEPT !.votedFor = m.caller]
  <1>1. m.term \in Nat /\ m.caller \in Vote
    BY ConstantType DEF VoteRequest
  <1>2. voter \in NodeState
    BY <1>1, CheckTermType
  <1>3. voted \in NodeState
    <2>. HIDE DEF voter
    <2>. QED BY <1>1, <1>2 DEF NodeState
  <1>4. SaveVotedFor(voted, m.caller) \in NodeState
    <2>. HIDE DEF voted
    <2>. QED BY <1>1, <1>3, SaveType
  <1>5. VoteReply(SaveVotedFor(voted, m.caller), m, TRUE) \in NodeState
    <2>. HIDE DEF voted
    <2>. QED BY <1>4, VoteReplyType
  <1>6. VoteReply(voter, m, FALSE) \in NodeState /\ VoteReply(n, m, FALSE) \in NodeState
    <2>. HIDE DEF voter
    <2>. QED BY <1>2, VoteReplyType
  <1>7. HandleRequestVote(n, m) \in NodeState
    BY <1>5, <1>6, Zenon DEF HandleRequestVote
  <1>8. HandlePreVote(n, m) \in NodeState
    BY VoteReplyType DEF HandlePreVote
  <1>. QED BY <1>7, <1>8

\* A follower's answer is a message.
LEMMA AppendReplyType ==
    ASSUME NEW n \in NodeState, NEW m \in AppendRequest, NEW success \in BOOLEAN
    PROVE  AppendReply(n, m, success) \in NodeState
  <1>. DEFINE reply == [type |-> "AppendEntriesResponse", caller |-> m.caller, peer |-> m.peer,
                        reqTerm |-> m.term, prevLogIndex |-> m.prevLogIndex,
                        numEntries |-> Len(m.entries), term |-> n.currentTerm,
                        success |-> success]
  <1>0. Len(m.entries) \in Nat
    BY DEF AppendRequest
  <1>1. reply \in AppendResponse
    BY <1>0 DEF AppendResponse, AppendRequest, NodeState
  <1>2. (IF ~m.open THEN {} ELSE {reply}) \in Outbox
    <2>. HIDE DEF reply
    <2>. QED BY <1>1 DEF Outbox, Message, Response
  <1>3. AppendReply(n, m, success) = [n EXCEPT !.out = IF ~m.open THEN {} ELSE {reply}]
    BY DEF AppendReply
  <1>. HIDE DEF reply
  <1>. QED BY <1>2, <1>3 DEF NodeState

\* Storing a batch keeps the state well typed.
LEMMA ReconcileType ==
    ASSUME NEW n \in NodeState, NEW m \in AppendRequest
    PROVE  Reconcile(n, m) \in NodeState
  <1>. DEFINE U == Unstored(n, m)
              first == Min(U)
              from == m.prevLogIndex + first
              rest == SubSeq(m.entries, first, Len(m.entries))
  <1>. SUFFICES ASSUME U # {} PROVE Reconcile(n, m) \in NodeState
    BY Zenon DEF Reconcile
  <1>0. m.entries \in Seq(Entry) /\ m.prevLogIndex \in Nat /\ LastIndex(n) = Len(n.log)
    BY DEF AppendRequest, LastIndex
  <1>1. U \subseteq 1..Len(m.entries) /\ U \in SUBSET Nat
    BY <1>0 DEF Unstored
  <1>2. first \in 1..Len(m.entries)
    <2>. HIDE DEF U
    <2>1. first \in U
      BY <1>1, MinIsLeast
    <2>. QED BY <1>1, <2>1
  <1>3. rest \in Log
    <2>. HIDE DEF first
    <2>. QED BY <1>0, <1>2, SubSeqProperties DEF Log
  <1>4. from \in Nat \ {0}
    <2>. HIDE DEF first
    <2>. QED BY <1>0, <1>2
  <1>. HIDE DEF first, from, rest, U
  <1>5. AppendEntries(n, rest) \in NodeState
    BY <1>3, AppendEntriesType
  <1>6. ASSUME ~(from > LastIndex(n))
        PROVE  AppendEntries(TruncateFrom(n, from), rest) \in NodeState
    <2>1. Len(n.log) \in Nat
      BY DEF NodeState, Log
    <2>2. from \in 1..Len(n.log)
      BY <1>0, <1>4, <1>6, <2>1
    <2>3. TruncateFrom(n, from) \in NodeState
      BY <2>2, TruncateFromType
    <2>. QED BY <1>3, <2>3, AppendEntriesType
  <1>. QED BY <1>5, <1>6, Zenon DEF Reconcile, U, first, from, rest

\* Following the leader's commit index does.
LEMMA FollowerCommitType ==
    ASSUME NEW n \in NodeState, NEW m \in AppendRequest
    PROVE  FollowerCommit(n, m) \in NodeState
  <1>. DEFINE lastNew == m.prevLogIndex + Len(m.entries)
              new == IF lastNew < m.leaderCommit THEN lastNew ELSE m.leaderCommit
  <1>1. new \in Nat
    BY DEF AppendRequest
  <1>2. [n EXCEPT !.commitIndex = new] \in NodeState
    <2>. HIDE DEF new
    <2>. QED BY <1>1 DEF NodeState
  <1>3. ApplyCommitted([n EXCEPT !.commitIndex = new]) \in NodeState
    BY <1>2, ApplyCommittedType, Zenon
  <1>. QED BY <1>3, Zenon DEF FollowerCommit

\* Accepting a leader does.
LEMMA AcceptLeaderType ==
    ASSUME NEW n \in NodeState, NEW m \in AppendRequest
    PROVE  AcceptLeader(n, m) \in NodeState
  <1>. DEFINE f == CheckTerm(n, m.term)
              role == IF f.role = "Candidate" THEN "Follower" ELSE f.role
  <1>1. f \in NodeState
    BY CheckTermType DEF AppendRequest
  <1>2. role \in Role
    <2>. HIDE DEF f
    <2>. QED BY <1>1, ConstantType DEF NodeState
  <1>3. m.caller \in Vote
    BY ConstantType DEF AppendRequest
  <1>4. [f EXCEPT !.role = role, !.votesReceived = 0, !.preVotes = NoRounds,
                  !.leaderID = m.caller, !.leaderContact = TRUE] \in NodeState
    <2>. HIDE DEF f, role
    <2>. QED BY <1>1, <1>2, <1>3, ConstantType DEF NodeState
  <1>. QED BY <1>4, Zenon DEF AcceptLeader

\* HandleAppendEntries does.
LEMMA HandleAppendEntriesType ==
    ASSUME NEW n \in NodeState, NEW m \in AppendRequest
    PROVE  HandleAppendEntries(n, m) \in NodeState
  <1>. DEFINE f == AcceptLeader(n, m)
              g == Reconcile(f, m)
              h == FollowerCommit(g, m)
  <1>1. f \in NodeState
    BY AcceptLeaderType
  <1>2. g \in NodeState
    <2>. HIDE DEF f
    <2>. QED BY <1>1, ReconcileType
  <1>3. h \in NodeState
    <2>. HIDE DEF g
    <2>. QED BY <1>2, FollowerCommitType
  <1>4. /\ AppendReply(n, m, FALSE) \in NodeState
        /\ AppendReply(f, m, FALSE) \in NodeState
        /\ AppendReply(g, m, FALSE) \in NodeState
        /\ AppendReply(h, m, TRUE) \in NodeState
    <2>. HIDE DEF f, g, h
    <2>. QED BY <1>1, <1>2, <1>3, AppendReplyType
  <1>. QED BY <1>4, Zenon DEF HandleAppendEntries

\* What the answer of a peer makes of the leader's indexes.
LEMMA ResponseType ==
    ASSUME NEW n \in NodeState, NEW m \in AppendResponse
    PROVE  LET j == m.peer
               match == m.prevLogIndex + m.numEntries
           IN  /\ [n EXCEPT !.nextIndex[j] = IF match + 1 > @ THEN match + 1 ELSE @,
                            !.matchIndex[j] = IF match > @ THEN match ELSE @] \in NodeState
               /\ n.nextIndex[j] > 1 => [n EXCEPT !.nextIndex[j] = @ - 1] \in NodeState
  <1>. DEFINE j == m.peer
              match == m.prevLogIndex + m.numEntries
              next == [n.nextIndex EXCEPT ![j] = IF match + 1 > n.nextIndex[j] THEN match + 1
                                                 ELSE n.nextIndex[j]]
              matched == [n.matchIndex EXCEPT ![j] = IF match > n.matchIndex[j] THEN match
                                                     ELSE n.matchIndex[j]]
              advanced == [n EXCEPT !.nextIndex = next, !.matchIndex = matched]
              lower == [n.nextIndex EXCEPT ![j] = n.nextIndex[j] - 1]
              retreated == [n EXCEPT !.nextIndex = lower]
  <1>0. n.nextIndex \in [Node -> Nat] /\ n.matchIndex \in [Node -> Nat] /\ j \in Node
        /\ match \in Nat
    BY DEF NodeState, Indexes, AppendResponse
  <1>1. next \in Indexes /\ matched \in Indexes
    <2>. HIDE DEF match, j
    <2>. QED BY <1>0 DEF Indexes
  <1>2. n.nextIndex[j] > 1 => lower \in Indexes
    <2>. HIDE DEF j
    <2>. QED BY <1>0 DEF Indexes
  <1>3. advanced \in NodeState
    <2>. HIDE DEF next, matched
    <2>. QED BY <1>1 DEF NodeState
  <1>4. n.nextIndex[j] > 1 => retreated \in NodeState
    <2>. HIDE DEF lower
    <2>. QED BY <1>2 DEF NodeState
  <1>. QED BY <1>3, <1>4, Zenon

\* The answer to AppendEntries leaves the state well typed.
LEMMA HandleAppendEntriesResponseType ==
    ASSUME NEW n \in NodeState, NEW i \in Node, NEW m \in AppendResponse
    PROVE  HandleAppendEntriesResponse(i, n, m) \in NodeState
  <1>. DEFINE j == m.peer
              match == m.prevLogIndex + m.numEntries
              advanced == [n EXCEPT !.nextIndex[j] = IF match + 1 > @ THEN match + 1 ELSE @,
                                    !.matchIndex[j] = IF match > @ THEN match ELSE @]
              retreated == [n EXCEPT !.nextIndex[j] = @ - 1]
  <1>1. advanced \in NodeState /\ (n.nextIndex[j] > 1 => retreated \in NodeState)
    BY ResponseType, Zenon
  <1>2. CheckAndUpdateCommitIndex(advanced) \in NodeState
    BY <1>1, CheckAndUpdateCommitIndexType, Zenon
  <1>3. n.nextIndex[j] > 1 => SendAppendEntries(i, retreated, {j}) \in NodeState
    <2>1. j \in Node
      BY DEF AppendResponse
    <2>. HIDE DEF retreated, j
    <2>. QED BY <1>1, <2>1, SendAppendEntriesType
  <1>4. CheckTerm(n, m.term) \in NodeState
    BY CheckTermType DEF AppendResponse
  <1>. QED BY <1>2, <1>3, <1>4, Zenon DEF HandleAppendEntriesResponse

\* A proposal's entry is stored, and its waiter registered.
LEMMA ProposedType ==
    ASSUME NEW n \in NodeState, NEW c \in Command
    PROVE  LET new == LastIndex(n) + 1
               m == AppendEntries(n, <<[term |-> n.currentTerm, command |-> c]>>)
           IN  /\ m \in NodeState
               /\ [m EXCEPT !.commitIndex = new] \in NodeState
               /\ [m EXCEPT !.pendingCommits = {d \in @ : n.newIndex[d] # new} \cup {c},
                            !.newIndex[c] = new, !.commitCh[c] = "empty"] \in NodeState
  <1>. DEFINE new == LastIndex(n) + 1
              m == AppendEntries(n, <<[term |-> n.currentTerm, command |-> c]>>)
              room == {d \in m.pendingCommits : n.newIndex[d] # new} \cup {c}
              index == [m.newIndex EXCEPT ![c] = new]
              ch == [m.commitCh EXCEPT ![c] = "empty"]
  <1>1. <<[term |-> n.currentTerm, command |-> c]>> \in Log
    BY DEF Log, Entry, NodeState
  <1>2. m \in NodeState
    BY <1>1, AppendEntriesType
  <1>3. new \in Nat
    BY QueryType
  <1>. HIDE DEF m, new
  <1>4. room \in Waiters /\ index \in Registration /\ ch \in Deliveries
    BY <1>2, <1>3 DEF NodeState, Waiters, Registration, Deliveries, Delivery
  <1>5. [m EXCEPT !.commitIndex = new] \in NodeState
    BY <1>2, <1>3 DEF NodeState
  <1>6. [m EXCEPT !.pendingCommits = room, !.newIndex = index, !.commitCh = ch] \in NodeState
    <2>. HIDE DEF room, index, ch
    <2>. QED BY <1>2, <1>4 DEF NodeState
  <1>. QED BY <1>2, <1>5, <1>6, Zenon DEF m, new

\* ProposeCommand keeps the state well typed.
LEMMA ProposeCommandType ==
    ASSUME NEW n \in NodeState, NEW i \in Node, NEW c \in Command
    PROVE  ProposeCommand(i, n, c) \in NodeState
  <1>. DEFINE new == LastIndex(n) + 1
              m == AppendEntries(n, <<[term |-> n.currentTerm, command |-> c]>>)
              waiting == [m EXCEPT !.pendingCommits = {d \in @ : n.newIndex[d] # new} \cup {c},
                                   !.newIndex[c] = new, !.commitCh[c] = "empty"]
  <1>1. [m EXCEPT !.commitIndex = new] \in NodeState /\ waiting \in NodeState
    BY ProposedType, Zenon
  <1>2. ApplyCommitted([m EXCEPT !.commitIndex = new]) \in NodeState
    BY <1>1, ApplyCommittedType, Zenon
  <1>3. BroadcastAppendEntries(i, waiting) \in NodeState
    <2>. HIDE DEF waiting
    <2>. QED BY <1>1, SendAppendEntriesType DEF BroadcastAppendEntries, Peers
  <1>. QED BY <1>2, <1>3, Zenon DEF ProposeCommand

\* The end of a blocked ProposeCommand does.
LEMMA ProposalEndType ==
    ASSUME NEW n \in NodeState, NEW c \in Command
    PROVE  ProposalReturns(n, c) \in NodeState /\ ProposalTimesOut(n, c) \in NodeState
  <1>. DEFINE index == [n.newIndex EXCEPT ![c] = 0]
              ch == [n.commitCh EXCEPT ![c] = "empty"]
              room == {d \in n.pendingCommits : n.newIndex[d] # n.newIndex[c]}
  <1>1. index \in Registration /\ ch \in Deliveries /\ room \in Waiters
    BY DEF NodeState, Waiters, Registration, Deliveries, Delivery
  <1>. HIDE DEF index, ch, room
  <1>2. [n EXCEPT !.newIndex = index, !.commitCh = ch] \in NodeState
    BY <1>1 DEF NodeState
  <1>3. [n EXCEPT !.pendingCommits = room, !.newIndex = index, !.commitCh = ch] \in NodeState
    BY <1>1 DEF NodeState
  <1>. QED BY <1>2, <1>3, Zenon DEF ProposalReturns, ProposalTimesOut, index, ch, room

\* A restart from storage gives a well typed state.
LEMMA NewRaftNodeType ==
    ASSUME NEW n, n.diskTerm \in Nat, n.diskVote \in Vote, n.log \in Log
    PROVE  NewRaftNode(n) \in NodeState
  BY ConstantType DEF NewRaftNode, NodeState

-----------------------------------------------------------------------------
(* Type correctness.                                                         *)

\* What is left of a network after a node's death has the type of messages.
LEMMA OrphanType ==
    ASSUME NEW net \in SUBSET Message, NEW i \in Node
    PROVE  Orphan(net, i) \subseteq Message
  <1>1. ASSUME NEW m \in net, IsRequest(m)
        PROVE  [m EXCEPT !.open = FALSE] \in Message
    <2>1. m \in VoteRequest \/ m \in AppendRequest
      BY <1>1 DEF Message, Request, Response, VoteResponse, AppendResponse, IsRequest
    <2>2. m \in VoteRequest => [m EXCEPT !.open = FALSE] \in VoteRequest
      BY DEF VoteRequest
    <2>3. m \in AppendRequest => [m EXCEPT !.open = FALSE] \in AppendRequest
      BY DEF AppendRequest
    <2>. QED BY <2>1, <2>2, <2>3 DEF Message, Request
  <1>. QED BY <1>1 DEF Orphan

\* A message is of the record type its type field names.
LEMMA MessageKind ==
    ASSUME NEW m \in Message
    PROVE  /\ m.type \in {"PreVote", "RequestVote"} => m \in VoteRequest
           /\ m.type = "AppendEntries" => m \in AppendRequest
           /\ m.type \in {"PreVoteResponse", "RequestVoteResponse"} => m \in VoteResponse
           /\ m.type = "AppendEntriesResponse" => m \in AppendResponse
           /\ m.caller \in Node /\ m.peer \in Node
  BY DEF Message, Request, Response, VoteRequest, AppendRequest, VoteResponse, AppendResponse

\* A node's new state, and the history it adds, are well typed.
LEMMA BecomeType ==
    ASSUME TypeOK, NEW i \in Node, NEW n \in NodeState, n.quota = MaxWrites, n.out = {},
           Become(i, n)
    PROVE  /\ node' \in [Node -> NodeState]
           /\ \A j \in Node : node'[j].quota = MaxWrites /\ node'[j].out = {}
           /\ ballots' \subseteq Ballot
           /\ elected' \subseteq Elected
           /\ committed' \in Log
  <1>1. node' = [node EXCEPT ![i] = n] /\ node \in [Node -> NodeState]
    BY DEF Become, TypeOK
  <1>2. node' \in [Node -> NodeState]
    BY <1>1
  <1>3. \A j \in Node : node'[j].quota = MaxWrites /\ node'[j].out = {}
    BY <1>1 DEF TypeOK
  <1>4. n.currentTerm \in Nat /\ n.votedFor \in Node \cup {None} /\ n.log \in Seq(Entry)
        /\ n.commitIndex \in Nat
    BY DEF NodeState, Vote, Log
  <1>5. ballots' \subseteq Ballot
    BY <1>4 DEF Become, Witness, TypeOK, Ballot
  <1>6. elected' \subseteq Elected
    BY <1>4 DEF Become, Witness, TypeOK, Elected
  <1>7. CommittedLog(n) \in Log
    <2>. DEFINE end == IF n.commitIndex < LastIndex(n) THEN n.commitIndex ELSE LastIndex(n)
    <2>1. end \in 0..Len(n.log)
      BY <1>4 DEF LastIndex
    <2>2. SubSeq(n.log, 1, end) \in Seq(Entry)
      <3>. HIDE DEF end
      <3>. QED BY <1>4, <2>1, SubSeqProperties
    <2>. QED BY <2>2 DEF CommittedLog, Log
  <1>8. committed' \in Log
    BY <1>7 DEF Become, Witness, TypeOK
  <1>. QED BY <1>2, <1>3, <1>5, <1>6, <1>8

\* A critical section that completes keeps the types.
LEMMA CompletesType ==
    ASSUME TypeOK, NEW i \in Node, NEW n \in NodeState, NEW handled,
           NEW told \in [Command -> Outcome], Completes(i, n, handled, told)
    PROVE  TypeOK'
  <1>. DEFINE done == [n EXCEPT !.quota = MaxWrites, !.out = {}]
  <1>1. done \in NodeState /\ done.quota = MaxWrites /\ done.out = {}
    BY ConstantType DEF NodeState
  <1>2. Become(i, done)
    BY Zenon DEF Completes
  <1>. HIDE DEF done
  <1>3. /\ node' \in [Node -> NodeState]
        /\ \A j \in Node : node'[j].quota = MaxWrites /\ node'[j].out = {}
        /\ ballots' \subseteq Ballot
        /\ elected' \subseteq Elected
        /\ committed' \in Log
    BY <1>1, <1>2, BecomeType
  <1>4. rpcs' \subseteq Message
    <2>1. n.out \subseteq Message /\ rpcs \subseteq Message
      BY DEF NodeState, Outbox, TypeOK
    <2>2. Send(rpcs \ handled, n.out)
      BY Zenon DEF Completes
    <2>. QED BY <2>1, <2>2 DEF Send
  <1>5. outcome' = told /\ crashes' = crashes
    BY Zenon DEF Completes
  <1>. QED BY <1>3, <1>4, <1>5, Zenon DEF TypeOK

\* A crash in the middle of a critical section keeps the types.
LEMMA DiesType ==
    ASSUME TypeOK, NEW i \in Node, NEW n \in NodeState, NEW handled, Dies(i, n, handled)
    PROVE  TypeOK'
  <1>1. NewRaftNode(n) \in NodeState
    BY NewRaftNodeType DEF NodeState
  <1>2. NewRaftNode(n).quota = MaxWrites /\ NewRaftNode(n).out = {}
    BY DEF NewRaftNode
  <1>3. /\ node' \in [Node -> NodeState]
        /\ \A j \in Node : node'[j].quota = MaxWrites /\ node'[j].out = {}
        /\ ballots' \subseteq Ballot
        /\ elected' \subseteq Elected
        /\ committed' \in Log
    BY <1>1, <1>2, BecomeType DEF Dies
  <1>4. rpcs' \subseteq Message
    BY OrphanType DEF Dies, TypeOK
  <1>5. outcome' \in [Command -> Outcome]
    BY DEF Dies, TypeOK, Outcome
  <1>6. crashes' \in 0..MaxCrashes
    BY ClusterAssumption DEF Dies, TypeOK
  <1>. QED BY <1>3, <1>4, <1>5, <1>6, Zenon DEF TypeOK

\* So a critical section keeps the types however it ends.
LEMMA SettlesType ==
    ASSUME TypeOK, NEW i \in Node, NEW w, NEW n \in NodeState, NEW handled,
           NEW told \in [Command -> Outcome], Settles(i, w, n, handled, told)
    PROVE  TypeOK'
  BY CompletesType, DiesType DEF Settles

\* A handler starts from a well typed state whatever its quota.
LEMMA WithType ==
    ASSUME TypeOK, NEW i \in Node, NEW w \in Quotas
    PROVE  node[i] \in NodeState /\ With(i, w) \in NodeState
  <1>1. node[i] \in NodeState
    BY DEF TypeOK
  <1>2. w \in Quota
    BY DEF Quotas, Quota, MaxWrites
  <1>. QED BY <1>1, <1>2 DEF With, NodeState

\* The initial state is well typed.
LEMMA InitType == Init => TypeOK
  <1>. SUFFICES ASSUME Init PROVE TypeOK
    OBVIOUS
  <1>1. NewRaftNode(EmptyDisk) \in NodeState
    <2>1. EmptyDisk.diskTerm \in Nat /\ EmptyDisk.diskVote \in Vote /\ EmptyDisk.log \in Log
      BY ConstantType DEF EmptyDisk, Log
    <2>. QED BY <2>1, NewRaftNodeType
  <1>2. NewRaftNode(EmptyDisk).quota = MaxWrites /\ NewRaftNode(EmptyDisk).out = {}
    BY DEF NewRaftNode
  <1>3. <<>> \in Log
    BY DEF Log
  <1>. QED BY <1>1, <1>2, <1>3, ClusterAssumption DEF Init, TypeOK, Outcome

\* Every action keeps the types.
LEMMA NextType == TypeOK /\ [Next]_vars => TypeOK'
  <1>. SUFFICES ASSUME TypeOK, [Next]_vars PROVE TypeOK'
    OBVIOUS
  <1>0. outcome \in [Command -> Outcome] /\ rpcs \subseteq Message
    BY DEF TypeOK
  <1>a. MaxWrites \in Quotas
    BY DEF Quotas, MaxWrites
  <1>b. \A i \in Node : node[i] \in NodeState
    BY <1>a, WithType
  <1>1. ASSUME NEW i \in Node, NEW r \in Round, ElectionTimeout(i, r) PROVE TypeOK'
    <2>1. PICK w \in Quotas : Settles(i, w, StartElection(i, With(i, w), r), {}, outcome)
      BY <1>1 DEF ElectionTimeout
    <2>2. StartElection(i, With(i, w), r) \in NodeState
      BY WithType, StartElectionType
    <2>. QED BY <1>0, <2>1, <2>2, SettlesType
  <1>2. ASSUME NEW i \in Node, HeartbeatTimeout(i) PROVE TypeOK'
    <2>1. BroadcastAppendEntries(i, node[i]) \in NodeState
      BY <1>b, SendAppendEntriesType DEF BroadcastAppendEntries, Peers
    <2>. QED BY <1>0, <1>2, <2>1, CompletesType DEF HeartbeatTimeout
  <1>3. ASSUME NEW i \in Node, LeaderContactExpires(i) PROVE TypeOK'
    <2>1. [node[i] EXCEPT !.leaderContact = FALSE] \in NodeState
      BY <1>b, ZenonT(60) DEF NodeState
    <2>. QED BY <1>0, <1>3, <2>1, CompletesType DEF LeaderContactExpires
  <1>4. ASSUME NEW i \in Node, Crash(i) PROVE TypeOK'
    BY <1>b, <1>4, DiesType DEF Crash
  <1>5. ASSUME NEW m \in rpcs, ReceivePreVote(m) PROVE TypeOK'
    <2>1. m \in VoteRequest /\ m.peer \in Node
      BY <1>0, <1>5, MessageKind DEF ReceivePreVote
    <2>2. HandlePreVote(node[m.peer], m) \in NodeState
      BY <1>b, <2>1, HandleRequestVoteType
    <2>. QED BY <1>0, <1>5, <2>1, <2>2, CompletesType DEF ReceivePreVote
  <1>6. ASSUME NEW m \in rpcs, ReceiveRequestVote(m) PROVE TypeOK'
    <2>1. m \in VoteRequest /\ m.peer \in Node
      BY <1>0, <1>6, MessageKind DEF ReceiveRequestVote
    <2>2. PICK w \in Quotas :
            Settles(m.peer, w, HandleRequestVote(With(m.peer, w), m), {m}, outcome)
      BY <1>6 DEF ReceiveRequestVote
    <2>3. HandleRequestVote(With(m.peer, w), m) \in NodeState
      BY <2>1, WithType, HandleRequestVoteType
    <2>. QED BY <1>0, <2>1, <2>2, <2>3, SettlesType
  <1>7. ASSUME NEW m \in rpcs, ReceiveAppendEntries(m) PROVE TypeOK'
    <2>1. m \in AppendRequest /\ m.peer \in Node
      BY <1>0, <1>7, MessageKind DEF ReceiveAppendEntries
    <2>2. PICK w \in Quotas :
            Settles(m.peer, w, HandleAppendEntries(With(m.peer, w), m), {m}, outcome)
      BY <1>7 DEF ReceiveAppendEntries
    <2>3. HandleAppendEntries(With(m.peer, w), m) \in NodeState
      BY <2>1, WithType, HandleAppendEntriesType
    <2>. QED BY <1>0, <2>1, <2>2, <2>3, SettlesType
  <1>8. ASSUME NEW m \in rpcs, ReceivePreVoteResponse(m) PROVE TypeOK'
    <2>1. m \in VoteResponse /\ m.caller \in Node
      BY <1>0, <1>8, MessageKind DEF ReceivePreVoteResponse
    <2>2. PICK w \in Quotas :
            Settles(m.caller, w, HandlePreVoteResponse(m.caller, With(m.caller, w), m),
                    {m}, outcome)
      BY <1>8 DEF ReceivePreVoteResponse
    <2>3. HandlePreVoteResponse(m.caller, With(m.caller, w), m) \in NodeState
      BY <2>1, WithType, HandlePreVoteResponseType
    <2>. QED BY <1>0, <2>1, <2>2, <2>3, SettlesType
  <1>9. ASSUME NEW m \in rpcs, ReceiveRequestVoteResponse(m) PROVE TypeOK'
    <2>1. m \in VoteResponse /\ m.caller \in Node
      BY <1>0, <1>9, MessageKind DEF ReceiveRequestVoteResponse
    <2>2. PICK w \in Quotas :
            Settles(m.caller, w, HandleRequestVoteResponse(m.caller, With(m.caller, w), m),
                    {m}, outcome)
      BY <1>9 DEF ReceiveRequestVoteResponse
    <2>3. HandleRequestVoteResponse(m.caller, With(m.caller, w), m) \in NodeState
      BY <2>1, WithType, HandleRequestVoteResponseType
    <2>. QED BY <1>0, <2>1, <2>2, <2>3, SettlesType
  <1>10. ASSUME NEW m \in rpcs, ReceiveAppendEntriesResponse(m) PROVE TypeOK'
    <2>1. m \in AppendResponse /\ m.caller \in Node
      BY <1>0, <1>10, MessageKind DEF ReceiveAppendEntriesResponse
    <2>2. PICK w \in Quotas :
            Settles(m.caller, w, HandleAppendEntriesResponse(m.caller, With(m.caller, w), m),
                    {m}, outcome)
      BY <1>10 DEF ReceiveAppendEntriesResponse
    <2>3. HandleAppendEntriesResponse(m.caller, With(m.caller, w), m) \in NodeState
      BY <2>1, WithType, HandleAppendEntriesResponseType
    <2>. QED BY <1>0, <2>1, <2>2, <2>3, SettlesType
  <1>11. ASSUME NEW m \in rpcs, CallFails(m) PROVE TypeOK'
    BY <1>11 DEF CallFails, TypeOK
  <1>12. ASSUME NEW i \in Node, NEW c \in Command, Propose(i, c) PROVE TypeOK'
    <2>1. PICK w \in Quotas :
            Settles(i, w, ProposeCommand(i, With(i, w), c), {}, Proposed(i, w, c))
      BY <1>12 DEF Propose
    <2>2. ProposeCommand(i, With(i, w), c) \in NodeState
      BY WithType, ProposeCommandType
    <2>3. Proposed(i, w, c) \in [Command -> Outcome]
      BY <1>0 DEF Proposed, Outcome
    <2>. QED BY <2>1, <2>2, <2>3, SettlesType
  <1>13. ASSUME NEW i \in Node, NEW c \in Command, ProposeReturns(i, c) PROVE TypeOK'
    <2>. DEFINE told == [outcome EXCEPT ![c] = IF node[i].commitCh[c] = "nil" THEN "ok"
                                               ELSE "failed"]
    <2>1. Completes(i, ProposalReturns(node[i], c), {}, told)
      BY <1>13, Zenon DEF ProposeReturns
    <2>2. told \in [Command -> Outcome]
      BY <1>0 DEF Outcome
    <2>3. ProposalReturns(node[i], c) \in NodeState
      BY <1>b, ProposalEndType
    <2>. HIDE DEF told
    <2>. QED BY <2>1, <2>2, <2>3, CompletesType
  <1>14. ASSUME NEW i \in Node, NEW c \in Command, ProposeTimesOut(i, c) PROVE TypeOK'
    <2>1. [outcome EXCEPT ![c] = "failed"] \in [Command -> Outcome]
      BY <1>0 DEF Outcome
    <2>2. ProposalTimesOut(node[i], c) \in NodeState
      BY <1>b, ProposalEndType
    <2>. QED BY <1>14, <2>1, <2>2, CompletesType, Zenon DEF ProposeTimesOut
  <1>15. CASE UNCHANGED vars
    BY <1>15 DEF vars, TypeOK
  <1>. QED
    BY <1>1, <1>2, <1>3, <1>4, <1>5, <1>6, <1>7, <1>8, <1>9, <1>10, <1>11, <1>12, <1>13,
       <1>14, <1>15, Zenon DEF Next

\* Every handler, run to its end or cut short after any of its transactions,
\* leaves every field, message and history variable in its type.
THEOREM TypeCorrect == Spec => []TypeOK
  BY InitType, NextType, PTL DEF Spec

-----------------------------------------------------------------------------
(* What the handlers do to term, vote, role and tally.                       *)

\* r is n as far as elections are concerned.
Calm(n, r) ==
    /\ r.role = n.role /\ r.currentTerm = n.currentTerm /\ r.votedFor = n.votedFor
    /\ r.votesReceived = n.votesReceived
    /\ r.diskTerm = n.diskTerm /\ r.diskVote = n.diskVote
    /\ \A m \in r.out : VoteCall(m) => m \in n.out

\* Nothing that concerns the log, the commit index or the waiting room touches
\* the term, the vote or the role.
LEMMA LogCalm ==
    ASSUME NEW n \in NodeState, NEW entries, NEW k
    PROVE  /\ Calm(n, AppendEntries(n, entries))
           /\ Calm(n, TruncateFrom(n, k))
  BY DEF Calm, NodeState, AppendEntries, TruncateFrom

\* Two such steps make one.
LEMMA CalmTrans ==
    ASSUME NEW n, NEW m, NEW r, Calm(n, m), Calm(m, r)
    PROVE  Calm(n, r)
  BY DEF Calm

\* applyCommittedEntriesLocked, at whatever commit index, changes no vote.
LEMMA CommitCalm ==
    ASSUME NEW n \in NodeState, NEW new
    PROVE  Calm(n, ApplyCommitted([n EXCEPT !.commitIndex = new]))
  BY DEF Calm, NodeState, ApplyCommitted

\* Nor does a leader that commits.
LEMMA CheckAndUpdateCommitIndexCalm ==
    ASSUME NEW n \in NodeState
    PROVE  Calm(n, CheckAndUpdateCommitIndex(n))
  <1>1. Calm(n, n)
    BY DEF Calm
  <1>. QED BY <1>1, CommitCalm, Zenon DEF CheckAndUpdateCommitIndex

\* Nor does a leader that sends: what it sends asks for no vote.
LEMMA SendAppendEntriesCalm ==
    ASSUME NEW n \in NodeState, NEW i, NEW js
    PROVE  /\ Calm(n, SendAppendEntries(i, n, js))
           /\ Calm(n, BroadcastAppendEntries(i, n))
  <1>1. ASSUME NEW ks PROVE Calm(n, SendAppendEntries(i, n, ks))
    <2>. DEFINE raised == [j \in Node |-> IF j \in ks /\ n.nextIndex[j] = 0 THEN 1
                                          ELSE n.nextIndex[j]]
                m == [n EXCEPT !.nextIndex = raised]
                calls == {AppendRequestTo(i, m, j) : j \in ks}
    <2>1. \A c \in calls : ~VoteCall(c)
      <3>. HIDE DEF m
      <3>1. \A j : AppendRequestTo(i, m, j).type = "AppendEntries"
        BY DEF AppendRequestTo
      <3>. QED BY <3>1 DEF VoteCall
    <2>2. m.out = n.out
      BY DEF NodeState
    <2>3. Calm(n, [m EXCEPT !.out = m.out \cup calls])
      <3>. HIDE DEF raised, calls
      <3>. QED BY <2>1 DEF Calm, NodeState
    <2>4. Calm(n, n)
      BY DEF Calm
    <2>. QED BY <2>3, <2>4, Zenon DEF SendAppendEntries
  <1>. QED BY <1>1 DEF BroadcastAppendEntries

\* Nor does a follower that stores the entries of a batch,
LEMMA ReconcileCalm ==
    ASSUME NEW n \in NodeState, NEW m \in AppendRequest
    PROVE  Calm(n, Reconcile(n, m))
  BY DEF Calm, NodeState, Reconcile, AppendEntries, TruncateFrom

\* commits what it was sent,
LEMMA FollowerCommitCalm ==
    ASSUME NEW n \in NodeState, NEW m \in AppendRequest
    PROVE  Calm(n, FollowerCommit(n, m))
  <1>1. Calm(n, n)
    BY DEF Calm
  <1>. QED BY <1>1, CommitCalm, Zenon DEF FollowerCommit

\* and answers.
LEMMA AppendReplyCalm ==
    ASSUME NEW n \in NodeState, NEW m \in AppendRequest, NEW success
    PROVE  Calm(n, AppendReply(n, m, success))
  BY DEF Calm, NodeState, AppendReply, VoteCall

\* A node that wins changes its role and nothing else of this.
LEMMA BecomeLeaderCalm ==
    ASSUME NEW n \in NodeState, NEW i \in Node, n.role = "Candidate"
    PROVE  LET r == BecomeLeader(i, n)
           IN  /\ r.role = "Leader" /\ r.currentTerm = n.currentTerm /\ r.votedFor = n.votedFor
               /\ r.diskTerm = n.diskTerm /\ r.diskVote = n.diskVote
               /\ \A m \in r.out : VoteCall(m) => m \in n.out
  <1>. DEFINE f == FreshLeader(i, n)
              g == AppendEntries(f, <<NoOpEntry(n)>>)
              h == CheckAndUpdateCommitIndex(g)
              b == BroadcastAppendEntries(i, h)
  <1>1. /\ f.role = "Leader" /\ f.currentTerm = n.currentTerm /\ f.votedFor = n.votedFor
        /\ f.diskTerm = n.diskTerm /\ f.diskVote = n.diskVote /\ f.out = n.out
    BY DEF FreshLeader, NodeState
  <1>2. f \in NodeState /\ g \in NodeState /\ h \in NodeState
    BY WinnerType
  <1>. HIDE DEF f
  <1>3. Calm(f, g)
    BY <1>2, LogCalm
  <1>. HIDE DEF g
  <1>4. Calm(g, h)
    BY <1>2, CheckAndUpdateCommitIndexCalm
  <1>. HIDE DEF h
  <1>5. Calm(h, b)
    BY <1>2, SendAppendEntriesCalm
  <1>. HIDE DEF b
  <1>6. Calm(f, b)
    BY <1>3, <1>4, <1>5, CalmTrans
  <1>7. BecomeLeader(i, n) = b
    BY Zenon DEF BecomeLeader, b, h, g, f
  <1>. QED BY <1>1, <1>6, <1>7 DEF Calm

-----------------------------------------------------------------------------
(* The five ways a critical section can concern an election.                 *)

IsSaved(n) == n.diskTerm = n.currentTerm /\ n.diskVote = n.votedFor

\* A handler that started in n and was cut short anywhere left a disk that
\* knows n's term and vote.
DiskStep(n, r) ==
    /\ r.diskTerm >= n.currentTerm
    /\ r.diskTerm = n.currentTerm => r.diskVote = n.votedFor \/ n.votedFor = None

\* A handler that ran to its end left a later term, or the same term and vote
\* (or a first vote), and has it on disk.
VoteStep(n, r) ==
    /\ r.currentTerm >= n.currentTerm
    /\ r.currentTerm = n.currentTerm => r.votedFor = n.votedFor \/ n.votedFor = None
    /\ IsSaved(r)

HandlerStep(n, r) == DiskStep(n, r) /\ (n.quota = MaxWrites => VoteStep(n, r))

\* No candidacy or leadership begins and no vote is asked for or given.
Quiet(n, r) ==
    /\ r.role = "Candidate" => /\ n.role = "Candidate" /\ r.currentTerm = n.currentTerm
                               /\ r.votesReceived <= n.votesReceived
    /\ r.role = "Leader" => n.role = "Leader" /\ r.currentTerm = n.currentTerm
    /\ \A m \in r.out : ~VoteCall(m)

\* Node i stands for the next term.
Campaigned(i, n, r) ==
    /\ r.currentTerm = n.currentTerm + 1 /\ r.votedFor = i
    /\ \/ r.role = "Candidate" /\ r.votesReceived = 1
       \/ r.role = "Leader" /\ Majority <= 1
    /\ \A m \in r.out : VoteCall(m) => /\ m.type = "RequestVote" /\ m.term = r.currentTerm
                                       /\ m.caller = i /\ m.peer # i
    /\ \A k, m \in r.out : VoteCall(k) /\ VoteCall(m) /\ k.peer = m.peer => k = m

\* A candidate counts the vote that answer m grants.
Counted(n, m, r) ==
    /\ n.role = "Candidate" /\ n.currentTerm = m.reqTerm /\ m.granted
    /\ r.currentTerm = n.currentTerm
    /\ \/ r.role = "Candidate" /\ r.votesReceived = n.votesReceived + 1
       \/ r.role = "Leader" /\ n.votesReceived + 1 >= Majority
    /\ \A k \in r.out : ~VoteCall(k)

\* A voter answers request m.
Replied(n, m, r) ==
    /\ r.role = "Candidate" => /\ n.role = "Candidate" /\ r.currentTerm = n.currentTerm
                               /\ r.votesReceived <= n.votesReceived
    /\ r.role = "Leader" => n.role = "Leader" /\ r.currentTerm = n.currentTerm
    /\ \A k \in r.out : /\ k.type = "RequestVoteResponse" /\ SameCall(k, m)
                        /\ k.granted => r.currentTerm = m.term /\ r.votedFor = m.caller
    /\ \A k, l \in r.out : k = l

\* A handler that leaves the election state alone is a harmless step.
LEMMA CalmStep ==
    ASSUME NEW n \in NodeState, NEW r, IsSaved(n), n.out = {}, Calm(n, r)
    PROVE  HandlerStep(n, r) /\ Quiet(n, r)
  BY DEF Calm, HandlerStep, DiskStep, VoteStep, Quiet, IsSaved, NodeState

\* checkTerm saves the term first: a crash between the two transactions leaves
\* the old vote under the new term, which nobody was told of.
LEMMA CheckTermStep ==
    ASSUME NEW n \in NodeState, NEW t \in Nat, IsSaved(n)
    PROVE  LET r == CheckTerm(n, t)
           IN  /\ HandlerStep(n, r)
               /\ n.out = {} => Quiet(n, r)
               /\ r.out = n.out
               /\ n.quota = MaxWrites => r.quota >= 2
               /\ t > n.currentTerm /\ r.quota > 0 => r.diskTerm = t
               /\ t <= n.currentTerm => r = n
               /\ t > n.currentTerm => r.currentTerm = t /\ r.votedFor = None
                                       /\ r.role = "Follower"
  <1>. DEFINE d == StepDown(n, t)
              s == SaveTerm(d, t)
              v == SaveVotedFor(s, None)
  <1>0. n.quota \in 0..4 /\ n.currentTerm \in Nat /\ n.diskTerm \in Nat
    BY DEF NodeState, Quota, MaxWrites
  <1>1. /\ d.currentTerm = t /\ d.votedFor = None /\ d.role = "Follower" /\ d.out = n.out
        /\ d.quota = n.quota /\ d.diskTerm = n.diskTerm /\ d.diskVote = n.diskVote
    BY DEF StepDown, NodeState
  <1>2. d \in NodeState /\ s \in NodeState
    <2>1. d \in NodeState
      BY CheckTermType
    <2>. QED BY <2>1, SaveType, ConstantType
  <1>. HIDE DEF d
  <1>3. /\ s.currentTerm = t /\ s.votedFor = None /\ s.role = "Follower" /\ s.out = n.out
        /\ s.diskVote = n.diskVote
        /\ n.quota = 0 => s.diskTerm = n.diskTerm /\ s.quota = 0
        /\ n.quota > 0 => s.diskTerm = t /\ s.quota = n.quota - 1
    BY <1>0, <1>1, <1>2 DEF SaveTerm, CanWrite, NodeState
  <1>. HIDE DEF s
  <1>4. /\ v.currentTerm = t /\ v.votedFor = None /\ v.role = "Follower" /\ v.out = n.out
        /\ v.diskTerm = s.diskTerm
        /\ s.quota = 0 => v.diskVote = n.diskVote /\ v.quota = 0
        /\ s.quota > 0 => v.diskVote = None /\ v.quota = s.quota - 1
    BY <1>0, <1>2, <1>3 DEF SaveVotedFor, CanWrite, NodeState
  <1>. HIDE DEF v
  <1>5. CheckTerm(n, t) = IF t > n.currentTerm THEN v ELSE n
    BY Zenon DEF CheckTerm, v, s, d
  <1>6. CASE t > n.currentTerm
    <2>1. CheckTerm(n, t) = v
      BY <1>5, <1>6
    <2>2. HandlerStep(n, v)
      BY <1>0, <1>3, <1>4, <1>6 DEF HandlerStep, DiskStep, VoteStep, IsSaved, MaxWrites
    <2>3. n.out = {} => Quiet(n, v)
      BY <1>4 DEF Quiet
    <2>. QED BY <1>0, <1>3, <1>4, <1>6, <2>1, <2>2, <2>3 DEF MaxWrites
  <1>7. CASE ~(t > n.currentTerm)
    <2>1. CheckTerm(n, t) = n
      BY <1>5, <1>7
    <2>2. HandlerStep(n, n)
      BY <1>0 DEF HandlerStep, DiskStep, VoteStep, IsSaved
    <2>3. n.out = {} => Quiet(n, n)
      BY DEF Quiet, NodeState
    <2>. QED BY <1>0, <1>7, <2>1, <2>2, <2>3 DEF MaxWrites
  <1>. QED BY <1>6, <1>7

\* HandleAppendEntries takes up a term but never a vote, and makes no leader.
LEMMA HandleAppendEntriesStep ==
    ASSUME NEW n \in NodeState, NEW m \in AppendRequest, IsSaved(n), n.out = {}
    PROVE  HandlerStep(n, HandleAppendEntries(n, m)) /\ Quiet(n, HandleAppendEntries(n, m))
  <1>. DEFINE c == CheckTerm(n, m.term)
              f == AcceptLeader(n, m)
              g == Reconcile(f, m)
              h == FollowerCommit(g, m)
  <1>1. m.term \in Nat
    BY DEF AppendRequest
  <1>2. HandlerStep(n, c) /\ Quiet(n, c) /\ c.out = {} /\ c \in NodeState
    BY <1>1, CheckTermStep, CheckTermType
  <1>3. /\ f.role = (IF c.role = "Candidate" THEN "Follower" ELSE c.role)
        /\ f.currentTerm = c.currentTerm /\ f.votedFor = c.votedFor
        /\ f.diskTerm = c.diskTerm /\ f.diskVote = c.diskVote /\ f.out = c.out
    <2>. HIDE DEF c
    <2>1. f = [c EXCEPT !.role = IF @ = "Candidate" THEN "Follower" ELSE @,
                        !.votesReceived = 0, !.preVotes = NoRounds,
                        !.leaderID = m.caller, !.leaderContact = TRUE]
      BY Zenon DEF AcceptLeader, c
    <2>. QED BY <1>2, <2>1 DEF NodeState
  <1>. HIDE DEF c
  <1>4. f \in NodeState /\ g \in NodeState /\ h \in NodeState
    <2>1. f \in NodeState
      BY AcceptLeaderType
    <2>. HIDE DEF f
    <2>2. g \in NodeState
      BY <2>1, ReconcileType
    <2>. HIDE DEF g
    <2>. QED BY <2>1, <2>2, FollowerCommitType
  <1>. HIDE DEF f
  <1>5. Calm(f, g)
    BY <1>4, ReconcileCalm
  <1>. HIDE DEF g
  <1>6. Calm(g, h)
    BY <1>4, FollowerCommitCalm
  <1>. HIDE DEF h
  <1>7. /\ Calm(n, AppendReply(n, m, FALSE))
        /\ Calm(f, AppendReply(f, m, FALSE))
        /\ Calm(f, AppendReply(g, m, FALSE))
        /\ Calm(f, AppendReply(h, m, TRUE))
    BY <1>4, <1>5, <1>6, AppendReplyCalm, CalmTrans
  <1>8. ASSUME NEW r, Calm(f, r) PROVE HandlerStep(n, r) /\ Quiet(n, r)
    BY <1>2, <1>3, <1>8 DEF Calm, HandlerStep, DiskStep, VoteStep, IsSaved, Quiet
  <1>9. ASSUME NEW r, Calm(n, r) PROVE HandlerStep(n, r) /\ Quiet(n, r)
    BY <1>9, CalmStep
  <1>. QED BY <1>7, <1>8, <1>9, Zenon DEF HandleAppendEntries, h, g, f

\* An answer to AppendEntries can only make the leader step down.
LEMMA HandleAppendEntriesResponseStep ==
    ASSUME NEW n \in NodeState, NEW i \in Node, NEW m \in AppendResponse, IsSaved(n), n.out = {}
    PROVE  /\ HandlerStep(n, HandleAppendEntriesResponse(i, n, m))
           /\ Quiet(n, HandleAppendEntriesResponse(i, n, m))
  <1>. DEFINE j == m.peer
              match == m.prevLogIndex + m.numEntries
              advanced == [n EXCEPT !.nextIndex[j] = IF match + 1 > @ THEN match + 1 ELSE @,
                                    !.matchIndex[j] = IF match > @ THEN match ELSE @]
              retreated == [n EXCEPT !.nextIndex[j] = @ - 1]
  <1>1. advanced \in NodeState /\ (n.nextIndex[j] > 1 => retreated \in NodeState)
    BY ResponseType, Zenon
  <1>2. Calm(n, advanced) /\ Calm(n, retreated) /\ Calm(n, n)
    BY DEF NodeState, Calm
  <1>3. CheckTerm(n, m.term) \in NodeState /\ HandlerStep(n, CheckTerm(n, m.term))
        /\ Quiet(n, CheckTerm(n, m.term))
    BY CheckTermStep, CheckTermType DEF AppendResponse
  <1>. HIDE DEF advanced, retreated
  <1>4. Calm(n, CheckAndUpdateCommitIndex(advanced))
    BY <1>1, <1>2, CheckAndUpdateCommitIndexCalm, CalmTrans
  <1>5. n.nextIndex[j] > 1 => Calm(n, SendAppendEntries(i, retreated, {j}))
    BY <1>1, <1>2, SendAppendEntriesCalm, CalmTrans
  <1>6. ASSUME NEW r, Calm(n, r) PROVE HandlerStep(n, r) /\ Quiet(n, r)
    BY <1>6, CalmStep
  <1>. QED BY <1>2, <1>3, <1>4, <1>5, <1>6, Zenon
           DEF HandleAppendEntriesResponse, advanced, retreated

\* Proposing, answering and timing out concern no vote.
LEMMA ProposalCalm ==
    ASSUME NEW n \in NodeState, NEW i \in Node, NEW c \in Command
    PROVE  /\ Calm(n, ProposeCommand(i, n, c))
           /\ Calm(n, ProposalReturns(n, c))
           /\ Calm(n, ProposalTimesOut(n, c))
  <1>. DEFINE new == LastIndex(n) + 1
              a == AppendEntries(n, <<[term |-> n.currentTerm, command |-> c]>>)
              w == [a EXCEPT !.pendingCommits = {d \in @ : n.newIndex[d] # new} \cup {c},
                             !.newIndex[c] = new, !.commitCh[c] = "empty"]
  <1>1. a \in NodeState /\ w \in NodeState
    BY ProposedType, Zenon
  <1>2. Calm(n, a) /\ Calm(n, n)
    BY LogCalm DEF Calm
  <1>. HIDE DEF a
  <1>3. Calm(a, w)
    BY <1>1 DEF Calm, NodeState
  <1>. HIDE DEF w
  <1>4. Calm(a, ApplyCommitted([a EXCEPT !.commitIndex = new]))
    BY <1>1, CommitCalm
  <1>5. Calm(w, BroadcastAppendEntries(i, w))
    BY <1>1, SendAppendEntriesCalm
  <1>6. Calm(n, ApplyCommitted([a EXCEPT !.commitIndex = new]))
    BY <1>2, <1>4, CalmTrans, Zenon
  <1>7. Calm(n, BroadcastAppendEntries(i, w))
    BY <1>2, <1>3, <1>5, CalmTrans
  <1>8. Calm(n, ProposeCommand(i, n, c))
    BY <1>2, <1>6, <1>7, Zenon DEF ProposeCommand, a, w
  <1>9. Calm(n, ProposalReturns(n, c)) /\ Calm(n, ProposalTimesOut(n, c))
    BY DEF ProposalReturns, ProposalTimesOut, Calm, NodeState
  <1>. QED BY <1>8, <1>9

LEMMA ProposalStep ==
    ASSUME NEW n \in NodeState, NEW i \in Node, NEW c \in Command, IsSaved(n), n.out = {}
    PROVE  /\ HandlerStep(n, ProposeCommand(i, n, c)) /\ Quiet(n, ProposeCommand(i, n, c))
           /\ HandlerStep(n, ProposalReturns(n, c)) /\ Quiet(n, ProposalReturns(n, c))
           /\ HandlerStep(n, ProposalTimesOut(n, c)) /\ Quiet(n, ProposalTimesOut(n, c))
  BY ProposalCalm, CalmStep

\* campaignLocked saves the term before the vote.
LEMMA CampaignStep ==
    ASSUME NEW n \in NodeState, NEW i \in Node, IsSaved(n), n.out = {}
    PROVE  /\ HandlerStep(n, Campaign(i, n))
           /\ Campaigned(i, n, Campaign(i, n))
  <1>. DEFINE t == n.currentTerm + 1
              c == Candidacy(i, n)
              s == SaveTerm(c, t)
              v == SaveVotedFor(s, i)
              calls == VoteRequests(i, v, "RequestVote", v.currentTerm, 1)
              asked == [v EXCEPT !.out = calls]
              won == BecomeLeader(i, v)
  <1>0. n.quota \in 0..4 /\ n.currentTerm \in Nat /\ n.diskTerm \in Nat /\ t \in Nat
        /\ i \in Vote
    BY ConstantType DEF NodeState, Quota, MaxWrites
  <1>1. /\ c.currentTerm = t /\ c.votedFor = i /\ c.role = "Candidate" /\ c.votesReceived = 1
        /\ c.quota = n.quota /\ c.diskTerm = n.diskTerm /\ c.diskVote = n.diskVote
        /\ c.out = {}
    BY DEF Candidacy, NodeState
  <1>2. c \in NodeState /\ s \in NodeState /\ v \in NodeState
    <2>1. c \in NodeState
      BY <1>0, ConstantType DEF Candidacy, NodeState
    <2>2. s \in NodeState
      BY <1>0, <2>1, SaveType
    <2>. HIDE DEF s
    <2>. QED BY <1>0, <2>1, <2>2, SaveType
  <1>. HIDE DEF c
  <1>3. /\ s.currentTerm = t /\ s.votedFor = i /\ s.role = "Candidate" /\ s.votesReceived = 1
        /\ s.diskVote = n.diskVote /\ s.out = {}
        /\ n.quota = 0 => s.diskTerm = n.diskTerm /\ s.quota = 0
        /\ n.quota > 0 => s.diskTerm = t /\ s.quota = n.quota - 1
    BY <1>0, <1>1, <1>2 DEF SaveTerm, CanWrite, NodeState
  <1>. HIDE DEF s
  <1>4. /\ v.currentTerm = t /\ v.votedFor = i /\ v.role = "Candidate" /\ v.votesReceived = 1
        /\ v.diskTerm = s.diskTerm /\ v.out = {}
        /\ s.quota = 0 => v.diskVote = n.diskVote
        /\ s.quota > 0 => v.diskVote = i
    BY <1>0, <1>2, <1>3 DEF SaveVotedFor, CanWrite, NodeState
  <1>. HIDE DEF v
  <1>5. HandlerStep(n, v)
    BY <1>0, <1>3, <1>4 DEF HandlerStep, DiskStep, VoteStep, IsSaved, MaxWrites
  <1>6. /\ won.role = "Leader" /\ won.currentTerm = v.currentTerm /\ won.votedFor = v.votedFor
        /\ won.diskTerm = v.diskTerm /\ won.diskVote = v.diskVote
        /\ \A m \in won.out : VoteCall(m) => m \in v.out
    BY <1>2, <1>4, BecomeLeaderCalm
  <1>7. /\ asked.role = "Candidate" /\ asked.votesReceived = 1
        /\ asked.currentTerm = v.currentTerm /\ asked.votedFor = v.votedFor
        /\ asked.diskTerm = v.diskTerm /\ asked.diskVote = v.diskVote
        /\ asked.out = calls
    <2>. HIDE DEF calls
    <2>. QED BY <1>2, <1>4 DEF NodeState
  <1>8. /\ \A m \in calls : /\ m.type = "RequestVote" /\ m.term = v.currentTerm
                            /\ m.caller = i /\ m.peer # i
        /\ \A k, m \in calls : k.peer = m.peer => k = m
    <2>. DEFINE call(j) == [type |-> "RequestVote", caller |-> i, peer |-> j, open |-> TRUE,
                            term |-> v.currentTerm, round |-> 1,
                            lastLogIndex |-> LastIndex(v), lastLogTerm |-> LastTerm(v)]
    <2>1. \A j : /\ call(j).type = "RequestVote" /\ call(j).term = v.currentTerm
                /\ call(j).caller = i /\ call(j).peer = j
      OBVIOUS
    <2>2. \A m \in calls : \E j \in Node \ {i} : m = call(j)
      BY Zenon DEF VoteRequests, Peers
    <2>. HIDE DEF call, calls
    <2>. QED BY <2>1, <2>2
  <1>. HIDE DEF won, asked, calls
  <1>9. HandlerStep(n, won) /\ HandlerStep(n, asked)
    BY <1>5, <1>6, <1>7 DEF HandlerStep, DiskStep, VoteStep, IsSaved
  <1>10. Majority <= 1 => Campaigned(i, n, won)
    BY <1>4, <1>6 DEF Campaigned
  <1>11. Campaigned(i, n, asked)
    BY <1>4, <1>7, <1>8 DEF Campaigned
  <1>. QED BY <1>9, <1>10, <1>11, Zenon DEF Campaign, won, asked, calls, v, s, c, t

\* A pre-vote round changes no vote; in a cluster of one it is the campaign.
LEMMA StartElectionStep ==
    ASSUME NEW n \in NodeState, NEW i \in Node, NEW r \in Round, IsSaved(n), n.out = {}
    PROVE  /\ HandlerStep(n, StartElection(i, n, r))
           /\ \/ Quiet(n, StartElection(i, n, r))
              \/ Campaigned(i, n, StartElection(i, n, r))
  <1>. DEFINE calls == VoteRequests(i, n, "PreVote", n.currentTerm + 1, r)
              asked == [n EXCEPT !.preVotes[r] = 1, !.out = calls]
  <1>1. \A m \in calls : ~VoteCall(m)
    BY DEF VoteRequests, VoteCall
  <1>2. Calm(n, asked)
    <2>. HIDE DEF calls
    <2>. QED BY <1>1 DEF Calm, NodeState
  <1>3. HandlerStep(n, asked) /\ Quiet(n, asked)
    BY <1>2, CalmStep, Zenon
  <1>. QED BY <1>3, CampaignStep, Zenon DEF StartElection

\* A pre-vote answer is counted, or starts the campaign, or ends in a later term.
LEMMA HandlePreVoteResponseStep ==
    ASSUME NEW n \in NodeState, NEW i \in Node, NEW m \in VoteResponse, IsSaved(n), n.out = {}
    PROVE  LET r == HandlePreVoteResponse(i, n, m)
           IN  HandlerStep(n, r) /\ (Quiet(n, r) \/ Campaigned(i, n, r))
  <1>. DEFINE counted == [n EXCEPT !.preVotes[m.round] = @ + 1]
  <1>1. counted \in NodeState
    <2>1. [n.preVotes EXCEPT ![m.round] = n.preVotes[m.round] + 1] \in Tally
      BY DEF NodeState, Tally, VoteResponse
    <2>2. counted = [n EXCEPT !.preVotes =
                        [n.preVotes EXCEPT ![m.round] = n.preVotes[m.round] + 1]]
      OBVIOUS
    <2>. QED BY <2>1, <2>2 DEF NodeState
  <1>2. Calm(n, counted) /\ Calm(n, n) /\ counted.out = {} /\ counted.quota = n.quota
    BY DEF Calm, NodeState
  <1>3. HandlerStep(n, CheckTerm(n, m.term)) /\ Quiet(n, CheckTerm(n, m.term))
    BY CheckTermStep DEF VoteResponse
  <1>4. HandlerStep(n, counted) /\ Quiet(n, counted) /\ HandlerStep(n, n) /\ Quiet(n, n)
    BY <1>2, CalmStep, Zenon
  <1>. HIDE DEF counted
  <1>5. HandlerStep(counted, Campaign(i, counted)) /\ Campaigned(i, counted, Campaign(i, counted))
    <2>1. IsSaved(counted)
      BY <1>2 DEF IsSaved, Calm
    <2>. QED BY <1>1, <1>2, <2>1, CampaignStep
  <1>6. HandlerStep(n, Campaign(i, counted)) /\ Campaigned(i, n, Campaign(i, counted))
    BY <1>2, <1>5 DEF HandlerStep, DiskStep, VoteStep, Campaigned, Calm
  <1>. QED BY <1>3, <1>4, <1>6, Zenon DEF HandlePreVoteResponse, counted

\* A vote counts for the term it was asked for and for no other.
LEMMA HandleRequestVoteResponseStep ==
    ASSUME NEW n \in NodeState, NEW i \in Node, NEW m \in VoteResponse, IsSaved(n), n.out = {}
    PROVE  LET r == HandleRequestVoteResponse(i, n, m)
           IN  HandlerStep(n, r) /\ (Quiet(n, r) \/ Counted(n, m, r))
  <1>. DEFINE counted == [n EXCEPT !.votesReceived = @ + 1]
              won == BecomeLeader(i, counted)
  <1>1. counted \in NodeState
    BY DEF NodeState
  <1>2. /\ counted.role = n.role /\ counted.currentTerm = n.currentTerm
        /\ counted.votedFor = n.votedFor /\ counted.votesReceived = n.votesReceived + 1
        /\ counted.diskTerm = n.diskTerm /\ counted.diskVote = n.diskVote
        /\ counted.quota = n.quota /\ counted.out = {}
    BY DEF NodeState
  <1>3. HandlerStep(n, CheckTerm(n, m.term)) /\ Quiet(n, CheckTerm(n, m.term))
    BY CheckTermStep DEF VoteResponse
  <1>4. HandlerStep(n, n) /\ Quiet(n, n)
    BY CalmStep DEF Calm
  <1>. HIDE DEF counted
  <1>5. n.currentTerm \in Nat /\ n.diskTerm \in Nat
    BY DEF NodeState
  <1>6. HandlerStep(n, counted)
    BY <1>2, <1>5 DEF HandlerStep, DiskStep, VoteStep, IsSaved
  <1>7. ASSUME n.role = "Candidate", n.currentTerm = m.reqTerm, m.granted
        PROVE  Counted(n, m, counted)
    BY <1>2, <1>7 DEF Counted
  <1>8. ASSUME n.role = "Candidate", n.currentTerm = m.reqTerm, m.granted,
               counted.votesReceived >= Majority
        PROVE  HandlerStep(n, won) /\ Counted(n, m, won)
    <2>1. /\ won.role = "Leader" /\ won.currentTerm = counted.currentTerm
          /\ won.votedFor = counted.votedFor
          /\ won.diskTerm = counted.diskTerm /\ won.diskVote = counted.diskVote
          /\ \A k \in won.out : VoteCall(k) => k \in counted.out
      BY <1>1, <1>2, <1>8, BecomeLeaderCalm
    <2>. HIDE DEF won
    <2>2. HandlerStep(n, won)
      BY <1>6, <2>1 DEF HandlerStep, DiskStep, VoteStep, IsSaved
    <2>3. Counted(n, m, won)
      BY <1>2, <1>8, <2>1 DEF Counted
    <2>. QED BY <2>2, <2>3
  <1>. QED BY <1>3, <1>4, <1>6, <1>7, <1>8, Zenon DEF HandleRequestVoteResponse, counted, won

\* r is q with the answer to m.
Answer(q, m, granted, r) ==
    /\ r.role = q.role /\ r.currentTerm = q.currentTerm
    /\ r.votedFor = q.votedFor /\ r.votesReceived = q.votesReceived
    /\ r.diskTerm = q.diskTerm /\ r.diskVote = q.diskVote
    /\ \A k \in r.out : /\ k.type = "RequestVoteResponse" /\ SameCall(k, m)
                        /\ k.granted => granted
    /\ \A k, l \in r.out : k = l

\* A voter's answer, if anyone waits for it, is the answer to this call.
LEMMA VoteReplyAnswers ==
    ASSUME NEW q \in NodeState, NEW m \in VoteRequest, m.type = "RequestVote",
           NEW granted \in BOOLEAN
    PROVE  Answer(q, m, granted, VoteReply(q, m, granted))
  <1>. DEFINE reply == [type |-> IF m.type = "PreVote" THEN "PreVoteResponse"
                                 ELSE "RequestVoteResponse",
                        caller |-> m.caller, peer |-> m.peer, reqTerm |-> m.term,
                        round |-> m.round, term |-> q.currentTerm, granted |-> granted]
              out == IF ~m.open THEN {} ELSE {reply}
              r == [q EXCEPT !.out = out]
  <1>1. reply.type = "RequestVoteResponse" /\ SameCall(reply, m) /\ (reply.granted => granted)
    BY DEF SameCall, CallTerm
  <1>2. VoteReply(q, m, granted) = r
    BY DEF VoteReply
  <1>3. \A k \in out : k = reply
    OBVIOUS
  <1>. HIDE DEF reply, out
  <1>4. /\ r.role = q.role /\ r.currentTerm = q.currentTerm
        /\ r.votedFor = q.votedFor /\ r.votesReceived = q.votesReceived
        /\ r.diskTerm = q.diskTerm /\ r.diskVote = q.diskVote /\ r.out = out
    BY DEF NodeState
  <1>. HIDE DEF r
  <1>. QED BY <1>1, <1>2, <1>3, <1>4 DEF Answer

\* HandleRequestVote saves the vote before it answers.
LEMMA HandleRequestVoteStep ==
    ASSUME NEW n \in NodeState, NEW m \in VoteRequest, m.type = "RequestVote",
           IsSaved(n), n.out = {}
    PROVE  /\ HandlerStep(n, HandleRequestVote(n, m))
           /\ Replied(n, m, HandleRequestVote(n, m))
  <1>. DEFINE c == CheckTerm(n, m.term)
              voted == [c EXCEPT !.votedFor = m.caller]
              v == SaveVotedFor(voted, m.caller)
  <1>0. m.term \in Nat /\ m.caller \in Vote /\ n.currentTerm \in Nat /\ n.diskTerm \in Nat
        /\ n.votesReceived \in Nat
    BY ConstantType DEF VoteRequest, NodeState
  <1>1. /\ HandlerStep(n, c) /\ Quiet(n, c) /\ c.out = {} /\ c \in NodeState
        /\ n.quota = MaxWrites => c.quota >= 2
        /\ m.term > n.currentTerm /\ c.quota > 0 => c.diskTerm = m.term
        /\ m.term <= n.currentTerm => c = n
        /\ m.term > n.currentTerm => c.currentTerm = m.term /\ c.votedFor = None
    BY <1>0, CheckTermStep, CheckTermType
  <1>. HIDE DEF c
  <1>2. voted \in NodeState
    BY <1>0, <1>1 DEF NodeState
  <1>3. /\ voted.role = c.role /\ voted.currentTerm = c.currentTerm
        /\ voted.votesReceived = c.votesReceived /\ voted.votedFor = m.caller
        /\ voted.diskTerm = c.diskTerm /\ voted.diskVote = c.diskVote
        /\ voted.quota = c.quota /\ voted.out = {}
    BY <1>1 DEF NodeState
  <1>. HIDE DEF voted
  <1>4. v \in NodeState
    BY <1>0, <1>2, SaveType
  <1>5. /\ v.role = c.role /\ v.currentTerm = c.currentTerm
        /\ v.votesReceived = c.votesReceived /\ v.votedFor = m.caller
        /\ v.diskTerm = c.diskTerm /\ v.out = {}
        /\ v.diskVote = IF c.quota > 0 THEN m.caller ELSE c.diskVote
    BY <1>2, <1>3 DEF SaveVotedFor, CanWrite, NodeState
  <1>. HIDE DEF v
  <1>6. /\ Answer(c, m, FALSE, VoteReply(c, m, FALSE))
        /\ Answer(n, m, FALSE, VoteReply(n, m, FALSE))
        /\ Answer(v, m, TRUE, VoteReply(v, m, TRUE))
    BY <1>1, <1>4, <1>5, VoteReplyAnswers
  <1>7. HandlerStep(n, VoteReply(c, m, FALSE)) /\ Replied(n, m, VoteReply(c, m, FALSE))
    BY <1>1, <1>6 DEF HandlerStep, DiskStep, VoteStep, IsSaved, Replied, Quiet, Answer
  <1>8. HandlerStep(n, VoteReply(n, m, FALSE)) /\ Replied(n, m, VoteReply(n, m, FALSE))
    <2>. DEFINE r == VoteReply(n, m, FALSE)
    <2>. HIDE DEF r
    <2>1. Answer(n, m, FALSE, r)
      BY <1>6 DEF r
    <2>2. HandlerStep(n, r)
      BY <1>0, <2>1 DEF HandlerStep, DiskStep, VoteStep, IsSaved, Answer
    <2>3. Replied(n, m, r)
      BY <1>0, <2>1 DEF Replied, Answer
    <2>. QED BY <2>2, <2>3 DEF r
  <1>9. ASSUME ~(m.term < n.currentTerm), c.votedFor \in {None, m.caller}
        PROVE  HandlerStep(n, VoteReply(v, m, TRUE)) /\ Replied(n, m, VoteReply(v, m, TRUE))
    <2>1. c.currentTerm = m.term
      BY <1>0, <1>1, <1>9
    <2>2. DiskStep(n, v)
      <3>1. CASE m.term <= n.currentTerm
        <4>1. c = n
          BY <1>1, <3>1
        <4>. QED BY <1>0, <1>5, <1>9, <4>1 DEF DiskStep, IsSaved
      <3>2. CASE m.term > n.currentTerm
        <4>1. v.diskTerm >= n.currentTerm
          BY <1>1, <1>5 DEF HandlerStep, DiskStep
        <4>2. ASSUME v.diskTerm = n.currentTerm
              PROVE  v.diskVote = n.votedFor \/ n.votedFor = None
          <5>1. ~(c.quota > 0)
            BY <1>0, <1>1, <1>5, <3>2, <4>2
          <5>. QED BY <1>1, <1>5, <4>2, <5>1 DEF HandlerStep, DiskStep
        <4>. QED BY <4>1, <4>2 DEF DiskStep
      <3>. QED BY <1>0, <3>1, <3>2
    <2>3. n.quota = MaxWrites => VoteStep(n, v)
      <3>. SUFFICES ASSUME n.quota = MaxWrites PROVE VoteStep(n, v)
        OBVIOUS
      <3>1. c.quota >= 2 /\ VoteStep(n, c)
        BY <1>1 DEF HandlerStep
      <3>2. c.quota \in Int
        BY <1>1 DEF NodeState, Quota
      <3>3. c.quota > 0
        BY <3>1, <3>2
      <3>4. v.currentTerm = n.currentTerm => v.votedFor = n.votedFor \/ n.votedFor = None
        BY <1>0, <1>1, <1>5, <1>9
      <3>. QED BY <1>5, <3>1, <3>3, <3>4 DEF VoteStep, IsSaved
    <2>4. HandlerStep(n, VoteReply(v, m, TRUE))
      BY <1>6, <2>2, <2>3 DEF HandlerStep, DiskStep, VoteStep, IsSaved, Answer
    <2>5. Replied(n, m, VoteReply(v, m, TRUE))
      BY <1>1, <1>5, <1>6, <2>1 DEF Replied, Quiet, Answer
    <2>. QED BY <2>4, <2>5
  <1>. QED BY <1>7, <1>8, <1>9, Zenon DEF HandleRequestVote, v, voted, c

\* handlePreVoteLocked changes nothing and promises nothing.
LEMMA HandlePreVoteStep ==
    ASSUME NEW n \in NodeState, NEW m \in VoteRequest, m.type = "PreVote",
           IsSaved(n), n.out = {}
    PROVE  HandlerStep(n, HandlePreVote(n, m)) /\ Quiet(n, HandlePreVote(n, m))
  <1>1. ASSUME NEW granted PROVE Calm(n, VoteReply(n, m, granted))
    BY DEF VoteReply, Calm, NodeState, VoteCall
  <1>. QED BY <1>1, CalmStep DEF HandlePreVote

-----------------------------------------------------------------------------
(* What a step of one node does to the invariant.                            *)

\* A node that keeps or saves its vote keeps the ballots in order.
LEMMA BallotStep ==
    ASSUME TypeOK, BallotInv, NEW i \in Node, NEW n \in NodeState, Become(i, n),
           VoteStep(node[i], n)
    PROVE  /\ BallotInv'
           /\ ballots \subseteq ballots'
           /\ n.votedFor # None => i \in Supporters(n.votedFor, n.currentTerm)'
  <1>. DEFINE b == [voter |-> i, term |-> n.currentTerm, candidate |-> n.votedFor]
  <1>1. /\ node \in [Node -> NodeState] /\ node' = [node EXCEPT ![i] = n]
        /\ ballots \subseteq Ballot
        /\ ballots' = IF n.votedFor = None THEN ballots ELSE ballots \cup {b}
    BY DEF TypeOK, Become, Witness
  <1>2. node'[i] = n /\ \A j \in Node : j # i => node'[j] = node[j]
    BY <1>1
  <1>3. node[i].currentTerm \in Nat /\ n.currentTerm \in Nat
    BY <1>1 DEF NodeState
  <1>4. b.voter = i /\ b.term = n.currentTerm /\ b.candidate = n.votedFor
    OBVIOUS
  <1>5. \A a \in ballots : a.voter \in Node /\ a.term \in Nat /\ a.candidate \in Node
    BY <1>1 DEF Ballot
  <1>6. \A a, c \in Ballot : a.voter = c.voter /\ a.term = c.term /\ a.candidate = c.candidate
                             => a = c
    BY DEF Ballot
  <1>. HIDE DEF b
  <1>7. Saved'
    BY <1>2 DEF BallotInv, Saved, VoteStep, IsSaved
  <1>8. VotesHeld'
    <2>1. ASSUME NEW a \in ballots
          PROVE  /\ a.term <= node'[a.voter].currentTerm
                 /\ a.term = node'[a.voter].currentTerm => a.candidate = node'[a.voter].votedFor
      <3>0. /\ a.term <= node[a.voter].currentTerm
            /\ a.term = node[a.voter].currentTerm => a.candidate = node[a.voter].votedFor
        BY DEF BallotInv, VotesHeld
      <3>1. CASE a.voter # i
        BY <1>2, <1>5, <3>0, <3>1
      <3>2. CASE a.voter = i
        BY <1>2, <1>3, <1>5, <3>0, <3>2, NoneAssumption DEF VoteStep
      <3>. QED BY <3>1, <3>2
    <2>2. /\ b.term <= node'[b.voter].currentTerm
          /\ b.candidate = node'[b.voter].votedFor
      BY <1>2, <1>3, <1>4
    <2>. QED BY <1>1, <2>1, <2>2 DEF VotesHeld
  <1>9. OneVotePerTerm'
    <2>1. ASSUME NEW a \in ballots, n.votedFor # None, a.voter = b.voter, a.term = b.term
          PROVE  a = b
      <3>1. a.term <= node[i].currentTerm
            /\ (a.term = node[i].currentTerm => a.candidate = node[i].votedFor)
        BY <1>4, <2>1 DEF BallotInv, VotesHeld
      <3>2. a.term = node[i].currentTerm /\ n.currentTerm = node[i].currentTerm
        BY <1>3, <1>4, <1>5, <2>1, <3>1 DEF VoteStep
      <3>3. a.candidate = n.votedFor
        BY <1>5, <3>1, <3>2, NoneAssumption DEF VoteStep
      <3>4. b \in Ballot
        BY <1>3, <2>1 DEF b, Ballot, NodeState, Vote
      <3>. QED BY <1>1, <1>4, <1>6, <2>1, <3>3, <3>4
    <2>. QED BY <1>1, <2>1 DEF BallotInv, OneVotePerTerm
  <1>10. n.votedFor # None => i \in Supporters(n.votedFor, n.currentTerm)'
    BY <1>1 DEF Supporters, b
  <1>. QED BY <1>1, <1>7, <1>8, <1>9, <1>10 DEF BallotInv

\* A set of nodes within another has no more members.
LEMMA NodeCardinality ==
    ASSUME NEW S \in SUBSET Node, NEW T \in SUBSET S
    PROVE  /\ IsFiniteSet(S) /\ IsFiniteSet(T)
           /\ Cardinality(S) \in Nat /\ Cardinality(T) \in Nat
           /\ Cardinality(T) <= Cardinality(S)
  <1>1. IsFiniteSet(S)
    BY NodeAssumption, FS_Subset
  <1>2. IsFiniteSet(T) /\ Cardinality(T) <= Cardinality(S)
    BY <1>1, FS_Subset
  <1>. QED BY <1>1, <1>2, FS_CardinalityType

\* Two majorities are more than the cluster.
LEMMA MajorityType == Majority \in Nat /\ 2 * Majority > Cardinality(Node)
  <1>1. Cardinality(Node) \in Nat
    BY NodeAssumption, FS_CardinalityType
  <1>. QED BY <1>1 DEF Majority

\* Whether k continues a call that was under way, or is one of a new candidacy
\* of node i, which n is.
Continues(k) == \E m \in rpcs : VoteCall(m) /\ SameCall(k, m)

Begins(k, i, n) ==
    /\ k.caller = i /\ k.peer # i /\ k.type = "RequestVote" /\ k.term = n.currentTerm
    /\ n.currentTerm > node[i].currentTerm

\* Who has answered a candidate has answered it for good: no second call of
\* the term can bring the same vote again.
LEMMA AnsweredGrows ==
    ASSUME NEW j \in Node, ballots \subseteq ballots',
           node'[j].currentTerm = node[j].currentTerm,
           \A k \in rpcs' : VoteCall(k) /\ k.caller = j => Continues(k)
    PROVE  Answered(j) \subseteq Answered(j)'
  <1>. SUFFICES ASSUME NEW v \in Answered(j) PROVE v \in Answered(j)'
    OBVIOUS
  <1>1. v \in Supporters(j, node[j].currentTerm)'
    BY DEF Answered, Supporters
  <1>2. ASSUME NEW k \in rpcs', VoteCall(k), k.caller = j, k.peer = v,
               CallTerm(k) = node[j].currentTerm
        PROVE  FALSE
    BY <1>2 DEF Answered, Continues, SameCall
  <1>. QED BY <1>1, <1>2 DEF Answered, Supporters

\* The invariant holds after the step, and no node went back to an earlier term.
Kept == ElectionInv' /\ \A j \in Node : node'[j].currentTerm >= node[j].currentTerm

\* What a step owes the invariant, whatever handler made it.
LEMMA ElectionStep ==
    ASSUME TypeOK, TypeOK', ElectionInv, NEW i \in Node, NEW n \in NodeState,
           Become(i, n), VoteStep(node[i], n),
           \A k \in rpcs' : VoteCall(k) => Continues(k) \/ Begins(k, i, n),
           \A k \in rpcs' : k.type = "RequestVoteResponse" /\ k.granted
                            => k \in rpcs \/ k.peer \in Supporters(k.caller, k.reqTerm)',
           \A k, m \in rpcs' : VoteCall(k) /\ VoteCall(m) /\ SameCall(k, m) => k = m,
           n.role = "Candidate" => n.votesReceived <= Cardinality(Answered(i)'),
           n.role = "Leader" =>
              \/ node[i].role = "Leader" /\ n.currentTerm = node[i].currentTerm
              \/ Cardinality(Supporters(i, n.currentTerm)') >= Majority
    PROVE  Kept
  <1>1. BallotInv' /\ ballots \subseteq ballots'
    BY BallotStep DEF ElectionInv
  <1>2. /\ node \in [Node -> NodeState] /\ node' = [node EXCEPT ![i] = n]
        /\ node'[i] = n /\ \A j \in Node : j # i => node'[j] = node[j]
    BY DEF TypeOK, Become
  <1>3. \A j \in Node : /\ node[j].currentTerm \in Nat /\ node'[j].currentTerm \in Nat
                        /\ node[j].votesReceived \in Nat
                        /\ node'[j].currentTerm >= node[j].currentTerm
    BY <1>2 DEF NodeState, VoteStep
  <1>4. \A k \in rpcs \cup rpcs' : VoteCall(k) =>
            k.caller \in Node /\ k.peer \in Node /\ CallTerm(k) \in Nat
    <2>1. \A k \in rpcs \cup rpcs' : k \in Message
      BY DEF TypeOK
    <2>2. \A k \in VoteRequest : k.term \in Nat
      BY DEF VoteRequest
    <2>3. \A k \in VoteResponse : k.reqTerm \in Nat
      BY DEF VoteResponse
    <2>. QED BY <2>1, <2>2, <2>3, MessageKind DEF VoteCall, CallTerm
  <1>5. \A j \in Node : \A t : Supporters(j, t) \subseteq Supporters(j, t)'
    BY <1>1 DEF Supporters
  <1>6. CallsSound'
    <2>1. ASSUME NEW k \in rpcs', VoteCall(k)
          PROVE  k.peer # k.caller /\ CallTerm(k) <= node'[k.caller].currentTerm
      <3>1. CASE Continues(k)
        <4>1. PICK m \in rpcs : VoteCall(m) /\ SameCall(k, m)
          BY <3>1 DEF Continues
        <4>2. m.peer # m.caller /\ CallTerm(m) <= node[m.caller].currentTerm
          BY <4>1 DEF ElectionInv, CallsSound
        <4>3. k.peer # k.caller /\ CallTerm(k) <= node[k.caller].currentTerm
          BY <4>1, <4>2 DEF SameCall
        <4>. QED BY <1>3, <1>4, <2>1, <4>3
      <3>2. CASE Begins(k, i, n)
        BY <1>2, <1>3, <3>2 DEF Begins, CallTerm
      <3>. QED BY <2>1, <3>1, <3>2
    <2>2. ASSUME NEW k \in rpcs', k.type = "RequestVoteResponse", k.granted
          PROVE  k.peer \in Supporters(k.caller, k.reqTerm)'
      <3>1. CASE k \in rpcs
        <4>1. k.peer \in Supporters(k.caller, k.reqTerm)
          BY <2>2, <3>1 DEF ElectionInv, CallsSound
        <4>2. k.caller \in Node
          BY <1>4, <2>2 DEF VoteCall
        <4>. QED BY <1>5, <4>1, <4>2
      <3>. QED BY <2>2, <3>1
    <2>. QED BY <2>1, <2>2 DEF CallsSound
  <1>7. TallySound'
    <2>1. ASSUME NEW j \in Node, j # i, node'[j].role = "Candidate"
          PROVE  node'[j].votesReceived <= Cardinality(Answered(j)')
      <3>1. \A k \in rpcs' : VoteCall(k) /\ k.caller = j => Continues(k)
        BY <2>1 DEF Begins
      <3>2. Answered(j) \subseteq Answered(j)'
        BY <1>1, <1>2, <2>1, <3>1, AnsweredGrows
      <3>3. Answered(j)' \in SUBSET Node
        BY DEF Answered, Supporters
      <3>4. /\ Cardinality(Answered(j)) <= Cardinality(Answered(j)')
            /\ Cardinality(Answered(j)) \in Nat /\ Cardinality(Answered(j)') \in Nat
        BY <3>2, <3>3, NodeCardinality
      <3>5. node[j].votesReceived <= Cardinality(Answered(j))
        BY <1>2, <2>1 DEF ElectionInv, TallySound
      <3>. QED BY <1>2, <1>3, <2>1, <3>4, <3>5
    <2>. QED BY <1>2, <2>1 DEF TallySound
  <1>8. LeadersElected'
    <2>. DEFINE e == [term |-> n.currentTerm, leader |-> i]
    <2>1. elected' = IF n.role = "Leader" THEN elected \cup {e} ELSE elected
      BY DEF Become, Witness
    <2>2. e.term = n.currentTerm /\ e.leader = i
      OBVIOUS
    <2>3. n.role = "Leader" => e \in elected'
      BY <2>1
    <2>4. ASSUME NEW j \in Node, node'[j].role = "Leader"
          PROVE  [term |-> node'[j].currentTerm, leader |-> j] \in elected'
      <3>1. CASE j = i
        BY <1>2, <2>3, <2>4, <3>1
      <3>2. CASE j # i
        BY <1>2, <2>1, <2>4, <3>2 DEF ElectionInv, LeadersElected
      <3>. QED BY <3>1, <3>2
    <2>5. ASSUME NEW d \in elected
          PROVE  Cardinality(Supporters(d.leader, d.term)') >= Majority
      <3>1. Cardinality(Supporters(d.leader, d.term)) >= Majority
        BY DEF ElectionInv, LeadersElected
      <3>2. d.leader \in Node
        BY DEF TypeOK, Elected
      <3>3. Supporters(d.leader, d.term) \subseteq Supporters(d.leader, d.term)'
        BY <1>5, <3>2
      <3>4. Supporters(d.leader, d.term)' \in SUBSET Node
        BY DEF Supporters
      <3>5. /\ Cardinality(Supporters(d.leader, d.term))
                 <= Cardinality(Supporters(d.leader, d.term)')
            /\ Cardinality(Supporters(d.leader, d.term)) \in Nat
            /\ Cardinality(Supporters(d.leader, d.term)') \in Nat
        BY <3>3, <3>4, NodeCardinality
      <3>6. Majority \in Nat
        BY MajorityType
      <3>. QED BY <3>1, <3>5, <3>6
    <2>6. ASSUME n.role = "Leader"
          PROVE  Cardinality(Supporters(e.leader, e.term)') >= Majority
      <3>1. CASE node[i].role = "Leader" /\ n.currentTerm = node[i].currentTerm
        <4>1. e \in elected
          BY <3>1 DEF ElectionInv, LeadersElected
        <4>. QED BY <2>5, <4>1
      <3>. QED BY <2>2, <2>6, <3>1
    <2>. QED BY <2>1, <2>4, <2>5, <2>6 DEF LeadersElected
  <1>. QED BY <1>1, <1>3, <1>6, <1>7, <1>8 DEF ElectionInv, Kept

\* The state and the network after a section that completes.
LEMMA CompletesStep ==
    ASSUME TypeOK, NEW i \in Node, NEW n \in NodeState, NEW handled, NEW told,
           Completes(i, n, handled, told)
    PROVE  LET d == [n EXCEPT !.quota = MaxWrites, !.out = {}]
           IN  /\ d \in NodeState /\ Become(i, d)
               /\ d.role = n.role /\ d.currentTerm = n.currentTerm /\ d.votedFor = n.votedFor
               /\ d.votesReceived = n.votesReceived
               /\ d.diskTerm = n.diskTerm /\ d.diskVote = n.diskVote
               /\ \A k \in rpcs' : k \in rpcs \ handled \/ k \in n.out
  <1>. DEFINE d == [n EXCEPT !.quota = MaxWrites, !.out = {}]
  <1>1. d \in NodeState
    BY ConstantType DEF NodeState
  <1>2. /\ d.role = n.role /\ d.currentTerm = n.currentTerm /\ d.votedFor = n.votedFor
        /\ d.votesReceived = n.votesReceived
        /\ d.diskTerm = n.diskTerm /\ d.diskVote = n.diskVote
    BY DEF NodeState
  <1>3. Become(i, d) /\ Send(rpcs \ handled, n.out)
    BY Zenon DEF Completes
  <1>4. \A k \in rpcs' : k \in rpcs \ handled \/ k \in n.out
    BY <1>3 DEF Send
  <1>. QED BY <1>1, <1>2, <1>3, <1>4

\* A completed section that asks for no vote and counts none keeps the invariant.
LEMMA QuietStep ==
    ASSUME TypeOK, TypeOK', ElectionInv, NEW i \in Node, NEW n \in NodeState, NEW handled,
           NEW told, Completes(i, n, handled, told), VoteStep(node[i], n), Quiet(node[i], n)
    PROVE  Kept
  <1>1. PICK d \in NodeState :
           /\ Become(i, d)
           /\ d.role = n.role /\ d.currentTerm = n.currentTerm /\ d.votedFor = n.votedFor
           /\ d.votesReceived = n.votesReceived
           /\ d.diskTerm = n.diskTerm /\ d.diskVote = n.diskVote
           /\ \A k \in rpcs' : k \in rpcs \ handled \/ k \in n.out
    BY CompletesStep
  <1>2. VoteStep(node[i], d)
    BY <1>1 DEF VoteStep, IsSaved
  <1>3. \A k \in rpcs' : VoteCall(k) => k \in rpcs
    BY <1>1 DEF Quiet
  <1>4. \A k \in rpcs' : VoteCall(k) => Continues(k)
    BY <1>3 DEF Continues, SameCall
  <1>5. \A k \in rpcs' : k.type = "RequestVoteResponse" => k \in rpcs
    BY <1>3 DEF VoteCall
  <1>6. \A k, m \in rpcs' : VoteCall(k) /\ VoteCall(m) /\ SameCall(k, m) => k = m
    BY <1>3 DEF ElectionInv, CallsSound
  <1>7. ASSUME d.role = "Candidate" PROVE d.votesReceived <= Cardinality(Answered(i)')
    <2>1. node[i].role = "Candidate" /\ d.currentTerm = node[i].currentTerm
          /\ d.votesReceived <= node[i].votesReceived
      BY <1>1, <1>7 DEF Quiet
    <2>2. node'[i] = d /\ node[i] \in NodeState
      BY <1>1 DEF Become, TypeOK
    <2>3. Answered(i) \subseteq Answered(i)'
      <3>1. ballots \subseteq ballots'
        BY <1>1, <1>2, BallotStep DEF ElectionInv
      <3>. QED BY <1>4, <2>1, <2>2, <3>1, AnsweredGrows
    <2>4. Answered(i)' \in SUBSET Node
      BY DEF Answered, Supporters
    <2>5. /\ Cardinality(Answered(i)) <= Cardinality(Answered(i)')
          /\ Cardinality(Answered(i)) \in Nat /\ Cardinality(Answered(i)') \in Nat
      BY <2>3, <2>4, NodeCardinality
    <2>6. node[i].votesReceived <= Cardinality(Answered(i))
      BY <2>1 DEF ElectionInv, TallySound
    <2>7. d.votesReceived \in Nat /\ node[i].votesReceived \in Nat
      BY <2>2 DEF NodeState
    <2>. QED BY <2>1, <2>5, <2>6, <2>7
  <1>8. d.role = "Leader" => node[i].role = "Leader" /\ d.currentTerm = node[i].currentTerm
    BY <1>1 DEF Quiet
  <1>. QED BY <1>1, <1>2, <1>4, <1>5, <1>6, <1>7, <1>8, ElectionStep

\* So does a completed campaign,
LEMMA CampaignedStep ==
    ASSUME TypeOK, TypeOK', ElectionInv, NEW i \in Node, NEW n \in NodeState, NEW handled,
           NEW told, Completes(i, n, handled, told), VoteStep(node[i], n),
           Campaigned(i, node[i], n)
    PROVE  Kept
  <1>1. PICK d \in NodeState :
           /\ Become(i, d)
           /\ d.role = n.role /\ d.currentTerm = n.currentTerm /\ d.votedFor = n.votedFor
           /\ d.votesReceived = n.votesReceived
           /\ d.diskTerm = n.diskTerm /\ d.diskVote = n.diskVote
           /\ \A k \in rpcs' : k \in rpcs \ handled \/ k \in n.out
    BY CompletesStep
  <1>2. VoteStep(node[i], d)
    BY <1>1 DEF VoteStep, IsSaved
  <1>3. node[i].currentTerm \in Nat /\ d.currentTerm = node[i].currentTerm + 1 /\ d.votedFor = i
    BY <1>1 DEF Campaigned, TypeOK, NodeState
  <1>4. \A k \in rpcs' : VoteCall(k) => k \in rpcs \/ (k \in n.out /\ Begins(k, i, d))
    BY <1>1, <1>3 DEF Campaigned, Begins
  <1>5. \A k \in rpcs' : VoteCall(k) => Continues(k) \/ Begins(k, i, d)
    BY <1>4 DEF Continues, SameCall
  <1>6. \A k \in rpcs' : k.type = "RequestVoteResponse" => k \in rpcs
    BY <1>4 DEF VoteCall, Begins
  <1>7. \A k \in rpcs : VoteCall(k) /\ k.caller = i => CallTerm(k) # d.currentTerm
    <2>1. \A k \in rpcs : VoteCall(k) /\ k.caller = i => CallTerm(k) <= node[i].currentTerm
      BY DEF ElectionInv, CallsSound
    <2>. QED BY <1>3, <2>1
  <1>8. \A k, m \in rpcs' : VoteCall(k) /\ VoteCall(m) /\ SameCall(k, m) => k = m
    <2>. SUFFICES ASSUME NEW k \in rpcs', NEW m \in rpcs', VoteCall(k), VoteCall(m),
                         SameCall(k, m)
                  PROVE  k = m
      OBVIOUS
    <2>1. CASE k \in rpcs /\ m \in rpcs
      BY <2>1 DEF ElectionInv, CallsSound
    <2>2. CASE k \in n.out /\ Begins(k, i, d) /\ m \in n.out
      BY <2>2 DEF Campaigned, SameCall
    <2>3. CASE k \in n.out /\ Begins(k, i, d) /\ m \in rpcs
      BY <1>7, <2>3 DEF Begins, SameCall, CallTerm
    <2>4. CASE m \in n.out /\ Begins(m, i, d) /\ k \in rpcs
      BY <1>7, <2>4 DEF Begins, SameCall, CallTerm
    <2>. QED BY <1>4, <2>1, <2>2, <2>3, <2>4
  <1>9. node'[i] = d
    BY <1>1 DEF TypeOK, Become
  <1>10. i \in Supporters(i, d.currentTerm)'
    BY <1>1, <1>2, <1>3, BallotStep, NoneAssumption DEF ElectionInv
  <1>11. i \in Answered(i)'
    <2>1. \A k \in rpcs' : VoteCall(k) /\ k.caller = i => k.peer # i
      BY <1>4 DEF Begins, ElectionInv, CallsSound
    <2>. QED BY <1>9, <1>10, <2>1 DEF Answered
  <1>12. /\ 1 <= Cardinality(Answered(i)')
         /\ 1 <= Cardinality(Supporters(i, d.currentTerm)')
    <2>1. Answered(i)' \in SUBSET Node /\ Supporters(i, d.currentTerm)' \in SUBSET Node
      BY DEF Answered, Supporters
    <2>2. Cardinality({i}) = 1
      BY FS_Singleton
    <2>. QED BY <1>10, <1>11, <2>1, <2>2, NodeCardinality
  <1>13. d.role = "Candidate" => d.votesReceived <= Cardinality(Answered(i)')
    BY <1>1, <1>12 DEF Campaigned
  <1>14. d.role = "Leader" => Cardinality(Supporters(i, d.currentTerm)') >= Majority
    <2>1. Cardinality(Supporters(i, d.currentTerm)') \in Nat
      <3>1. Supporters(i, d.currentTerm)' \in SUBSET Node
        BY DEF Supporters
      <3>. QED BY <3>1, NodeCardinality
    <2>. QED BY <1>1, <1>12, <2>1, MajorityType DEF Campaigned
  <1>. QED BY <1>1, <1>2, <1>5, <1>6, <1>8, <1>13, <1>14, ElectionStep

\* a completed count of one vote,
LEMMA CountedStep ==
    ASSUME TypeOK, TypeOK', ElectionInv, NEW m \in rpcs, NEW n \in NodeState, NEW told,
           m.type = "RequestVoteResponse", Completes(m.caller, n, {m}, told),
           VoteStep(node[m.caller], n), Counted(node[m.caller], m, n)
    PROVE  Kept
  <1>. DEFINE i == m.caller
              j == m.peer
  <1>0. i \in Node /\ j \in Node
    BY MessageKind DEF TypeOK
  <1>1. PICK d \in NodeState :
           /\ Become(i, d)
           /\ d.role = n.role /\ d.currentTerm = n.currentTerm /\ d.votedFor = n.votedFor
           /\ d.votesReceived = n.votesReceived
           /\ d.diskTerm = n.diskTerm /\ d.diskVote = n.diskVote
           /\ \A k \in rpcs' : k \in rpcs \ {m} \/ k \in n.out
    BY <1>0, CompletesStep
  <1>2. VoteStep(node[i], d)
    BY <1>1 DEF VoteStep, IsSaved
  <1>3. \A k \in rpcs' : VoteCall(k) => k \in rpcs \ {m}
    BY <1>1 DEF Counted
  <1>4. \A k \in rpcs' : VoteCall(k) => Continues(k)
    BY <1>3 DEF Continues, SameCall
  <1>5. \A k \in rpcs' : k.type = "RequestVoteResponse" => k \in rpcs
    BY <1>3 DEF VoteCall
  <1>6. \A k, l \in rpcs' : VoteCall(k) /\ VoteCall(l) /\ SameCall(k, l) => k = l
    BY <1>3 DEF ElectionInv, CallsSound
  <1>7. node'[i] = d /\ node[i] \in NodeState
    BY <1>0, <1>1 DEF TypeOK, Become
  <1>8. /\ node[i].role = "Candidate" /\ d.currentTerm = node[i].currentTerm
        /\ m.reqTerm = node[i].currentTerm /\ m.granted
    BY <1>1 DEF Counted
  <1>9. ballots \subseteq ballots'
    BY <1>0, <1>1, <1>2, BallotStep DEF ElectionInv
  <1>10. Answered(i) \subseteq Answered(i)'
    BY <1>0, <1>4, <1>7, <1>8, <1>9, AnsweredGrows
  <1>11. VoteCall(m) /\ CallTerm(m) = node[i].currentTerm
    BY <1>8 DEF VoteCall, CallTerm
  <1>12. j \notin Answered(i)
    BY <1>11 DEF Answered
  <1>13. j \in Answered(i)'
    <2>1. j \in Supporters(i, m.reqTerm)
      BY <1>8 DEF ElectionInv, CallsSound
    <2>2. j \in Supporters(i, d.currentTerm)'
      BY <1>8, <1>9, <2>1 DEF Supporters
    <2>3. ASSUME NEW k \in rpcs', VoteCall(k), k.caller = i, k.peer = j,
                 CallTerm(k) = d.currentTerm
          PROVE  FALSE
      <3>1. k \in rpcs /\ k # m
        BY <1>3, <2>3
      <3>2. SameCall(k, m)
        BY <1>8, <1>11, <2>3 DEF SameCall
      <3>. QED BY <1>11, <2>3, <3>1, <3>2 DEF ElectionInv, CallsSound
    <2>. QED BY <1>7, <2>2, <2>3 DEF Answered
  <1>14. /\ Cardinality(Answered(i)) + 1 <= Cardinality(Answered(i)')
         /\ Cardinality(Answered(i)) \in Nat /\ Cardinality(Answered(i)') \in Nat
    <2>1. Answered(i)' \in SUBSET Node
      BY DEF Answered, Supporters
    <2>2. Answered(i) \cup {j} \in SUBSET Answered(i)' /\ Answered(i) \in SUBSET Answered(i)'
      BY <1>10, <1>13
    <2>3. /\ IsFiniteSet(Answered(i))
          /\ Cardinality(Answered(i)) \in Nat /\ Cardinality(Answered(i)') \in Nat
      BY <2>1, <2>2, NodeCardinality
    <2>4. Cardinality(Answered(i) \cup {j}) <= Cardinality(Answered(i)')
      BY <2>1, <2>2, NodeCardinality
    <2>5. Cardinality(Answered(i) \cup {j}) = Cardinality(Answered(i)) + 1
      BY <1>12, <2>3, FS_AddElement
    <2>. QED BY <2>3, <2>4, <2>5
  <1>15. node[i].votesReceived + 1 <= Cardinality(Answered(i)') /\ node[i].votesReceived \in Nat
    <2>1. node[i].votesReceived <= Cardinality(Answered(i))
      BY <1>0, <1>8 DEF ElectionInv, TallySound
    <2>2. node[i].votesReceived \in Nat
      BY <1>7 DEF NodeState
    <2>. QED BY <1>14, <2>1, <2>2
  <1>16. d.role = "Candidate" => d.votesReceived <= Cardinality(Answered(i)')
    BY <1>1, <1>15 DEF Counted
  <1>17. d.role = "Leader" => Cardinality(Supporters(i, d.currentTerm)') >= Majority
    <2>1. d.role = "Leader" => node[i].votesReceived + 1 >= Majority
      BY <1>1 DEF Counted
    <2>2. /\ Supporters(i, d.currentTerm)' \in SUBSET Node
          /\ Answered(i)' \in SUBSET (Supporters(i, d.currentTerm)')
      BY <1>7 DEF Answered, Supporters
    <2>3. /\ Cardinality(Answered(i)') <= Cardinality(Supporters(i, d.currentTerm)')
          /\ Cardinality(Supporters(i, d.currentTerm)') \in Nat
      BY <2>2, NodeCardinality
    <2>. QED BY <1>14, <1>15, <2>1, <2>3, MajorityType
  <1>. QED BY <1>0, <1>1, <1>2, <1>4, <1>5, <1>6, <1>16, <1>17, ElectionStep

\* and a completed answer to a candidate.
LEMMA RepliedStep ==
    ASSUME TypeOK, TypeOK', ElectionInv, NEW m \in rpcs, NEW n \in NodeState, NEW told,
           m.type = "RequestVote", Completes(m.peer, n, {m}, told),
           VoteStep(node[m.peer], n), Replied(node[m.peer], m, n)
    PROVE  Kept
  <1>. DEFINE i == m.peer
  <1>0. i \in Node /\ m.caller \in Node /\ VoteCall(m)
    BY MessageKind DEF TypeOK, VoteCall
  <1>1. PICK d \in NodeState :
           /\ Become(i, d)
           /\ d.role = n.role /\ d.currentTerm = n.currentTerm /\ d.votedFor = n.votedFor
           /\ d.votesReceived = n.votesReceived
           /\ d.diskTerm = n.diskTerm /\ d.diskVote = n.diskVote
           /\ \A k \in rpcs' : k \in rpcs \ {m} \/ k \in n.out
    BY <1>0, CompletesStep
  <1>2. VoteStep(node[i], d)
    BY <1>1 DEF VoteStep, IsSaved
  <1>3. \A k \in n.out : /\ k.type = "RequestVoteResponse" /\ SameCall(k, m)
                         /\ k.granted => d.currentTerm = m.term /\ d.votedFor = m.caller
    BY <1>1 DEF Replied
  <1>4. \A k \in rpcs' : VoteCall(k) => Continues(k)
    BY <1>0, <1>1, <1>3 DEF Continues, SameCall
  <1>5. ASSUME NEW k \in rpcs', k.type = "RequestVoteResponse", k.granted, k \notin rpcs
        PROVE  k.peer \in Supporters(k.caller, k.reqTerm)'
    <2>1. k \in n.out
      BY <1>1, <1>5
    <2>2. d.currentTerm = m.term /\ d.votedFor = m.caller
      BY <1>3, <1>5, <2>1
    <2>3. i \in Supporters(m.caller, m.term)'
      BY <1>0, <1>1, <1>2, <2>2, BallotStep, NoneAssumption DEF ElectionInv
    <2>4. k.peer = i /\ k.caller = m.caller /\ k.reqTerm = m.term
      BY <1>3, <2>1 DEF SameCall, CallTerm
    <2>. QED BY <2>3, <2>4
  <1>6. \A k, l \in rpcs' : VoteCall(k) /\ VoteCall(l) /\ SameCall(k, l) => k = l
    <2>. SUFFICES ASSUME NEW k \in rpcs', NEW l \in rpcs', VoteCall(k), VoteCall(l),
                         SameCall(k, l)
                  PROVE  k = l
      OBVIOUS
    <2>1. \A q \in rpcs \ {m} : VoteCall(q) => ~SameCall(q, m)
      BY <1>0 DEF ElectionInv, CallsSound
    <2>2. CASE k \in rpcs \ {m} /\ l \in rpcs \ {m}
      BY <2>2 DEF ElectionInv, CallsSound
    <2>3. CASE k \in n.out /\ l \in n.out
      BY <2>3 DEF Replied
    <2>4. CASE k \in n.out /\ l \in rpcs \ {m}
      BY <1>3, <2>1, <2>4 DEF SameCall
    <2>5. CASE l \in n.out /\ k \in rpcs \ {m}
      BY <1>3, <2>1, <2>5 DEF SameCall
    <2>. QED BY <1>1, <2>2, <2>3, <2>4, <2>5
  <1>7. ASSUME d.role = "Candidate" PROVE d.votesReceived <= Cardinality(Answered(i)')
    <2>1. node[i].role = "Candidate" /\ d.currentTerm = node[i].currentTerm
          /\ d.votesReceived <= node[i].votesReceived
      BY <1>1, <1>7 DEF Replied
    <2>2. node'[i] = d /\ node[i] \in NodeState
      BY <1>0, <1>1 DEF Become, TypeOK
    <2>3. Answered(i) \subseteq Answered(i)'
      <3>1. ballots \subseteq ballots'
        BY <1>0, <1>1, <1>2, BallotStep DEF ElectionInv
      <3>. QED BY <1>0, <1>4, <2>1, <2>2, <3>1, AnsweredGrows
    <2>4. Answered(i)' \in SUBSET Node
      BY DEF Answered, Supporters
    <2>5. /\ Cardinality(Answered(i)) <= Cardinality(Answered(i)')
          /\ Cardinality(Answered(i)) \in Nat /\ Cardinality(Answered(i)') \in Nat
      BY <2>3, <2>4, NodeCardinality
    <2>6. node[i].votesReceived <= Cardinality(Answered(i))
      BY <1>0, <2>1 DEF ElectionInv, TallySound
    <2>7. d.votesReceived \in Nat /\ node[i].votesReceived \in Nat
      BY <2>2 DEF NodeState
    <2>. QED BY <2>1, <2>5, <2>6, <2>7
  <1>8. d.role = "Leader" => node[i].role = "Leader" /\ d.currentTerm = node[i].currentTerm
    BY <1>1 DEF Replied
  <1>. QED BY <1>0, <1>1, <1>2, <1>4, <1>5, <1>6, <1>7, <1>8, ElectionStep

\* A crash anywhere in a critical section.
LEMMA DiesStep ==
    ASSUME TypeOK, TypeOK', ElectionInv, NEW i \in Node, NEW n \in NodeState, NEW handled,
           Dies(i, n, handled), DiskStep(node[i], n)
    PROVE  Kept
  <1>. DEFINE d == NewRaftNode(n)
  <1>1. d \in NodeState
    BY NewRaftNodeType DEF NodeState
  <1>2. /\ d.role = "Follower" /\ d.currentTerm = n.diskTerm /\ d.votedFor = n.diskVote
        /\ d.diskTerm = n.diskTerm /\ d.diskVote = n.diskVote
    BY DEF NewRaftNode
  <1>3. Become(i, d) /\ rpcs' = Orphan(rpcs \ handled, i)
    BY DEF Dies
  <1>. HIDE DEF d
  <1>4. VoteStep(node[i], d)
    BY <1>2 DEF VoteStep, DiskStep, IsSaved
  <1>5. \A k \in rpcs' : \E m \in rpcs :
            /\ m.type = k.type /\ SameCall(k, m) /\ (k = m \/ IsRequest(k))
            /\ k = IF m.caller = i THEN [m EXCEPT !.open = FALSE] ELSE m
    <2>1. ASSUME NEW m \in rpcs, IsRequest(m)
          PROVE  LET k == [m EXCEPT !.open = FALSE]
                 IN  k.type = m.type /\ SameCall(k, m) /\ IsRequest(k)
      <3>1. m \in VoteRequest \/ m \in AppendRequest
        BY <2>1, MessageKind DEF TypeOK, IsRequest
      <3>2. CASE m \in VoteRequest
        BY <2>1, <3>2 DEF VoteRequest, SameCall, CallTerm, IsRequest
      <3>3. CASE m \in AppendRequest
        BY <2>1, <3>3 DEF AppendRequest, SameCall, CallTerm, IsRequest
      <3>. QED BY <3>1, <3>2, <3>3
    <2>2. ASSUME NEW k \in rpcs'
          PROVE  \/ k \in rpcs /\ k.caller # i
                 \/ \E m \in rpcs : IsRequest(m) /\ m.caller = i /\ k = [m EXCEPT !.open = FALSE]
      BY <1>3 DEF Orphan
    <2>. SUFFICES ASSUME NEW k \in rpcs'
                  PROVE  \E m \in rpcs :
                            /\ m.type = k.type /\ SameCall(k, m) /\ (k = m \/ IsRequest(k))
                            /\ k = IF m.caller = i THEN [m EXCEPT !.open = FALSE] ELSE m
      BY Zenon
    <2>3. CASE k \in rpcs /\ k.caller # i
      <3>1. SameCall(k, k)
        BY DEF SameCall
      <3>. QED BY <2>3, <3>1
    <2>4. ASSUME NEW m \in rpcs, IsRequest(m), m.caller = i, k = [m EXCEPT !.open = FALSE]
          PROVE  m.type = k.type /\ SameCall(k, m) /\ IsRequest(k)
      BY <2>1, <2>4
    <2>. QED BY <2>2, <2>3, <2>4, Zenon
  <1>6. \A k \in rpcs' : VoteCall(k) => Continues(k)
    BY <1>5 DEF Continues, VoteCall
  <1>7. \A k \in rpcs' : k.type = "RequestVoteResponse" => k \in rpcs
    BY <1>5 DEF IsRequest
  <1>8. \A k, l \in rpcs' : VoteCall(k) /\ VoteCall(l) /\ SameCall(k, l) => k = l
    <2>. SUFFICES ASSUME NEW k \in rpcs', NEW l \in rpcs', VoteCall(k), VoteCall(l),
                         SameCall(k, l)
                  PROVE  k = l
      OBVIOUS
    <2>1. PICK p \in rpcs : /\ p.type = k.type /\ SameCall(k, p)
                            /\ k = IF p.caller = i THEN [p EXCEPT !.open = FALSE] ELSE p
      BY <1>5
    <2>2. PICK q \in rpcs : /\ q.type = l.type /\ SameCall(l, q)
                            /\ l = IF q.caller = i THEN [q EXCEPT !.open = FALSE] ELSE q
      BY <1>5
    <2>3. p = q
      BY <2>1, <2>2 DEF ElectionInv, CallsSound, SameCall, VoteCall
    <2>. QED BY <2>1, <2>2, <2>3
  <1>. QED BY <1>1, <1>2, <1>3, <1>4, <1>6, <1>7, <1>8, ElectionStep

-----------------------------------------------------------------------------
(* The theorems.                                                             *)

\* A node between two critical sections, as a handler finds it.
LEMMA WithSame ==
    ASSUME TypeOK, ElectionInv, NEW i \in Node, NEW w \in Quotas
    PROVE  /\ IsSaved(node[i]) /\ node[i].out = {} /\ node[i].quota = MaxWrites
           /\ IsSaved(With(i, w)) /\ With(i, w).out = {} /\ With(i, w).quota = w
           /\ With(i, w).currentTerm = node[i].currentTerm
           /\ With(i, w).votedFor = node[i].votedFor
           /\ w = MaxWrites => With(i, w) = node[i]
  <1>1. node[i] \in NodeState /\ node[i].out = {} /\ node[i].quota = MaxWrites
    BY DEF TypeOK
  <1>2. IsSaved(node[i])
    BY DEF ElectionInv, BallotInv, Saved, IsSaved
  <1>3. /\ With(i, w).out = {} /\ With(i, w).quota = w
        /\ With(i, w).currentTerm = node[i].currentTerm
        /\ With(i, w).votedFor = node[i].votedFor
        /\ With(i, w).diskTerm = node[i].diskTerm
        /\ With(i, w).diskVote = node[i].diskVote
    BY <1>1 DEF With, NodeState
  <1>4. w = MaxWrites => With(i, w) = node[i]
    BY <1>1 DEF With, NodeState
  <1>. QED BY <1>1, <1>2, <1>3, <1>4 DEF IsSaved

\* Without disk errors a section runs to its end with all its transactions, or
\* the process dies, which keeps the invariant.
LEMMA SettlesStep ==
    ASSUME FaultyDisk = FALSE, TypeOK, TypeOK', ElectionInv, NEW i \in Node, NEW w \in Quotas,
           NEW n \in NodeState, NEW handled, NEW told, Settles(i, w, n, handled, told),
           HandlerStep(With(i, w), n)
    PROVE  \/ Kept
           \/ /\ Completes(i, n, handled, told)
              /\ With(i, w) = node[i] /\ VoteStep(node[i], n)
  <1>1. CASE w = MaxWrites /\ Completes(i, n, handled, told)
    BY <1>1, WithSame DEF HandlerStep
  <1>2. CASE Dies(i, n, handled)
    <2>1. DiskStep(node[i], n)
      BY WithSame DEF HandlerStep, DiskStep
    <2>. QED BY <1>2, <2>1, DiesStep
  <1>. QED BY <1>1, <1>2 DEF Settles

\* An empty cluster has no votes and no leaders.
LEMMA InitElection == Init => ElectionInv
  <1>. SUFFICES ASSUME Init PROVE ElectionInv
    OBVIOUS
  <1>1. \A i \in Node : node[i] = NewRaftNode(EmptyDisk)
    BY DEF Init
  <1>2. LET n == NewRaftNode(EmptyDisk)
        IN  n.role = "Follower" /\ n.diskTerm = n.currentTerm /\ n.diskVote = n.votedFor
    BY DEF NewRaftNode
  <1>. QED BY <1>1, <1>2 DEF Init, ElectionInv, BallotInv, Saved, VotesHeld, OneVotePerTerm,
                             CallsSound, TallySound, LeadersElected

\* Every action keeps the invariant and takes no node back to an earlier term.
LEMMA NextElection ==
    ASSUME FaultyDisk = FALSE
    PROVE  TypeOK /\ ElectionInv /\ [Next]_vars => Kept
  <1>. SUFFICES ASSUME TypeOK, ElectionInv, [Next]_vars PROVE Kept
    OBVIOUS
  <1>t. TypeOK'
    BY NextType
  <1>0. rpcs \subseteq Message
    BY DEF TypeOK
  <1>a. MaxWrites \in Quotas
    BY DEF Quotas, MaxWrites
  <1>b. \A i \in Node : /\ node[i] \in NodeState /\ IsSaved(node[i]) /\ node[i].out = {}
                        /\ node[i].quota = MaxWrites
    BY <1>a, WithType, WithSame
  <1>c. ASSUME NEW i \in Node, NEW n \in NodeState, NEW handled, NEW told,
               Completes(i, n, handled, told), HandlerStep(node[i], n), Quiet(node[i], n)
        PROVE  Kept
    BY <1>b, <1>c, <1>t, QuietStep DEF HandlerStep
  <1>1. ASSUME NEW i \in Node, NEW r \in Round, ElectionTimeout(i, r) PROVE Kept
    <2>1. PICK w \in Quotas : Settles(i, w, StartElection(i, With(i, w), r), {}, outcome)
      BY <1>1 DEF ElectionTimeout
    <2>. DEFINE o == With(i, w)
                n == StartElection(i, o, r)
    <2>2. o \in NodeState /\ IsSaved(o) /\ o.out = {}
      BY WithType, WithSame
    <2>. HIDE DEF o
    <2>3. n \in NodeState /\ HandlerStep(o, n) /\ (Quiet(o, n) \/ Campaigned(i, o, n))
      BY <2>2, StartElectionType, StartElectionStep
    <2>. HIDE DEF n
    <2>4. Settles(i, w, n, {}, outcome)
      BY <2>1 DEF n, o
    <2>5. \/ Kept
          \/ /\ Completes(i, n, {}, outcome)
             /\ o = node[i] /\ VoteStep(node[i], n)
      BY <1>t, <2>3, <2>4, SettlesStep DEF o
    <2>. QED BY <1>t, <2>3, <2>5, QuietStep, CampaignedStep
  <1>2. ASSUME NEW i \in Node, HeartbeatTimeout(i) PROVE Kept
    <2>1. BroadcastAppendEntries(i, node[i]) \in NodeState
      BY <1>b, SendAppendEntriesType DEF BroadcastAppendEntries, Peers
    <2>2. Calm(node[i], BroadcastAppendEntries(i, node[i]))
      BY <1>b, SendAppendEntriesCalm
    <2>3. /\ HandlerStep(node[i], BroadcastAppendEntries(i, node[i]))
          /\ Quiet(node[i], BroadcastAppendEntries(i, node[i]))
      BY <1>b, <2>2, CalmStep
    <2>. QED BY <1>2, <1>c, <2>1, <2>3 DEF HeartbeatTimeout
  <1>3. ASSUME NEW i \in Node, LeaderContactExpires(i) PROVE Kept
    <2>. DEFINE n == [node[i] EXCEPT !.leaderContact = FALSE]
    <2>1. n \in NodeState /\ Calm(node[i], n)
      BY <1>b, ZenonT(60) DEF NodeState, Calm
    <2>2. Completes(i, n, {}, outcome)
      BY <1>3, Zenon DEF LeaderContactExpires
    <2>. HIDE DEF n
    <2>3. HandlerStep(node[i], n) /\ Quiet(node[i], n)
      BY <1>b, <2>1, CalmStep
    <2>. QED BY <1>c, <2>1, <2>2, <2>3
  <1>4. ASSUME NEW i \in Node, Crash(i) PROVE Kept
    <2>1. DiskStep(node[i], node[i])
      BY <1>b DEF DiskStep, IsSaved, NodeState
    <2>. QED BY <1>4, <1>b, <1>t, <2>1, DiesStep DEF Crash
  <1>5. ASSUME NEW m \in rpcs, ReceivePreVote(m) PROVE Kept
    <2>1. m \in VoteRequest /\ m.peer \in Node /\ m.type = "PreVote"
      BY <1>0, <1>5, MessageKind DEF ReceivePreVote
    <2>2. /\ HandlePreVote(node[m.peer], m) \in NodeState
          /\ HandlerStep(node[m.peer], HandlePreVote(node[m.peer], m))
          /\ Quiet(node[m.peer], HandlePreVote(node[m.peer], m))
      BY <1>b, <2>1, HandleRequestVoteType, HandlePreVoteStep
    <2>. QED BY <1>5, <1>c, <2>1, <2>2 DEF ReceivePreVote
  <1>6. ASSUME NEW m \in rpcs, ReceiveRequestVote(m) PROVE Kept
    <2>0. m \in VoteRequest /\ m.peer \in Node /\ m.type = "RequestVote"
      BY <1>0, <1>6, MessageKind DEF ReceiveRequestVote
    <2>1. PICK w \in Quotas :
            Settles(m.peer, w, HandleRequestVote(With(m.peer, w), m), {m}, outcome)
      BY <1>6 DEF ReceiveRequestVote
    <2>. DEFINE i == m.peer
                o == With(i, w)
                n == HandleRequestVote(o, m)
    <2>2. o \in NodeState /\ IsSaved(o) /\ o.out = {}
      BY <2>0, WithType, WithSame
    <2>. HIDE DEF o
    <2>3. n \in NodeState /\ HandlerStep(o, n) /\ Replied(o, m, n)
      BY <2>0, <2>2, HandleRequestVoteType, HandleRequestVoteStep
    <2>. HIDE DEF n
    <2>4. Settles(i, w, n, {m}, outcome)
      BY <2>1 DEF n, o
    <2>5. \/ Kept
          \/ /\ Completes(i, n, {m}, outcome)
             /\ o = node[i] /\ VoteStep(node[i], n)
      BY <1>t, <2>0, <2>3, <2>4, SettlesStep DEF o
    <2>. QED BY <1>t, <2>0, <2>3, <2>5, RepliedStep
  <1>7. ASSUME NEW m \in rpcs, ReceiveAppendEntries(m) PROVE Kept
    <2>0. m \in AppendRequest /\ m.peer \in Node
      BY <1>0, <1>7, MessageKind DEF ReceiveAppendEntries
    <2>1. PICK w \in Quotas :
            Settles(m.peer, w, HandleAppendEntries(With(m.peer, w), m), {m}, outcome)
      BY <1>7 DEF ReceiveAppendEntries
    <2>. DEFINE i == m.peer
                o == With(i, w)
                n == HandleAppendEntries(o, m)
    <2>2. o \in NodeState /\ IsSaved(o) /\ o.out = {}
      BY <2>0, WithType, WithSame
    <2>. HIDE DEF o
    <2>3. n \in NodeState /\ HandlerStep(o, n) /\ Quiet(o, n)
      BY <2>0, <2>2, HandleAppendEntriesType, HandleAppendEntriesStep
    <2>. HIDE DEF n
    <2>4. Settles(i, w, n, {m}, outcome)
      BY <2>1 DEF n, o
    <2>5. \/ Kept
          \/ /\ Completes(i, n, {m}, outcome)
             /\ o = node[i] /\ VoteStep(node[i], n)
      BY <1>t, <2>0, <2>3, <2>4, SettlesStep DEF o
    <2>. QED BY <1>t, <2>0, <2>3, <2>5, QuietStep
  <1>8. ASSUME NEW m \in rpcs, ReceivePreVoteResponse(m) PROVE Kept
    <2>0. m \in VoteResponse /\ m.caller \in Node
      BY <1>0, <1>8, MessageKind DEF ReceivePreVoteResponse
    <2>1. PICK w \in Quotas :
            Settles(m.caller, w, HandlePreVoteResponse(m.caller, With(m.caller, w), m),
                    {m}, outcome)
      BY <1>8 DEF ReceivePreVoteResponse
    <2>. DEFINE i == m.caller
                o == With(i, w)
                n == HandlePreVoteResponse(i, o, m)
    <2>2. o \in NodeState /\ IsSaved(o) /\ o.out = {}
      BY <2>0, WithType, WithSame
    <2>. HIDE DEF o
    <2>3. n \in NodeState /\ HandlerStep(o, n) /\ (Quiet(o, n) \/ Campaigned(i, o, n))
      BY <2>0, <2>2, HandlePreVoteResponseType, HandlePreVoteResponseStep
    <2>. HIDE DEF n
    <2>4. Settles(i, w, n, {m}, outcome)
      BY <2>1 DEF n, o
    <2>5. \/ Kept
          \/ /\ Completes(i, n, {m}, outcome)
             /\ o = node[i] /\ VoteStep(node[i], n)
      BY <1>t, <2>0, <2>3, <2>4, SettlesStep DEF o
    <2>. QED BY <1>t, <2>0, <2>3, <2>5, QuietStep, CampaignedStep
  <1>9. ASSUME NEW m \in rpcs, ReceiveRequestVoteResponse(m) PROVE Kept
    <2>0. m \in VoteResponse /\ m.caller \in Node /\ m.type = "RequestVoteResponse"
      BY <1>0, <1>9, MessageKind DEF ReceiveRequestVoteResponse
    <2>1. PICK w \in Quotas :
            Settles(m.caller, w, HandleRequestVoteResponse(m.caller, With(m.caller, w), m),
                    {m}, outcome)
      BY <1>9 DEF ReceiveRequestVoteResponse
    <2>. DEFINE i == m.caller
                o == With(i, w)
                n == HandleRequestVoteResponse(i, o, m)
    <2>2. o \in NodeState /\ IsSaved(o) /\ o.out = {}
      BY <2>0, WithType, WithSame
    <2>. HIDE DEF o
    <2>3. n \in NodeState /\ HandlerStep(o, n) /\ (Quiet(o, n) \/ Counted(o, m, n))
      BY <2>0, <2>2, HandleRequestVoteResponseType, HandleRequestVoteResponseStep
    <2>. HIDE DEF n
    <2>4. Settles(i, w, n, {m}, outcome)
      BY <2>1 DEF n, o
    <2>5. \/ Kept
          \/ /\ Completes(i, n, {m}, outcome)
             /\ o = node[i] /\ VoteStep(node[i], n)
      BY <1>t, <2>0, <2>3, <2>4, SettlesStep DEF o
    <2>. QED BY <1>t, <2>0, <2>3, <2>5, QuietStep, CountedStep
  <1>10. ASSUME NEW m \in rpcs, ReceiveAppendEntriesResponse(m) PROVE Kept
    <2>0. m \in AppendResponse /\ m.caller \in Node
      BY <1>0, <1>10, MessageKind DEF ReceiveAppendEntriesResponse
    <2>1. PICK w \in Quotas :
            Settles(m.caller, w, HandleAppendEntriesResponse(m.caller, With(m.caller, w), m),
                    {m}, outcome)
      BY <1>10 DEF ReceiveAppendEntriesResponse
    <2>. DEFINE i == m.caller
                o == With(i, w)
                n == HandleAppendEntriesResponse(i, o, m)
    <2>2. o \in NodeState /\ IsSaved(o) /\ o.out = {}
      BY <2>0, WithType, WithSame
    <2>. HIDE DEF o
    <2>3. n \in NodeState /\ HandlerStep(o, n) /\ Quiet(o, n)
      BY <2>0, <2>2, HandleAppendEntriesResponseType, HandleAppendEntriesResponseStep
    <2>. HIDE DEF n
    <2>4. Settles(i, w, n, {m}, outcome)
      BY <2>1 DEF n, o
    <2>5. \/ Kept
          \/ /\ Completes(i, n, {m}, outcome)
             /\ o = node[i] /\ VoteStep(node[i], n)
      BY <1>t, <2>0, <2>3, <2>4, SettlesStep DEF o
    <2>. QED BY <1>t, <2>0, <2>3, <2>5, QuietStep
  <1>11. ASSUME NEW m \in rpcs, CallFails(m) PROVE Kept
    <2>1. /\ rpcs' \subseteq rpcs /\ node' = node /\ ballots' = ballots /\ elected' = elected
      BY <1>11 DEF CallFails
    <2>2. BallotInv' /\ LeadersElected'
      BY <2>1 DEF ElectionInv, BallotInv, Saved, VotesHeld, OneVotePerTerm, LeadersElected,
                  Supporters
    <2>3. CallsSound'
      BY <2>1 DEF ElectionInv, CallsSound, Supporters
    <2>4. ASSUME NEW i \in Node, node[i].role = "Candidate"
          PROVE  node[i].votesReceived <= Cardinality(Answered(i)')
      <3>1. Answered(i) \in SUBSET (Answered(i)') /\ Answered(i)' \in SUBSET Node
        BY <2>1 DEF Answered, Supporters
      <3>2. /\ Cardinality(Answered(i)) <= Cardinality(Answered(i)')
            /\ Cardinality(Answered(i)) \in Nat /\ Cardinality(Answered(i)') \in Nat
        BY <3>1, NodeCardinality
      <3>3. node[i].votesReceived <= Cardinality(Answered(i))
        BY <2>4 DEF ElectionInv, TallySound
      <3>4. node[i].votesReceived \in Nat
        BY <1>b DEF NodeState
      <3>. QED BY <3>2, <3>3, <3>4
    <2>5. \A i \in Node : node'[i].currentTerm >= node[i].currentTerm
      BY <1>b, <2>1 DEF NodeState
    <2>. QED BY <2>1, <2>2, <2>3, <2>4, <2>5 DEF ElectionInv, TallySound, Kept
  <1>12. ASSUME NEW i \in Node, NEW c \in Command, Propose(i, c) PROVE Kept
    <2>1. PICK w \in Quotas :
            Settles(i, w, ProposeCommand(i, With(i, w), c), {}, Proposed(i, w, c))
      BY <1>12 DEF Propose
    <2>. DEFINE o == With(i, w)
                n == ProposeCommand(i, o, c)
    <2>2. o \in NodeState /\ IsSaved(o) /\ o.out = {}
      BY WithType, WithSame
    <2>. HIDE DEF o
    <2>3. n \in NodeState /\ HandlerStep(o, n) /\ Quiet(o, n)
      BY <2>2, ProposeCommandType, ProposalStep
    <2>. HIDE DEF n
    <2>4. Settles(i, w, n, {}, Proposed(i, w, c))
      BY <2>1 DEF n, o
    <2>5. \/ Kept
          \/ /\ Completes(i, n, {}, Proposed(i, w, c))
             /\ o = node[i] /\ VoteStep(node[i], n)
      BY <1>t, <2>3, <2>4, SettlesStep DEF o
    <2>. QED BY <1>t, <2>3, <2>5, QuietStep
  <1>13. ASSUME NEW i \in Node, NEW c \in Command, ProposeReturns(i, c) PROVE Kept
    <2>1. PICK told : Completes(i, ProposalReturns(node[i], c), {}, told)
      BY <1>13, Zenon DEF ProposeReturns
    <2>2. /\ ProposalReturns(node[i], c) \in NodeState
          /\ HandlerStep(node[i], ProposalReturns(node[i], c))
          /\ Quiet(node[i], ProposalReturns(node[i], c))
      BY <1>b, ProposalEndType, ProposalStep
    <2>. QED BY <1>c, <2>1, <2>2
  <1>14. ASSUME NEW i \in Node, NEW c \in Command, ProposeTimesOut(i, c) PROVE Kept
    <2>1. PICK told : Completes(i, ProposalTimesOut(node[i], c), {}, told)
      BY <1>14, Zenon DEF ProposeTimesOut
    <2>2. /\ ProposalTimesOut(node[i], c) \in NodeState
          /\ HandlerStep(node[i], ProposalTimesOut(node[i], c))
          /\ Quiet(node[i], ProposalTimesOut(node[i], c))
      BY <1>b, ProposalEndType, ProposalStep
    <2>. QED BY <1>c, <2>1, <2>2
  <1>15. CASE UNCHANGED vars
    <2>1. ElectionInv'
      BY <1>15 DEF vars, ElectionInv, BallotInv, Saved, VotesHeld, OneVotePerTerm, CallsSound,
                   TallySound, LeadersElected, Supporters, Answered
    <2>2. \A i \in Node : node'[i].currentTerm >= node[i].currentTerm
      BY <1>b, <1>15 DEF vars, NodeState
    <2>. QED BY <2>1, <2>2 DEF Kept
  <1>. QED
    BY <1>1, <1>2, <1>3, <1>4, <1>5, <1>6, <1>7, <1>8, <1>9, <1>10, <1>11, <1>12, <1>13,
       <1>14, <1>15, Zenon DEF Next

\* The invariant behind the theorems below holds in every reachable state.
THEOREM ElectionInvariant ==
    ASSUME FaultyDisk = FALSE
    PROVE  Spec => []ElectionInv
  <1>1. TypeOK /\ ElectionInv /\ [Next]_vars => ElectionInv'
    BY NextElection DEF Kept
  <1>. QED BY <1>1, InitType, NextType, InitElection, PTL DEF Spec

\* HandleRequestVote and campaignLocked: no node ever holds two votes in one
\* term, wherever it crashes.
THEOREM SingleVote ==
    ASSUME FaultyDisk = FALSE
    PROVE  Spec => []OneVotePerTerm
  <1>1. ElectionInv => OneVotePerTerm
    BY DEF ElectionInv, BallotInv
  <1>. QED BY <1>1, ElectionInvariant, PTL

\* checkTerm, campaignLocked and NewRaftNode: no step and no crash takes a node
\* back to an earlier term.
THEOREM TermsOnlyGrow ==
    ASSUME FaultyDisk = FALSE
    PROVE  Spec => TermNeverDecreases
  <1>1. TypeOK /\ ElectionInv /\ [Next]_vars
        => [\A i \in Node : node'[i].currentTerm >= node[i].currentTerm]_vars
    BY NextElection DEF Kept
  <1>. QED BY <1>1, TypeCorrect, ElectionInvariant, PTL DEF Spec, TermNeverDecreases

\* HandleRequestVote: every granted vote that is under way is on the voter's
\* disk, or the voter's disk is past its term.
THEOREM GrantedVoteIsDurable ==
    ASSUME FaultyDisk = FALSE
    PROVE  Spec => []VoteDurable
  <1>1. TypeOK /\ ElectionInv => VoteDurable
    <2>. SUFFICES ASSUME TypeOK, ElectionInv, NEW m \in rpcs,
                         m.type = "RequestVoteResponse", m.granted
                  PROVE  \/ node[m.peer].diskTerm > m.reqTerm
                         \/ /\ node[m.peer].diskTerm = m.reqTerm
                            /\ node[m.peer].diskVote = m.caller
      BY DEF VoteDurable
    <2>. DEFINE b == [voter |-> m.peer, term |-> m.reqTerm, candidate |-> m.caller]
    <2>1. b \in ballots /\ m.peer \in Node
      BY MessageKind DEF ElectionInv, CallsSound, Supporters, TypeOK
    <2>2. /\ b.term <= node[b.voter].currentTerm
          /\ b.term = node[b.voter].currentTerm => b.candidate = node[b.voter].votedFor
      BY <2>1, Zenon DEF ElectionInv, BallotInv, VotesHeld
    <2>3. /\ node[m.peer].diskTerm = node[m.peer].currentTerm
          /\ node[m.peer].diskVote = node[m.peer].votedFor
      BY <2>1 DEF ElectionInv, BallotInv, Saved
    <2>4. m.reqTerm \in Nat /\ node[m.peer].currentTerm \in Nat
      BY <2>1, MessageKind DEF TypeOK, VoteResponse, NodeState
    <2>. QED BY <2>2, <2>3, <2>4
  <1>. QED BY <1>1, TypeCorrect, ElectionInvariant, PTL

\* becomeLeader: at most one node is ever the leader of a term.  Two majorities
\* share a voter, and a voter has one vote.
THEOREM OneLeaderPerTerm ==
    ASSUME FaultyDisk = FALSE
    PROVE  Spec => []ElectionSafety
  <1>1. TypeOK /\ ElectionInv => ElectionSafety
    <2>. SUFFICES ASSUME TypeOK, ElectionInv, NEW a \in elected, NEW b \in elected,
                         a.term = b.term
                  PROVE  a = b
      BY DEF ElectionSafety
    <2>. DEFINE A == Supporters(a.leader, a.term)
                B == Supporters(b.leader, b.term)
    <2>1. A \in SUBSET Node /\ B \in SUBSET Node
      BY DEF Supporters
    <2>2. Cardinality(A) >= Majority /\ Cardinality(B) >= Majority
      BY DEF ElectionInv, LeadersElected
    <2>3. PICK v \in Node : v \in A /\ v \in B
      <3>. HIDE DEF A, B
      <3>1. Cardinality(A) \in Nat /\ Cardinality(B) \in Nat /\ Cardinality(Node) \in Nat
        BY <2>1, NodeCardinality, NodeAssumption, FS_CardinalityType
      <3>2. Cardinality(A) + Cardinality(B) > Cardinality(Node)
        BY <2>2, <3>1, MajorityType
      <3>3. A \cap B # {}
        BY <2>1, <3>2, NodeAssumption, FS_MajoritiesIntersect
      <3>. QED BY <2>1, <3>3
    <2>4. [voter |-> v, term |-> a.term, candidate |-> a.leader] \in ballots
      BY <2>3 DEF Supporters
    <2>5. [voter |-> v, term |-> a.term, candidate |-> b.leader] \in ballots
      BY <2>3 DEF Supporters
    <2>6. a.leader = b.leader
      BY <2>4, <2>5 DEF ElectionInv, BallotInv, OneVotePerTerm
    <2>7. a \in Elected /\ b \in Elected
      BY DEF TypeOK
    <2>. QED BY <2>6, <2>7 DEF Elected
  <1>. QED BY <1>1, TypeCorrect, ElectionInvariant, PTL
=============================================================================
