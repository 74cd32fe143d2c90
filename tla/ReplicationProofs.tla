-------------------------- MODULE ReplicationProofs --------------------------
(***************************************************************************)
(* Why the logs are safe: LogInv, the inductive invariant behind           *)
(* LogMatching, MatchIndexSound, LeaderCompleteness and                    *)
(* StateMachineSafety; how the leaders' logs and the acknowledgements it   *)
(* speaks of may grow and what they keep when they do; and what each       *)
(* handler does to the log, the commit index and the calls of one node,    *)
(* seen against them.                                                      *)
(*                                                                         *)
(* It speaks of three things the program does not keep.  For each term t,  *)
(*   G[t]     is the log of the leader of t, as far as it ever got;        *)
(*   A[j][t]  is how much of G[t] node j has acknowledged in term t        *)
(*            (the leader itself: all of it).                              *)
(* T[j] is the term node j is in.  They are bound by a quantifier and are  *)
(* no part of the model.                                                   *)
(***************************************************************************)
EXTENDS RaftraProofs

\* Logs x and y have k entries each and these are the same.
Agree(x, y, k) == k <= Len(x) /\ k <= Len(y) /\ \A p \in 1..k : x[p] = y[p]

Quorum == {Q \in SUBSET Node : Cardinality(Q) >= Majority}

\* The leader of t itself proposed the entry at k of its log.
Own(G, t, k) == k \in 1..Len(G[t]) /\ G[t][k].term = t

\* A majority acknowledged k entries of the leader of t: they are safe.
Chosen(A, t, k) == \E Q \in Quorum : \A j \in Q : A[j][t] >= k

\* A majority has moved on without the entry at k: it will never be chosen.
Blocked(A, T, t, k) == \E Q \in Quorum : \A j \in Q : T[j] > t /\ A[j][t] < k

\* Every entry of L is where the leader of its term had it, with the same
\* entries before it.
Backed(G, L) == \A k \in 1..Len(L) : Agree(L, G[L[k].term], k)

\* The first c entries of L were chosen in a term up to u.
Settled(G, A, L, c, u) ==
    \/ c = 0
    \/ \E s, k \in Nat : /\ s <= u /\ c <= k
                         /\ Own(G, s, k) /\ Chosen(A, s, k) /\ Agree(L, G[s], c)

\* Whatever node j acknowledged in the terms before u is in log L, or will
\* never be chosen.
Covers(G, A, T, j, L, u) ==
    \A t \in Nat : t < u =>
        \A k \in 1..A[j][t] : Own(G, t, k) => Agree(G[t], L, k) \/ Blocked(A, T, t, k)

\* The leaders' logs: each is backed by the others, its terms ascend, and a
\* later leader has whatever an earlier one may have got chosen.
GhostSound(G, A, T) ==
    /\ \A t \in Nat :
          /\ Backed(G, G[t])
          /\ \A k \in 1..Len(G[t]) : G[t][k].term >= 1 /\ G[t][k].term <= t
          /\ \A k, l \in 1..Len(G[t]) : k <= l => G[t][k].term <= G[t][l].term
    /\ \A j \in Node, t \in Nat : A[j][t] <= Len(G[t]) /\ (A[j][t] > 0 => T[j] >= t)
    /\ \A t, u \in Nat : t < u /\ G[u] # <<>> =>
          \A k \in Nat : Own(G, t, k) => Agree(G[t], G[u], k) \/ Blocked(A, T, t, k)

\* The log L of node i, which is in term t.
LogHeld(G, A, T, i, L, t) ==
    /\ Backed(G, L)
    /\ \A k \in 1..Len(L) : L[k].term <= t
    /\ Agree(G[t], L, A[i][t])
    /\ \A u \in Nat : Covers(G, A, T, i, L, u)

\* What a leader believes of itself and of its peers.
LeaderSound(G, A, i, n) ==
    n.role = "Leader" =>
        /\ n.log = G[n.currentTerm] /\ n.log # <<>>
        /\ A[i][n.currentTerm] = Len(n.log)
        /\ n.matchIndex[i] = 0
        /\ \A j \in Node : /\ n.matchIndex[j] <= A[j][n.currentTerm]
                           /\ n.nextIndex[j] <= Len(n.log) + 1

\* The commands among the first k entries of the committed log.
AppliedPrefix(com, k) ==
    {<<l, com[l].command>> : l \in {p \in 1..k : p <= Len(com) /\ com[p].command # NoOp}}

\* What a node has committed and applied.
CommitSound(G, A, com, n) ==
    /\ n.lastApplied = n.commitIndex
    /\ n.commitIndex <= Len(com)
    /\ Settled(G, A, n.log, n.commitIndex, n.currentTerm)
    /\ n.kv = AppliedPrefix(com, n.lastApplied)

NodeSound(G, A, T, com, i, n) ==
    /\ LogHeld(G, A, T, i, n.log, n.currentTerm)
    /\ LeaderSound(G, A, i, n)
    /\ CommitSound(G, A, com, n)

\* An AppendEntries call carries a piece of the leader's log; the answer to it
\* tells no more than was acknowledged.
AppendSound(G, A, com, m) ==
    /\ m.type = "AppendEntries" =>
          /\ m.prevLogIndex + Len(m.entries) <= Len(G[m.term])
          /\ \A k \in 1..Len(m.entries) : m.entries[k] = G[m.term][m.prevLogIndex + k]
          /\ m.prevLogIndex > 0 => m.prevLogTerm = G[m.term][m.prevLogIndex].term
          /\ m.leaderCommit <= Len(com)
          /\ Settled(G, A, G[m.term], m.leaderCommit, m.term)
    /\ m.type = "AppendEntriesResponse" /\ m.success =>
          m.prevLogIndex + m.numEntries <= A[m.peer][m.reqTerm]

-----------------------------------------------------------------------------

Terms == [i \in Node |-> node[i].currentTerm]

\* Only the winner of an election has a log in its term.
Won(G) ==
    \A t \in Nat : G[t] # <<>> =>
        \E i \in Node : /\ Supporters(i, t) \in Quorum
                        /\ node[i].currentTerm >= t
                        /\ node[i].currentTerm = t => node[i].role # "Candidate"

\* Candidate i is still in the term of the call.
Standing(i, t) == node[i].role = "Candidate" /\ node[i].currentTerm = t

\* The nodes behind candidate i from which it expects no answer any more.
Behind(G, A, T, i) ==
    {j \in Node :
        /\ T[j] >= node[i].currentTerm
        /\ Covers(G, A, T, j, node[i].log, node[i].currentTerm)
        /\ ~\E m \in rpcs : /\ VoteCall(m) /\ m.caller = i /\ m.peer = j
                            /\ CallTerm(m) = node[i].currentTerm}

\* Whose vote a candidate counts has nothing that the candidate lacks.
VotesSound(G, A, T) ==
    /\ \A m \in rpcs : m.type = "RequestVote" /\ Standing(m.caller, m.term) =>
          /\ m.lastLogIndex = LastIndex(node[m.caller])
          /\ m.lastLogTerm = LastTerm(node[m.caller])
    /\ \A m \in rpcs : m.type = "RequestVoteResponse" /\ m.granted /\ Standing(m.caller, m.reqTerm) =>
          /\ T[m.peer] >= m.reqTerm
          /\ Covers(G, A, T, m.peer, node[m.caller].log, m.reqTerm)
    /\ \A i \in Node : node[i].role = "Candidate" =>
          node[i].currentTerm >= 1 /\ node[i].votesReceived <= Cardinality(Behind(G, A, T, i))

\* An AppendEntries call was placed by the leader of its term, to another node.
CallersElected ==
    \A m \in rpcs : IsAppend(m) =>
        /\ m.caller # m.peer
        /\ m.type = "AppendEntries" => [term |-> m.term, leader |-> m.caller] \in elected

LogSound(G, A) ==
    /\ GhostSound(G, A, Terms)
    /\ Won(G)
    /\ \A i \in Node : NodeSound(G, A, Terms, committed, i, node[i])
    /\ \A m \in rpcs : AppendSound(G, A, committed, m)
    /\ VotesSound(G, A, Terms)
    /\ \E u \in Nat : Settled(G, A, committed, Len(committed), u)

LogInv ==
    /\ CallersElected
    /\ \E G \in [Nat -> Log], A \in [Node -> [Nat -> Nat]] : LogSound(G, A)

-----------------------------------------------------------------------------
GhostType(G, A, T) ==
    G \in [Nat -> Log] /\ A \in [Node -> [Nat -> Nat]] /\ T \in [Node -> Nat]

\* The leaders' logs only get longer, terms only rise, and nobody acknowledges
\* anything in a term it has left.
Grows(G, A, T, H, B, U) ==
    /\ \A t \in Nat : Agree(G[t], H[t], Len(G[t]))
    /\ \A j \in Node : T[j] <= U[j]
    /\ \A j \in Node, t \in Nat : A[j][t] <= B[j][t] /\ (T[j] > t => B[j][t] = A[j][t])

\* K is L with one more entry, of term t.
Extends(L, K, t) ==
    /\ Len(K) = Len(L) + 1 /\ K[Len(K)].term = t
    /\ \A k \in 1..Len(L) : K[k] = L[k]

-----------------------------------------------------------------------------
(* Logs and majorities.                                                      *)

\* The length of a log.
LEMMA LogLength ==
    ASSUME NEW L \in Log
    PROVE  /\ Len(L) \in Nat
           /\ L # <<>> <=> Len(L) > 0
           /\ \A k \in 1..Len(L) : L[k] \in Entry /\ L[k].term \in Nat
  <1>1. L \in Seq(Entry)
    BY DEF Log
  <1>2. Len(L) \in Nat /\ (L # <<>> <=> Len(L) > 0)
    BY <1>1
  <1>. QED BY <1>2, EntryType

\* Agreement is reflexive, symmetric and, as far as both reach, transitive.
LEMMA AgreeRefl ==
    ASSUME NEW x \in Log, NEW k \in Nat, k <= Len(x)
    PROVE  Agree(x, x, k)
  BY DEF Agree

LEMMA AgreeSym ==
    ASSUME NEW x, NEW y, NEW k, Agree(x, y, k)
    PROVE  Agree(y, x, k)
  BY DEF Agree

LEMMA AgreeTrans ==
    ASSUME NEW x \in Log, NEW y \in Log, NEW z \in Log, NEW k \in Nat, NEW l \in Nat,
           NEW p \in Nat, Agree(x, y, k), Agree(y, z, l), p <= k, p <= l
    PROVE  Agree(x, z, p)
  <1>1. Len(x) \in Nat /\ Len(y) \in Nat /\ Len(z) \in Nat
    BY LogLength
  <1>. QED BY <1>1 DEF Agree

\* Two majorities have a member in common.
LEMMA QuorumsMeet ==
    ASSUME NEW P \in Quorum, NEW Q \in Quorum
    PROVE  \E j \in Node : j \in P /\ j \in Q
  <1>1. /\ P \in SUBSET Node /\ Q \in SUBSET Node
        /\ Cardinality(P) >= Majority /\ Cardinality(Q) >= Majority
    BY DEF Quorum
  <1>2. Cardinality(P) \in Nat /\ Cardinality(Q) \in Nat /\ Cardinality(Node) \in Nat
    BY <1>1, NodeCardinality, NodeAssumption, FS_CardinalityType
  <1>3. Cardinality(P) + Cardinality(Q) > Cardinality(Node)
    BY <1>1, <1>2, MajorityType
  <1>4. P \cap Q # {}
    BY <1>1, <1>3, NodeAssumption, FS_MajoritiesIntersect
  <1>. QED BY <1>1, <1>4

LEMMA QuorumNodes == \A Q \in Quorum : Q \subseteq Node
  BY DEF Quorum

\* A set with a majority in it is a majority.
LEMMA QuorumGrows ==
    ASSUME NEW Q \in Quorum, NEW R \in SUBSET Node, Q \subseteq R
    PROVE  R \in Quorum
  <1>1. Cardinality(Q) >= Majority
    BY DEF Quorum
  <1>2. Cardinality(Q) \in Nat /\ Cardinality(R) \in Nat /\ Cardinality(Q) <= Cardinality(R)
    BY NodeCardinality
  <1>3. Cardinality(R) >= Majority
    BY <1>1, <1>2, MajorityType
  <1>. QED BY <1>3 DEF Quorum

-----------------------------------------------------------------------------
(* What growth keeps.                                                        *)

\* An entry that can never be chosen never will be, and one that is chosen is
\* chosen for good.
LEMMA FateGrows ==
    ASSUME NEW G, NEW A, NEW T, NEW H, NEW B, NEW U, GhostType(G, A, T), GhostType(H, B, U),
           Grows(G, A, T, H, B, U), NEW t \in Nat, NEW k \in Nat
    PROVE  /\ Blocked(A, T, t, k) => Blocked(B, U, t, k)
           /\ Chosen(A, t, k) => Chosen(B, t, k)
  <1>1. \A j \in Node : /\ A[j][t] \in Nat /\ B[j][t] \in Nat /\ T[j] \in Nat /\ U[j] \in Nat
                        /\ T[j] <= U[j] /\ A[j][t] <= B[j][t]
                        /\ T[j] > t => B[j][t] = A[j][t]
    BY ZenonT(60) DEF GhostType, Grows
  <1>2. Blocked(A, T, t, k) => Blocked(B, U, t, k)
    <2>. SUFFICES ASSUME NEW Q \in Quorum, \A j \in Q : T[j] > t /\ A[j][t] < k
                  PROVE  \A j \in Q : U[j] > t /\ B[j][t] < k
      BY DEF Blocked
    <2>. QED BY <1>1, QuorumNodes
  <1>3. Chosen(A, t, k) => Chosen(B, t, k)
    <2>. SUFFICES ASSUME NEW Q \in Quorum, \A j \in Q : A[j][t] >= k
                  PROVE  \A j \in Q : B[j][t] >= k
      BY DEF Chosen
    <2>. QED BY <1>1, QuorumNodes
  <1>. QED BY <1>2, <1>3

\* No entry is both chosen and lost for good.
LEMMA ChosenNotBlocked ==
    ASSUME NEW G, NEW A, NEW T, GhostType(G, A, T), NEW t \in Nat, NEW k \in Nat,
           Chosen(A, t, k)
    PROVE  ~Blocked(A, T, t, k)
  <1>. SUFFICES ASSUME Blocked(A, T, t, k) PROVE FALSE
    OBVIOUS
  <1>1. PICK P \in Quorum : \A j \in P : A[j][t] >= k
    BY DEF Chosen
  <1>2. PICK Q \in Quorum : \A j \in Q : T[j] > t /\ A[j][t] < k
    BY DEF Blocked
  <1>3. PICK j \in Node : j \in P /\ j \in Q
    BY QuorumsMeet
  <1>4. A[j][t] \in Nat
    BY DEF GhostType
  <1>. QED BY <1>1, <1>2, <1>3, <1>4

\* What agrees with a leader's log agrees with it when it is longer.
LEMMA AgreeGrows ==
    ASSUME NEW G, NEW A, NEW T, NEW H, NEW B, NEW U, GhostType(G, A, T), GhostType(H, B, U),
           Grows(G, A, T, H, B, U), NEW t \in Nat, NEW k \in Nat, NEW L \in Log
    PROVE  /\ Agree(G[t], L, k) => Agree(H[t], L, k)
           /\ Agree(L, G[t], k) => Agree(L, H[t], k)
           /\ Len(G[t]) <= Len(H[t])
           /\ Own(G, t, k) => Own(H, t, k)
           /\ Own(H, t, k) /\ k <= Len(G[t]) => Own(G, t, k)
  <1>1. G[t] \in Log /\ H[t] \in Log
    BY DEF GhostType
  <1>2. Len(G[t]) \in Nat /\ Len(H[t]) \in Nat /\ Len(L) \in Nat
    BY <1>1, LogLength
  <1>3. Len(G[t]) <= Len(H[t]) /\ \A p \in 1..Len(G[t]) : G[t][p] = H[t][p]
    BY DEF Grows, Agree
  <1>4. Agree(G[t], L, k) => Agree(H[t], L, k)
    BY <1>2, <1>3 DEF Agree
  <1>5. Agree(L, G[t], k) => Agree(L, H[t], k)
    BY <1>2, <1>3 DEF Agree
  <1>. QED BY <1>2, <1>3, <1>4, <1>5 DEF Own

LEMMA BackedGrows ==
    ASSUME NEW G, NEW A, NEW T, NEW H, NEW B, NEW U, GhostType(G, A, T), GhostType(H, B, U),
           Grows(G, A, T, H, B, U), NEW L \in Log, Backed(G, L)
    PROVE  Backed(H, L)
  <1>. SUFFICES ASSUME NEW k \in 1..Len(L) PROVE Agree(L, H[L[k].term], k)
    BY DEF Backed
  <1>1. Len(L) \in Nat /\ L[k].term \in Nat
    BY LogLength
  <1>2. Agree(L, G[L[k].term], k)
    BY DEF Backed
  <1>. QED BY <1>1, <1>2, AgreeGrows

LEMMA SettledGrows ==
    ASSUME NEW G, NEW A, NEW T, NEW H, NEW B, NEW U, GhostType(G, A, T), GhostType(H, B, U),
           Grows(G, A, T, H, B, U), NEW L \in Log, NEW c \in Nat, NEW u \in Nat,
           NEW v \in Nat, u <= v, Settled(G, A, L, c, u)
    PROVE  Settled(H, B, L, c, v)
  <1>1. CASE c = 0
    BY <1>1 DEF Settled
  <1>2. CASE c # 0
    <2>1. PICK s \in Nat, k \in Nat : /\ s <= u /\ c <= k
                                      /\ Own(G, s, k) /\ Chosen(A, s, k) /\ Agree(L, G[s], c)
      BY <1>2 DEF Settled
    <2>2. Own(H, s, k) /\ Chosen(B, s, k) /\ Agree(L, H[s], c)
      BY <2>1, AgreeGrows, FateGrows
    <2>3. s <= v
      BY <2>1
    <2>. QED BY <2>1, <2>2, <2>3 DEF Settled
  <1>. QED BY <1>1, <1>2

\* What a log covers of the past of node j it covers for good, as long as j
\* acknowledges nothing more in those terms.
LEMMA CoversGrows ==
    ASSUME NEW G, NEW A, NEW T, NEW H, NEW B, NEW U, GhostType(G, A, T), GhostType(H, B, U),
           Grows(G, A, T, H, B, U), NEW j \in Node, NEW L \in Log, NEW u \in Nat,
           Covers(G, A, T, j, L, u),
           \A t \in Nat : t < u => B[j][t] = A[j][t] /\ A[j][t] <= Len(G[t])
    PROVE  Covers(H, B, U, j, L, u)
  <1>. SUFFICES ASSUME NEW t \in Nat, t < u, NEW k \in 1..B[j][t], Own(H, t, k)
                PROVE  Agree(H[t], L, k) \/ Blocked(B, U, t, k)
    BY DEF Covers
  <1>1. B[j][t] = A[j][t] /\ A[j][t] <= Len(G[t]) /\ A[j][t] \in Nat /\ Len(G[t]) \in Nat
    BY LogLength DEF GhostType
  <1>2. k \in Nat /\ k <= Len(G[t]) /\ k \in 1..A[j][t]
    BY <1>1
  <1>3. Own(G, t, k)
    BY <1>2, AgreeGrows DEF Log
  <1>4. Agree(G[t], L, k) \/ Blocked(A, T, t, k)
    BY <1>2, <1>3 DEF Covers
  <1>. QED BY <1>2, <1>4, AgreeGrows, FateGrows

-----------------------------------------------------------------------------
(* The leaders' logs.                                                        *)

\* Acknowledging more of them, or moving to a later term, keeps them sound.
LEMMA GhostKeeps ==
    ASSUME NEW G, NEW A, NEW T, NEW B, NEW U, GhostType(G, A, T), GhostType(G, B, U),
           Grows(G, A, T, G, B, U), GhostSound(G, A, T),
           \A j \in Node, t \in Nat : B[j][t] <= Len(G[t]) /\ (B[j][t] > 0 => U[j] >= t)
    PROVE  GhostSound(G, B, U)
  <1>1. \A t, u \in Nat : t < u /\ G[u] # <<>> =>
          \A k \in Nat : Own(G, t, k) => Agree(G[t], G[u], k) \/ Blocked(B, U, t, k)
    BY FateGrows DEF GhostSound
  <1>. QED BY <1>1 DEF GhostSound

\* A leader of term t with log L, or the winner of t with log L, appends an
\* entry of its term.
LEMMA GhostExtends ==
    ASSUME NEW G, NEW A, NEW T, NEW H, NEW B, NEW U, GhostType(G, A, T), GhostType(H, B, U),
           Grows(G, A, T, H, B, U), GhostSound(G, A, T),
           NEW t \in Nat, NEW L \in Log, NEW K \in Log, t >= 1, Extends(L, K, t),
           H[t] = K, \A s \in Nat : s # t => H[s] = G[s],
           Backed(G, L), \A k \in 1..Len(L) : L[k].term <= t,
           L = G[t] \/ G[t] = <<>>,
           \A s \in Nat : s < t => \A k \in Nat :
              Own(G, s, k) => Agree(G[s], L, k) \/ Blocked(A, T, s, k),
           \A u \in Nat : t < u /\ G[u] # <<>> => \E Q \in Quorum : \A j \in Q : T[j] > t,
           \A j \in Node, s \in Nat : B[j][s] <= Len(H[s]) /\ (B[j][s] > 0 => U[j] >= s)
    PROVE  GhostSound(H, B, U)
  <1>1. /\ Len(K) = Len(L) + 1 /\ Len(L) \in Nat
        /\ \A k \in 1..Len(L) : K[k] = L[k]
        /\ K[Len(L) + 1].term = t
    BY LogLength DEF Extends
  <1>2. H[t] = K /\ \A s \in Nat : s # t => H[s] = G[s]
    OBVIOUS
  <1>3. \A k \in 1..Len(L) : /\ L[k].term \in Nat /\ L[k].term >= 1
                             /\ Agree(L, G[L[k].term], k)
    <2>. SUFFICES ASSUME NEW k \in 1..Len(L)
                  PROVE  /\ L[k].term \in Nat /\ L[k].term >= 1
                         /\ Agree(L, G[L[k].term], k)
      OBVIOUS
    <2>1. L[k].term \in Nat /\ Agree(L, G[L[k].term], k)
      BY LogLength DEF Backed
    <2>2. G[L[k].term] \in Log
      BY <2>1 DEF GhostType
    <2>3. k \in 1..Len(G[L[k].term]) /\ G[L[k].term][k] = L[k]
      BY <1>1, <2>1 DEF Agree
    <2>4. G[L[k].term][k].term >= 1
      BY <2>1, <2>3 DEF GhostSound
    <2>. QED BY <2>1, <2>3, <2>4
  <1>4. \A k, l \in 1..Len(L) : k <= l => L[k].term <= L[l].term
    <2>. SUFFICES ASSUME NEW k \in 1..Len(L), NEW l \in 1..Len(L), k <= l
                  PROVE  L[k].term <= L[l].term
      OBVIOUS
    <2>1. L[l].term \in Nat /\ Agree(L, G[L[l].term], l)
      BY <1>3
    <2>2. G[L[l].term] \in Log
      BY <2>1 DEF GhostType
    <2>3. /\ k \in 1..Len(G[L[l].term]) /\ l \in 1..Len(G[L[l].term])
          /\ G[L[l].term][k] = L[k] /\ G[L[l].term][l] = L[l]
      BY <1>1, <2>1, <2>2, LogLength DEF Agree
    <2>. QED BY <2>1, <2>3 DEF GhostSound
  <1>5. Backed(H, K)
    <2>. SUFFICES ASSUME NEW k \in 1..Len(K) PROVE Agree(K, H[K[k].term], k)
      BY DEF Backed
    <2>1. CASE k \in 1..Len(L)
      <3>1. Agree(L, H[L[k].term], k)
        BY <2>1, BackedGrows DEF Backed
      <3>. QED BY <1>1, <2>1, <3>1 DEF Agree
    <2>2. CASE k = Len(L) + 1
      BY <1>1, <1>2, <2>2, AgreeRefl
    <2>. QED BY <1>1, <2>1, <2>2
  <1>6. \A s \in Nat : Backed(H, H[s])
    <2>1. \A s \in Nat : s # t => Backed(H, G[s])
      BY BackedGrows DEF GhostSound, GhostType
    <2>. QED BY <1>2, <1>5, <2>1
  <1>7. \A s \in Nat : \A k \in 1..Len(H[s]) : H[s][k].term >= 1 /\ H[s][k].term <= s
    <2>1. \A k \in 1..Len(K) : K[k].term >= 1 /\ K[k].term <= t
      BY <1>1, <1>3
    <2>. QED BY <1>2, <2>1 DEF GhostSound
  <1>8. \A s \in Nat : \A k, l \in 1..Len(H[s]) : k <= l => H[s][k].term <= H[s][l].term
    <2>1. \A k, l \in 1..Len(K) : k <= l => K[k].term <= K[l].term
      BY <1>1, <1>4
    <2>. QED BY <1>2, <2>1 DEF GhostSound
  <1>9. ASSUME NEW s \in Nat, NEW u \in Nat, s < u, H[u] # <<>>, NEW k \in Nat, Own(H, s, k)
        PROVE  Agree(H[s], H[u], k) \/ Blocked(B, U, s, k)
    <2>0. /\ G[s] \in Log /\ H[s] \in Log /\ G[u] \in Log /\ H[u] \in Log
          /\ Len(G[s]) \in Nat /\ Len(G[u]) \in Nat /\ Len(H[u]) \in Nat
      BY LogLength DEF GhostType
    <2>1. CASE s # t /\ u # t
      <3>1. Own(G, s, k) /\ G[u] # <<>>
        BY <1>2, <1>9, <2>1 DEF Own
      <3>2. Agree(G[s], G[u], k) \/ Blocked(A, T, s, k)
        BY <1>9, <3>1 DEF GhostSound
      <3>. QED BY <1>2, <2>1, <3>2, FateGrows
    <2>2. CASE u = t
      <3>1. Own(G, s, k)
        BY <1>2, <1>9, <2>2 DEF Own
      <3>2. Agree(G[s], L, k) \/ Blocked(A, T, s, k)
        BY <1>9, <2>2, <3>1
      <3>3. Agree(G[s], L, k) => Agree(G[s], K, k)
        BY <1>1 DEF Agree
      <3>. QED BY <1>2, <1>9, <2>2, <3>2, <3>3, FateGrows
    <2>3. CASE s = t /\ k <= Len(G[t])
      <3>1. Own(G, t, k) /\ G[u] # <<>> /\ H[u] = G[u]
        BY <1>2, <1>9, <2>3, AgreeGrows
      <3>2. Agree(G[t], G[u], k) \/ Blocked(A, T, t, k)
        BY <1>9, <2>3, <3>1 DEF GhostSound
      <3>. QED BY <2>0, <2>3, <3>1, <3>2, FateGrows, AgreeGrows
    <2>4. CASE s = t /\ ~(k <= Len(G[t]))
      <3>1. G[u] # <<>>
        BY <1>2, <1>9, <2>4
      <3>2. PICK Q \in Quorum : \A j \in Q : T[j] > t
        BY <1>9, <2>4, <3>1
      <3>3. \A j \in Q : A[j][t] < k
        <4>. SUFFICES ASSUME NEW j \in Q PROVE A[j][t] < k
          OBVIOUS
        <4>1. j \in Node
          BY QuorumNodes
        <4>2. A[j][t] <= Len(G[t]) /\ A[j][t] \in Nat
          BY <4>1 DEF GhostSound, GhostType
        <4>. QED BY <2>0, <2>4, <4>2
      <3>4. Blocked(A, T, t, k)
        BY <3>2, <3>3 DEF Blocked
      <3>. QED BY <2>4, <3>4, FateGrows
    <2>. QED BY <2>1, <2>2, <2>3, <2>4
  <1>. QED BY <1>6, <1>7, <1>8, <1>9 DEF GhostSound

-----------------------------------------------------------------------------
(* The log of one node.                                                      *)

\* A node that keeps its log and acknowledges nothing.
LEMMA HeldGrows ==
    ASSUME NEW G, NEW A, NEW T, NEW H, NEW B, NEW U, GhostType(G, A, T), GhostType(H, B, U),
           Grows(G, A, T, H, B, U), GhostSound(G, A, T), NEW i \in Node, NEW L \in Log,
           LogHeld(G, A, T, i, L, T[i]), B[i] = A[i]
    PROVE  LogHeld(H, B, U, i, L, U[i])
  <1>1. T[i] \in Nat /\ U[i] \in Nat /\ T[i] <= U[i] /\ G[U[i]] \in Log /\ H[U[i]] \in Log
        /\ A[i][U[i]] \in Nat /\ Len(L) \in Nat
    BY LogLength, ZenonT(60) DEF GhostType, Grows
  <1>2. Backed(H, L)
    BY BackedGrows DEF LogHeld
  <1>3. \A k \in 1..Len(L) : L[k].term <= U[i]
    BY <1>1, LogLength DEF LogHeld
  <1>4. Agree(H[U[i]], L, A[i][U[i]])
    <2>1. CASE U[i] = T[i]
      BY <1>1, <2>1, AgreeGrows DEF LogHeld
    <2>2. CASE U[i] # T[i]
      <3>1. A[i][U[i]] = 0
        BY <1>1, <2>2 DEF GhostSound
      <3>. QED BY <1>1, <3>1, LogLength DEF Agree
    <2>. QED BY <2>1, <2>2
  <1>5. \A u \in Nat : Covers(H, B, U, i, L, u)
    BY CoversGrows DEF LogHeld, GhostSound
  <1>. QED BY <1>2, <1>3, <1>4, <1>5 DEF LogHeld

\* A leader that appends.
LEMMA HeldAppends ==
    ASSUME NEW G, NEW A, NEW T, NEW H, NEW B, NEW U, GhostType(G, A, T), GhostType(H, B, U),
           Grows(G, A, T, H, B, U), GhostSound(G, A, T), NEW i \in Node, NEW L \in Log,
           NEW K \in Log, NEW t \in Nat, T[i] <= t, LogHeld(G, A, T, i, L, T[i]),
           Extends(L, K, t), H[t] = K, B[i][t] <= Len(K),
           \A s \in Nat : s # t => B[i][s] = A[i][s]
    PROVE  LogHeld(H, B, U, i, K, t)
  <1>1. /\ Len(K) = Len(L) + 1 /\ Len(L) \in Nat
        /\ \A k \in 1..Len(L) : K[k] = L[k]
        /\ K[Len(L) + 1].term = t
    BY LogLength DEF Extends
  <1>2. T[i] \in Nat /\ \A s \in Nat : A[i][s] \in Nat /\ B[i][s] \in Nat
    BY ZenonT(60) DEF GhostType
  <1>3. H[t] = K
    OBVIOUS
  <1>a. \A k \in Nat : \A x \in Log : Agree(x, L, k) => Agree(x, K, k)
    BY <1>1 DEF Agree
  <1>4. Backed(H, K)
    <2>. SUFFICES ASSUME NEW k \in 1..Len(K) PROVE Agree(K, H[K[k].term], k)
      BY DEF Backed
    <2>1. CASE k \in 1..Len(L)
      <3>1. Agree(L, H[L[k].term], k)
        BY <2>1, BackedGrows DEF LogHeld, Backed
      <3>. QED BY <1>1, <2>1, <3>1 DEF Agree
    <2>2. CASE k = Len(L) + 1
      BY <1>1, <1>3, <2>2, AgreeRefl
    <2>. QED BY <1>1, <2>1, <2>2
  <1>5. \A k \in 1..Len(K) : K[k].term <= t
    <2>1. \A k \in 1..Len(L) : L[k].term <= T[i]
      BY Zenon DEF LogHeld
    <2>2. \A k \in 1..Len(L) : L[k].term \in Nat
      BY LogLength
    <2>3. ASSUME NEW k \in 1..Len(K) PROVE K[k].term <= t
      <3>1. CASE k = Len(L) + 1
        BY <1>1, <3>1
      <3>2. CASE k # Len(L) + 1
        <4>1. k \in 1..Len(L)
          BY <1>1, <3>2
        <4>2. K[k] = L[k] /\ L[k].term \in Nat /\ L[k].term <= T[i]
          BY <1>1, <2>1, <2>2, <4>1
        <4>. QED BY <1>2, <4>2
      <3>. QED BY <3>1, <3>2
    <2>. QED BY <2>3
  <1>6. \A k \in Nat : k <= B[i][t] => Agree(H[t], K, k)
    BY <1>1, <1>2, <1>3, LogLength, AgreeRefl
  <1>7. ASSUME NEW u \in Nat PROVE Covers(H, B, U, i, K, u)
    <2>. SUFFICES ASSUME NEW s \in Nat, s < u, NEW k \in 1..B[i][s], Own(H, s, k)
                  PROVE  Agree(H[s], K, k) \/ Blocked(B, U, s, k)
      BY DEF Covers
    <2>1. CASE s = t
      BY <1>2, <1>6, <2>1
    <2>2. CASE s # t
      <3>1. B[i][s] = A[i][s] /\ A[i][s] \in Nat /\ A[i][s] <= Len(G[s]) /\ G[s] \in Log
            /\ Len(G[s]) \in Nat /\ H[s] \in Log
        BY <1>2, <2>2, LogLength DEF GhostSound, GhostType
      <3>2. k \in Nat /\ k <= Len(G[s])
        BY <3>1
      <3>3. Own(G, s, k)
        BY <1>1, <3>2, AgreeGrows
      <3>4. Agree(G[s], L, k) \/ Blocked(A, T, s, k)
        BY <3>1, <3>3 DEF LogHeld, Covers
      <3>5. Agree(H[s], L, k) \/ Blocked(B, U, s, k)
        BY <3>2, <3>4, AgreeGrows, FateGrows
      <3>. QED BY <1>a, <3>1, <3>2, <3>5
    <2>. QED BY <2>1, <2>2
  <1>. QED BY <1>2, <1>4, <1>5, <1>6, <1>7 DEF LogHeld

\* What may become of a log L when an AppendEntries of the leader with log H is
\* stored: nothing, or it becomes a piece K of H that keeps all that L and H
\* had in common.  A crash between cutting and appending is no exception.
Reconciled(L, K, H) ==
    \/ K = L
    \/ H # <<>> /\ Agree(K, H, Len(K)) /\ \A k \in Nat : Agree(L, H, k) => k <= Len(K)

\* Whatever L and H have in common K has too.
LEMMA ReconciledKeeps ==
    ASSUME NEW L \in Log, NEW K \in Log, NEW H \in Log, Reconciled(L, K, H),
           NEW k \in Nat, Agree(H, L, k)
    PROVE  Agree(H, K, k)
  <1>1. CASE K = L
    BY <1>1
  <1>2. CASE K # L
    <2>1. Agree(K, H, Len(K)) /\ k <= Len(K)
      BY <1>2, AgreeSym DEF Reconciled
    <2>. QED BY <2>1, LogLength DEF Agree
  <1>. QED BY <1>1, <1>2

\* A follower that stores what the leader of t sent and, perhaps, acknowledges it.
LEMMA HeldReconciles ==
    ASSUME NEW G, NEW A, NEW T, NEW B, NEW U, GhostType(G, A, T), GhostType(G, B, U),
           Grows(G, A, T, G, B, U), GhostSound(G, A, T), NEW i \in Node, NEW L \in Log,
           NEW K \in Log, NEW t \in Nat, T[i] <= t, LogHeld(G, A, T, i, L, T[i]),
           Reconciled(L, K, G[t]),
           \A s \in Nat : s # t => B[i][s] = A[i][s],
           B[i][t] = A[i][t] \/ Agree(G[t], K, B[i][t])
    PROVE  LogHeld(G, B, U, i, K, t)
  <1>1. G[t] \in Log /\ Len(L) \in Nat /\ Len(K) \in Nat /\ T[i] \in Nat
        /\ \A s \in Nat : A[i][s] \in Nat /\ B[i][s] \in Nat
    BY LogLength DEF GhostType
  <1>2. Agree(G[t], L, A[i][t])
    <2>1. CASE T[i] = t
      BY <2>1 DEF LogHeld
    <2>2. CASE T[i] # t
      <3>1. A[i][t] = 0
        BY <1>1, <2>2 DEF GhostSound
      <3>. QED BY <1>1, <3>1, LogLength DEF Agree
    <2>. QED BY <2>1, <2>2
  <1>3. Agree(G[t], K, B[i][t])
    BY <1>1, <1>2, ReconciledKeeps
  <1>4. Backed(G, K)
    <2>1. CASE K = L
      BY <2>1 DEF LogHeld
    <2>2. CASE K # L
      <3>. SUFFICES ASSUME NEW k \in 1..Len(K) PROVE Agree(K, G[K[k].term], k)
        BY DEF Backed
      <3>1. Agree(K, G[t], Len(K))
        BY <2>2 DEF Reconciled
      <3>2. k \in 1..Len(G[t]) /\ G[t][k] = K[k] /\ Agree(K, G[t], k)
        BY <1>1, <3>1, LogLength DEF Agree
      <3>3. Agree(G[t], G[K[k].term], k)
        BY <3>2 DEF GhostSound, Backed
      <3>4. K[k].term \in Nat
        BY LogLength
      <3>5. G[K[k].term] \in Log
        BY <3>4 DEF GhostType
      <3>. QED BY <1>1, <3>2, <3>3, <3>5, AgreeTrans, SMTT(30)
    <2>. QED BY <2>1, <2>2
  <1>5. \A k \in 1..Len(K) : K[k].term <= t
    <2>1. CASE K = L
      BY <1>1, <2>1, LogLength DEF LogHeld
    <2>2. CASE K # L
      <3>1. Agree(K, G[t], Len(K))
        BY <2>2 DEF Reconciled
      <3>2. \A k \in 1..Len(K) : k \in 1..Len(G[t]) /\ G[t][k] = K[k]
        BY <1>1, <3>1, LogLength DEF Agree
      <3>. QED BY <3>2 DEF GhostSound
    <2>. QED BY <2>1, <2>2
  <1>6. ASSUME NEW u \in Nat PROVE Covers(G, B, U, i, K, u)
    <2>. SUFFICES ASSUME NEW s \in Nat, s < u, NEW k \in 1..B[i][s], Own(G, s, k)
                  PROVE  Agree(G[s], K, k) \/ Blocked(B, U, s, k)
      BY DEF Covers
    <2>0. k \in Nat /\ G[s] \in Log
      BY <1>1 DEF GhostType
    <2>1. CASE s = t
      BY <1>1, <1>3, <2>1 DEF Agree
    <2>2. CASE s # t
      <3>1. k \in 1..A[i][s]
        BY <2>2
      <3>2. Agree(G[s], L, k) \/ Blocked(A, T, s, k)
        BY <3>1 DEF LogHeld, Covers
      <3>3. CASE Blocked(A, T, s, k)
        BY <2>0, <3>3, FateGrows
      <3>4. CASE Agree(G[s], L, k) /\ K = L
        BY <3>4
      <3>5. CASE Agree(G[s], L, k) /\ K # L
        <4>1. s < t
          <5>1. A[i][s] > 0
            BY <1>1, <3>1
          <5>2. T[i] >= s
            BY <5>1 DEF GhostSound
          <5>. QED BY <1>1, <2>2, <5>2
        <4>2. G[t] # <<>>
          BY <3>5 DEF Reconciled
        <4>3. Agree(G[s], G[t], k) \/ Blocked(A, T, s, k)
          BY <2>0, <4>1, <4>2 DEF GhostSound
        <4>4. CASE Agree(G[s], G[t], k)
          <5>1. Agree(G[t], G[s], k)
            BY <4>4, AgreeSym
          <5>2. Agree(G[t], L, k)
            BY <1>1, <2>0, <3>5, <5>1, AgreeTrans
          <5>3. Agree(G[t], K, k)
            BY <1>1, <2>0, <5>2, ReconciledKeeps
          <5>. QED BY <1>1, <2>0, <4>4, <5>3, AgreeTrans
        <4>. QED BY <2>0, <4>3, <4>4, FateGrows
      <3>. QED BY <3>2, <3>3, <3>4, <3>5
    <2>. QED BY <2>1, <2>2
  <1>. QED BY <1>3, <1>4, <1>5, <1>6 DEF LogHeld

-----------------------------------------------------------------------------
(* What is chosen.                                                           *)

\* The logs of two leaders agree on what was chosen in the earlier term.
LEMMA ChosenKept ==
    ASSUME NEW G, NEW A, NEW T, GhostType(G, A, T), GhostSound(G, A, T),
           NEW s \in Nat, NEW t \in Nat, NEW k \in Nat, s <= t, G[t] # <<>>,
           Own(G, s, k), Chosen(A, s, k)
    PROVE  Agree(G[s], G[t], k)
  <1>1. CASE s = t
    BY <1>1, AgreeRefl, LogLength DEF Own, GhostType
  <1>2. CASE s < t
    BY <1>2, ChosenNotBlocked DEF GhostSound
  <1>. QED BY <1>1, <1>2

\* Storing what the leader of t sent takes nothing away that was chosen.
LEMMA SettledReconciles ==
    ASSUME NEW G, NEW A, NEW T, GhostType(G, A, T), GhostSound(G, A, T), NEW L \in Log,
           NEW K \in Log, NEW c \in Nat, NEW u \in Nat, NEW t \in Nat, u <= t,
           Settled(G, A, L, c, u), Reconciled(L, K, G[t])
    PROVE  Settled(G, A, K, c, t)
  <1>1. CASE c = 0
    BY <1>1 DEF Settled
  <1>2. CASE c # 0
    <2>1. PICK s \in Nat, k \in Nat : /\ s <= u /\ c <= k
                                      /\ Own(G, s, k) /\ Chosen(A, s, k) /\ Agree(L, G[s], c)
      BY <1>2 DEF Settled
    <2>2. s <= t /\ G[s] \in Log /\ G[t] \in Log
      BY <2>1 DEF GhostType
    <2>3. CASE K = L
      BY <2>1, <2>2, <2>3 DEF Settled
    <2>4. CASE K # L
      <3>1. G[t] # <<>>
        BY <2>4 DEF Reconciled
      <3>2. Agree(G[t], G[s], k)
        BY <2>1, <2>2, <3>1, ChosenKept, AgreeSym
      <3>3. Agree(G[s], L, c)
        BY <2>1, AgreeSym
      <3>4. Agree(G[t], L, c)
        BY <2>1, <2>2, <3>2, <3>3, AgreeTrans
      <3>5. Agree(K, G[t], c)
        BY <2>2, <3>4, ReconciledKeeps, AgreeSym
      <3>6. Agree(K, G[s], c)
        BY <2>1, <2>2, <3>2, <3>5, AgreeTrans
      <3>. QED BY <2>1, <2>2, <3>6 DEF Settled
    <2>. QED BY <2>3, <2>4
  <1>. QED BY <1>1, <1>2

\* Two logs agree on what both have settled.
LEMMA SettledAgree ==
    ASSUME NEW G, NEW A, NEW T, GhostType(G, A, T), GhostSound(G, A, T), NEW K \in Log,
           NEW L \in Log, NEW c \in Nat, NEW d \in Nat, NEW u \in Nat, NEW v \in Nat,
           Settled(G, A, K, c, u), Settled(G, A, L, d, v), c <= d
    PROVE  Agree(K, L, c)
  <1>0. Len(K) \in Nat /\ Len(L) \in Nat
    BY LogLength
  <1>1. CASE c = 0
    BY <1>0, <1>1 DEF Agree
  <1>2. CASE c # 0
    <2>1. PICK s \in Nat, k \in Nat : /\ s <= u /\ c <= k
                                      /\ Own(G, s, k) /\ Chosen(A, s, k) /\ Agree(K, G[s], c)
      BY <1>2 DEF Settled
    <2>2. PICK t \in Nat, l \in Nat : /\ t <= v /\ d <= l
                                      /\ Own(G, t, l) /\ Chosen(A, t, l) /\ Agree(L, G[t], d)
      BY <1>2 DEF Settled
    <2>3. G[s] \in Log /\ G[t] \in Log
      BY DEF GhostType
    <2>4. G[s] # <<>> /\ G[t] # <<>>
      <3>1. Len(G[s]) > 0 /\ Len(G[t]) > 0
        BY <2>1, <2>2, <2>3, LogLength DEF Own
      <3>. QED BY <2>3, <3>1, LogLength
    <2>5. Agree(G[s], G[t], k) \/ Agree(G[s], G[t], l)
      <3>1. CASE s <= t
        BY <2>1, <2>4, <3>1, ChosenKept
      <3>2. CASE t <= s
        BY <2>2, <2>4, <3>2, ChosenKept, AgreeSym
      <3>. QED BY <3>1, <3>2
    <2>6. Agree(K, G[t], c)
      <3>1. c <= k /\ c <= l
        BY <2>1, <2>2
      <3>. QED BY <2>1, <2>3, <2>5, <3>1, AgreeTrans
    <2>7. Agree(G[t], L, d)
      BY <2>2, AgreeSym
    <2>. QED BY <2>3, <2>6, <2>7, AgreeTrans
  <1>. QED BY <1>1, <1>2

\* The term of the last entry of L, as LastTerm computes it.
FinalTerm(L) == IF L = <<>> THEN 0 ELSE L[Len(L)].term

\* The election restriction: a log K that is as up to date as L has what L has
\* of the leader of t, unless it can never be chosen.
LEMMA UpToDateHolds ==
    ASSUME NEW G, NEW A, NEW T, GhostType(G, A, T), GhostSound(G, A, T), NEW K \in Log,
           NEW L \in Log, Backed(G, K), Backed(G, L), NEW t \in Nat, NEW k \in Nat,
           Own(G, t, k), Agree(G[t], L, k),
           \/ FinalTerm(K) > FinalTerm(L)
           \/ FinalTerm(K) = FinalTerm(L) /\ Len(K) >= Len(L)
    PROVE  Agree(G[t], K, k) \/ Blocked(A, T, t, k)
  <1>. DEFINE p == Len(L)
              q == Len(K)
              v == FinalTerm(K)
  <1>1. /\ G[t] \in Log /\ Len(G[t]) \in Nat /\ p \in Nat /\ q \in Nat
        /\ k >= 1 /\ k <= Len(G[t]) /\ G[t][k].term = t
        /\ k <= p /\ L[k] = G[t][k]
    BY LogLength DEF GhostType, Own, Agree
  <1>2. FinalTerm(L) = L[p].term /\ L[p].term \in Nat /\ t <= L[p].term
    <2>1. L # <<>> /\ p \in 1..p
      BY <1>1, LogLength
    <2>2. L[p].term \in Nat /\ Agree(L, G[L[p].term], p)
      BY <2>1, LogLength DEF Backed
    <2>3. G[L[p].term] \in Log
      BY <2>2 DEF GhostType
    <2>4. k \in 1..Len(G[L[p].term]) /\ G[L[p].term][k] = L[k]
      BY <1>1, <2>2, <2>3, LogLength DEF Agree
    <2>5. G[L[p].term][k].term <= L[p].term
      BY <2>2, <2>4 DEF GhostSound
    <2>. QED BY <1>1, <2>1, <2>2, <2>4, <2>5 DEF FinalTerm
  <1>3. t >= 1
    BY <1>1 DEF GhostSound
  <1>4. K # <<>> /\ v = K[q].term /\ v \in Nat /\ v >= t
    <2>1. K # <<>>
      BY <1>1, <1>2, <1>3 DEF FinalTerm
    <2>2. q \in 1..q
      BY <1>1, <2>1, LogLength
    <2>3. K[q].term \in Nat
      BY <2>2, LogLength
    <2>. QED BY <1>1, <1>2, <2>1, <2>3 DEF FinalTerm
  <1>5. q >= 1 /\ G[v] \in Log /\ Agree(K, G[v], q)
    <2>1. q >= 1 /\ q \in 1..Len(K)
      BY <1>1, <1>4, LogLength
    <2>2. Agree(K, G[K[q].term], q)
      BY <2>1 DEF Backed
    <2>3. G[v] \in Log
      BY <1>4 DEF GhostType
    <2>. QED BY <1>4, <2>1, <2>2, <2>3
  <1>6. CASE v = t
    <2>1. q >= k
      BY <1>1, <1>2, <1>4, <1>6
    <2>. QED BY <1>1, <1>5, <1>6, <2>1 DEF Agree
  <1>7. CASE v > t
    <2>1. q <= Len(G[v]) /\ Len(G[v]) \in Nat /\ G[v][q] = K[q] /\ G[v] # <<>>
      BY <1>1, <1>5, LogLength DEF Agree
    <2>2. Agree(G[t], G[v], k) \/ Blocked(A, T, t, k)
      BY <1>1, <1>4, <1>7, <2>1 DEF GhostSound
    <2>3. CASE Agree(G[t], G[v], k)
      <3>1. k <= q
        <4>. SUFFICES ASSUME q < k PROVE FALSE
          BY <1>1
        <4>1. k <= Len(G[v]) /\ G[v][k] = G[t][k]
          BY <1>1, <2>3 DEF Agree
        <4>2. G[v][q].term <= G[v][k].term
          BY <1>1, <1>4, <1>5, <2>1, <4>1, SMTT(30) DEF GhostSound
        <4>. QED BY <1>1, <1>4, <1>7, <2>1, <4>1, <4>2
      <3>2. Agree(G[v], K, q)
        BY <1>5, AgreeSym
      <3>. QED BY <1>1, <1>5, <2>3, <3>1, <3>2, AgreeTrans
    <2>. QED BY <2>2, <2>3
  <1>. QED BY <1>1, <1>4, <1>6, <1>7

-----------------------------------------------------------------------------
(* What the handlers do.                                                     *)

\* The values of the ghosts.
LEMMA GhostValues ==
    ASSUME NEW G, NEW A, NEW T, GhostType(G, A, T), NEW t \in Nat
    PROVE  /\ G[t] \in Log /\ Len(G[t]) \in Nat
           /\ \A j \in Node : A[j][t] \in Nat /\ T[j] \in Nat
  BY LogLength DEF GhostType

-----------------------------------------------------------------------------
(* Handlers that leave the log alone.                                        *)

\* r has n's log and commit index, and leads only if n led.
Still(n, r) ==
    /\ r.log = n.log /\ r.commitIndex = n.commitIndex
    /\ r.lastApplied = n.lastApplied /\ r.kv = n.kv
    /\ r.role = "Leader" =>
          /\ n.role = "Leader" /\ r.currentTerm = n.currentTerm
          /\ r.matchIndex = n.matchIndex
          /\ \A j \in Node : r.nextIndex[j] <= n.nextIndex[j] \/ r.nextIndex[j] <= 1

\* None of r's messages concerns a log.
NoAppends(r) == \A m \in r.out : ~IsAppend(m)

LEMMA StillRefl ==
    ASSUME NEW n \in NodeState
    PROVE  Still(n, n)
  <1>1. \A j \in Node : n.nextIndex[j] \in Nat
    BY DEF NodeState, Indexes
  <1>. QED BY <1>1 DEF Still

LEMMA StillTrans ==
    ASSUME NEW n \in NodeState, NEW m \in NodeState, NEW r \in NodeState,
           Still(n, m), Still(m, r)
    PROVE  Still(n, r)
  <1>1. \A j \in Node : n.nextIndex[j] \in Nat /\ m.nextIndex[j] \in Nat /\ r.nextIndex[j] \in Nat
    BY DEF NodeState, Indexes
  <1>. QED BY <1>1 DEF Still

\* The two writes of a term and a vote touch no log.
LEMMA SaveStill ==
    ASSUME NEW n \in NodeState, NEW t \in Nat, NEW v \in Vote
    PROVE  /\ Still(n, SaveTerm(n, t)) /\ SaveTerm(n, t).out = n.out
           /\ Still(n, SaveVotedFor(n, v)) /\ SaveVotedFor(n, v).out = n.out
  <1>1. \A j \in Node : n.nextIndex[j] \in Nat
    BY DEF NodeState, Indexes
  <1>2. Still(n, SaveTerm(n, t)) /\ SaveTerm(n, t).out = n.out
    BY <1>1 DEF Still, SaveTerm, NodeState
  <1>3. Still(n, SaveVotedFor(n, v)) /\ SaveVotedFor(n, v).out = n.out
    BY <1>1 DEF Still, SaveVotedFor, NodeState
  <1>. QED BY <1>2, <1>3

\* checkTerm.
LEMMA CheckTermStill ==
    ASSUME NEW n \in NodeState, NEW t \in Nat
    PROVE  Still(n, CheckTerm(n, t)) /\ CheckTerm(n, t).out = n.out
  <1>. DEFINE d == StepDown(n, t)
              s == SaveTerm(d, t)
              v == SaveVotedFor(s, None)
  <1>1. d \in NodeState
    BY CheckTermType
  <1>2. Still(n, d) /\ d.out = n.out
    BY DEF Still, StepDown, NodeState
  <1>. HIDE DEF d
  <1>3. s \in NodeState /\ Still(d, s) /\ s.out = d.out
    BY <1>1, SaveType, SaveStill, ConstantType
  <1>. HIDE DEF s
  <1>4. v \in NodeState /\ Still(s, v) /\ v.out = s.out
    BY <1>3, SaveType, SaveStill, ConstantType
  <1>. HIDE DEF v
  <1>5. Still(n, v) /\ v.out = n.out
    BY <1>1, <1>2, <1>3, <1>4, StillTrans
  <1>. QED BY <1>5, StillRefl, Zenon DEF CheckTerm, v, s, d

\* A voter's answer.
LEMMA VoteReplyStill ==
    ASSUME NEW n \in NodeState, NEW m \in VoteRequest, NEW granted
    PROVE  /\ Still(n, VoteReply(n, m, granted))
           /\ NoAppends(VoteReply(n, m, granted))
           /\ \A k \in VoteReply(n, m, granted).out : k.type = "RequestVoteResponse" /\ k.granted
                                                      => granted
  <1>. DEFINE reply == [type |-> IF m.type = "PreVote" THEN "PreVoteResponse"
                                 ELSE "RequestVoteResponse",
                        caller |-> m.caller, peer |-> m.peer, reqTerm |-> m.term,
                        round |-> m.round, term |-> n.currentTerm, granted |-> granted]
              out == IF ~m.open THEN {} ELSE {reply}
              r == [n EXCEPT !.out = out]
  <1>1. ~IsAppend(reply) /\ (reply.granted => granted)
    BY DEF IsAppend
  <1>2. VoteReply(n, m, granted) = r
    BY DEF VoteReply
  <1>3. \A k \in out : k = reply
    OBVIOUS
  <1>. HIDE DEF reply, out
  <1>4. r.out = out
    BY DEF NodeState
  <1>5. Still(n, r)
    <2>1. \A j \in Node : n.nextIndex[j] \in Nat
      BY DEF NodeState, Indexes
    <2>. QED BY <2>1 DEF Still, NodeState
  <1>. HIDE DEF r
  <1>. QED BY <1>1, <1>2, <1>3, <1>4, <1>5 DEF NoAppends

\* HandleRequestVote grants a vote only to a candidate whose log is up to date.
LEMMA HandleRequestVoteStill ==
    ASSUME NEW n \in NodeState, NEW m \in VoteRequest
    PROVE  LET r == HandleRequestVote(n, m)
           IN  /\ Still(n, r) /\ NoAppends(r)
               /\ \A k \in r.out : k.type = "RequestVoteResponse" /\ k.granted
                                   => CandidateLogUpToDate(n, m)
  <1>. DEFINE c == CheckTerm(n, m.term)
              voted == [c EXCEPT !.votedFor = m.caller]
              v == SaveVotedFor(voted, m.caller)
  <1>0. m.term \in Nat /\ m.caller \in Vote
    BY ConstantType DEF VoteRequest
  <1>1. c \in NodeState /\ Still(n, c)
    BY <1>0, CheckTermType, CheckTermStill
  <1>. HIDE DEF c
  <1>2. voted \in NodeState /\ Still(c, voted)
    <2>1. \A j \in Node : c.nextIndex[j] \in Nat
      BY <1>1 DEF NodeState, Indexes
    <2>. QED BY <1>0, <1>1, <2>1 DEF NodeState, Still
  <1>. HIDE DEF voted
  <1>3. v \in NodeState /\ Still(voted, v)
    BY <1>0, <1>2, SaveType, SaveStill
  <1>. HIDE DEF v
  <1>4. Still(n, v)
    BY <1>1, <1>2, <1>3, StillTrans
  <1>5. c.log = n.log
    BY <1>1 DEF Still
  <1>6. CandidateLogUpToDate(c, m) => CandidateLogUpToDate(n, m)
    BY <1>5 DEF CandidateLogUpToDate, LastTerm, LastIndex, TermAt
  <1>7. ASSUME NEW q \in NodeState, Still(n, q), NEW granted \in BOOLEAN
        PROVE  LET r == VoteReply(q, m, granted)
               IN  /\ Still(n, r) /\ NoAppends(r)
                   /\ \A k \in r.out : k.type = "RequestVoteResponse" /\ k.granted => granted
    <2>1. VoteReply(q, m, granted) \in NodeState
      BY VoteReplyType
    <2>2. Still(q, VoteReply(q, m, granted))
      BY VoteReplyStill
    <2>3. Still(n, VoteReply(q, m, granted))
      BY <1>7, <2>1, <2>2, StillTrans
    <2>. QED BY <2>3, VoteReplyStill
  <1>8. Still(n, n)
    BY StillRefl
  <1>. QED BY <1>1, <1>3, <1>4, <1>6, <1>7, <1>8, Zenon DEF HandleRequestVote, v, voted, c

LEMMA HandlePreVoteStill ==
    ASSUME NEW n \in NodeState, NEW m \in VoteRequest
    PROVE  Still(n, HandlePreVote(n, m)) /\ NoAppends(HandlePreVote(n, m))
  BY VoteReplyStill DEF HandlePreVote

-----------------------------------------------------------------------------
(* Committing.                                                               *)

\* The longest log a leader has committed, once r is the state of a node.
Longest(com, r) ==
    IF r.role = "Leader" /\ r.commitIndex > Len(com) THEN CommittedLog(r) ELSE com

\* What is settled in a log is in the log.
LEMMA SettledLength ==
    ASSUME NEW G, NEW A, NEW L \in Log, NEW c \in Nat, NEW u \in Nat, Settled(G, A, L, c, u)
    PROVE  c <= Len(L)
  BY LogLength DEF Settled, Agree

\* The committed part of a log is its prefix.
LEMMA CommittedLogPrefix ==
    ASSUME NEW r \in NodeState, r.commitIndex <= Len(r.log)
    PROVE  /\ CommittedLog(r) \in Log /\ Len(CommittedLog(r)) = r.commitIndex
           /\ Agree(r.log, CommittedLog(r), r.commitIndex)
  <1>. DEFINE c == r.commitIndex
              K == SubSeq(r.log, 1, c)
  <1>1. c \in Nat /\ Len(r.log) \in Nat /\ r.log \in Seq(Entry)
    BY LogLength DEF NodeState, Log
  <1>2. CommittedLog(r) = K
    <2>1. (IF c < Len(r.log) THEN c ELSE Len(r.log)) = c
      BY <1>1
    <2>. QED BY <2>1, Zenon DEF CommittedLog, LastIndex
  <1>3. K \in Seq(Entry) /\ Len(K) = c /\ \A p \in 1..c : K[p] = r.log[p]
    BY <1>1
  <1>. HIDE DEF K
  <1>. QED BY <1>1, <1>2, <1>3 DEF Agree, Log

\* A log that agrees with a settled one is settled.
LEMMA SettledCopies ==
    ASSUME NEW G \in [Nat -> Log], NEW A, NEW L \in Log, NEW K \in Log, NEW c \in Nat,
           NEW u \in Nat, Settled(G, A, L, c, u), Agree(L, K, c)
    PROVE  Settled(G, A, K, c, u)
  <1>1. CASE c = 0
    BY <1>1 DEF Settled
  <1>2. CASE c # 0
    <2>1. PICK s \in Nat, k \in Nat : /\ s <= u /\ c <= k
                                      /\ Own(G, s, k) /\ Chosen(A, s, k) /\ Agree(L, G[s], c)
      BY <1>2 DEF Settled
    <2>2. G[s] \in Log
      OBVIOUS
    <2>3. Agree(K, G[s], c)
      BY <2>1, <2>2, AgreeSym, AgreeTrans
    <2>. QED BY <2>1, <2>3 DEF Settled
  <1>. QED BY <1>1, <1>2

\* Witness: the committed log only ever gets longer, and stays settled.
LEMMA LongestKeeps ==
    ASSUME NEW G, NEW A, NEW T, GhostType(G, A, T), GhostSound(G, A, T), NEW com \in Log,
           NEW v \in Nat, Settled(G, A, com, Len(com), v),
           NEW r \in NodeState, Settled(G, A, r.log, r.commitIndex, r.currentTerm)
    PROVE  /\ Longest(com, r) \in Log
           /\ Agree(com, Longest(com, r), Len(com))
           /\ \E u \in Nat : Settled(G, A, Longest(com, r), Len(Longest(com, r)), u)
           /\ r.role = "Leader" => r.commitIndex <= Len(Longest(com, r))
  <1>1. r.log \in Log /\ r.commitIndex \in Nat /\ r.currentTerm \in Nat /\ Len(com) \in Nat
        /\ G \in [Nat -> Log]
    BY LogLength DEF NodeState, GhostType
  <1>2. CASE ~(r.role = "Leader" /\ r.commitIndex > Len(com))
    <2>1. Longest(com, r) = com
      BY <1>2 DEF Longest
    <2>. QED BY <1>1, <1>2, <2>1, AgreeRefl, SMTT(30)
  <1>3. CASE r.role = "Leader" /\ r.commitIndex > Len(com)
    <2>. DEFINE K == CommittedLog(r)
    <2>1. Longest(com, r) = K
      BY <1>3 DEF Longest
    <2>2. K \in Log /\ Len(K) = r.commitIndex /\ Agree(r.log, K, r.commitIndex)
      BY <1>1, SettledLength, CommittedLogPrefix
    <2>. HIDE DEF K
    <2>3. Settled(G, A, K, Len(K), r.currentTerm)
      BY <1>1, <2>2, SettledCopies
    <2>4. Agree(com, K, Len(com))
      BY <1>1, <1>3, <2>2, <2>3, SettledAgree
    <2>. QED BY <1>1, <2>1, <2>2, <2>3, <2>4
  <1>. QED BY <1>2, <1>3

\* Commands that were applied stay the ones the committed log has there.
LEMMA AppliedPrefixKept ==
    ASSUME NEW com \in Log, NEW com2 \in Log, Agree(com, com2, Len(com)),
           NEW k \in Nat, k <= Len(com)
    PROVE  AppliedPrefix(com, k) = AppliedPrefix(com2, k)
  <1>1. \A p \in 1..k : p <= Len(com) /\ p <= Len(com2) /\ com[p] = com2[p]
    BY LogLength DEF Agree
  <1>. QED BY <1>1 DEF AppliedPrefix

\* A node's commit index and store stay sound while the committed log grows.
LEMMA CommitGrows ==
    ASSUME NEW G, NEW A, NEW T, NEW H, NEW B, NEW U, GhostType(G, A, T), GhostType(H, B, U),
           Grows(G, A, T, H, B, U), NEW com \in Log, NEW com2 \in Log,
           Agree(com, com2, Len(com)), NEW n \in NodeState, CommitSound(G, A, com, n)
    PROVE  CommitSound(H, B, com2, n)
  <1>1. n.log \in Log /\ n.commitIndex \in Nat /\ n.currentTerm \in Nat /\ n.lastApplied \in Nat
        /\ Len(com) \in Nat /\ Len(com2) \in Nat
    BY LogLength DEF NodeState
  <1>2. n.commitIndex <= Len(com2)
    BY <1>1 DEF Agree, CommitSound
  <1>3. Settled(H, B, n.log, n.commitIndex, n.currentTerm)
    BY <1>1, SettledGrows DEF CommitSound
  <1>4. n.kv = AppliedPrefix(com2, n.lastApplied)
    BY <1>1, AppliedPrefixKept DEF CommitSound
  <1>. QED BY <1>2, <1>3, <1>4 DEF CommitSound

\* What applyCommittedEntriesLocked leaves.
LEMMA ApplyCommittedFields ==
    ASSUME NEW n \in NodeState, NEW c \in Nat
    PROVE  LET r == ApplyCommitted([n EXCEPT !.commitIndex = c])
           IN  /\ r.role = n.role /\ r.currentTerm = n.currentTerm /\ r.log = n.log
               /\ r.matchIndex = n.matchIndex /\ r.nextIndex = n.nextIndex /\ r.out = n.out
               /\ r.commitIndex = c
               /\ r.lastApplied = IF n.lastApplied < c THEN c ELSE n.lastApplied
               /\ r.kv = n.kv \cup {<<k, n.log[k].command>> :
                                       k \in {p \in (n.lastApplied + 1)..c :
                                                 p <= Len(n.log) /\ n.log[p].command # NoOp}}
  BY DEF ApplyCommitted, NodeState

\* A node that commits up to c, which is settled in its log, has applied what
\* the committed log has up to there.
LEMMA CommitKeeps ==
    ASSUME NEW G, NEW A, NEW T, GhostType(G, A, T), GhostSound(G, A, T), NEW com \in Log,
           NEW v \in Nat, Settled(G, A, com, Len(com), v),
           NEW n \in NodeState, CommitSound(G, A, com, n), NEW c \in Nat, n.commitIndex <= c,
           Settled(G, A, n.log, c, n.currentTerm), n.role = "Leader" \/ c <= Len(com)
    PROVE  LET r == ApplyCommitted([n EXCEPT !.commitIndex = c])
           IN  CommitSound(G, A, Longest(com, r), r)
  <1>. DEFINE r == ApplyCommitted([n EXCEPT !.commitIndex = c])
              com2 == Longest(com, r)
              add == {p \in (n.lastApplied + 1)..c : p <= Len(n.log) /\ n.log[p].command # NoOp}
              old == {p \in 1..n.lastApplied : p <= Len(com2) /\ com2[p].command # NoOp}
              all == {p \in 1..c : p <= Len(com2) /\ com2[p].command # NoOp}
  <1>1. /\ r.role = n.role /\ r.currentTerm = n.currentTerm /\ r.log = n.log
        /\ r.commitIndex = c
        /\ r.lastApplied = IF n.lastApplied < c THEN c ELSE n.lastApplied
        /\ r.kv = n.kv \cup {<<k, n.log[k].command>> : k \in add}
    BY ApplyCommittedFields
  <1>2. r \in NodeState
    <2>1. [n EXCEPT !.commitIndex = c] \in NodeState
      BY DEF NodeState
    <2>. QED BY <2>1, ApplyCommittedType
  <1>. HIDE DEF r
  <1>3. /\ n.log \in Log /\ n.currentTerm \in Nat /\ n.lastApplied \in Nat /\ n.lastApplied <= c
        /\ n.lastApplied <= Len(com) /\ Len(com) \in Nat
    BY LogLength DEF NodeState, CommitSound
  <1>4. /\ com2 \in Log /\ Agree(com, com2, Len(com))
        /\ \E u \in Nat : Settled(G, A, com2, Len(com2), u)
        /\ r.role = "Leader" => c <= Len(com2)
    BY <1>1, <1>2, LongestKeeps
  <1>. HIDE DEF com2
  <1>5. c <= Len(com2) /\ Len(com2) \in Nat
    BY <1>1, <1>3, <1>4, LogLength DEF Agree
  <1>6. Agree(n.log, com2, c)
    BY <1>3, <1>4, <1>5, SettledAgree
  <1>7. n.kv = AppliedPrefix(com2, n.lastApplied)
    BY <1>3, <1>4, AppliedPrefixKept DEF CommitSound
  <1>8. all = old \cup add /\ \A k \in add : n.log[k] = com2[k]
    BY <1>3, <1>5, <1>6, LogLength, SMTT(30) DEF Agree
  <1>9. r.lastApplied = c
    BY <1>1, <1>3
  <1>10. r.kv = AppliedPrefix(com2, c)
    <2>1. AppliedPrefix(com2, c) = {<<k, com2[k].command>> : k \in all}
      BY DEF AppliedPrefix
    <2>2. n.kv = {<<k, com2[k].command>> : k \in old}
      BY <1>7 DEF AppliedPrefix
    <2>. HIDE DEF all, old, add
    <2>. QED BY <1>1, <1>8, <2>1, <2>2
  <1>. QED BY <1>1, <1>5, <1>9, <1>10, Zenon DEF CommitSound, com2, r

\* The leader alone can choose in a cluster of one, and with the peers whose
\* matchIndex says so in any other.
LEMMA ReplicatedChosen ==
    ASSUME NEW G, NEW A, NEW T, GhostType(G, A, T), NEW i \in Node, NEW n \in NodeState,
           LeaderSound(G, A, i, n), n.role = "Leader", NEW k \in 1..Len(n.log),
           Replicated(n, k)
    PROVE  Chosen(A, n.currentTerm, k)
  <1>. DEFINE S == {j \in Node : n.matchIndex[j] >= k}
              t == n.currentTerm
  <1>1. /\ t \in Nat /\ n.matchIndex[i] = 0 /\ A[i][t] = Len(n.log)
        /\ Len(n.log) \in Nat
        /\ \A j \in Node : n.matchIndex[j] <= A[j][t] /\ n.matchIndex[j] \in Nat /\ A[j][t] \in Nat
    BY LogLength, ZenonT(60) DEF LeaderSound, NodeState, GhostType, Indexes
  <1>2. i \notin S /\ S \in SUBSET Node
    BY <1>1
  <1>3. IsFiniteSet(S) /\ Cardinality(S) \in Nat
    BY <1>2, NodeCardinality
  <1>4. Cardinality(S \cup {i}) = Cardinality(S) + 1
    BY <1>2, <1>3, FS_AddElement
  <1>5. S \cup {i} \in Quorum
    BY <1>2, <1>3, <1>4, MajorityType DEF Quorum, Replicated
  <1>6. \A j \in S \cup {i} : A[j][t] >= k
    BY <1>1
  <1>. QED BY <1>5, <1>6 DEF Chosen

\* checkAndUpdateCommitIndexLocked commits only what a majority acknowledged
\* to a leader that proposed it itself.
LEMMA CheckAndUpdateCommitIndexSound ==
    ASSUME NEW G, NEW A, NEW T, GhostType(G, A, T), GhostSound(G, A, T), NEW com \in Log,
           NEW v \in Nat, Settled(G, A, com, Len(com), v), NEW i \in Node,
           NEW n \in NodeState, NodeSound(G, A, T, com, i, n)
    PROVE  LET r == CheckAndUpdateCommitIndex(n)
           IN  /\ NodeSound(G, A, T, Longest(com, r), i, r)
               /\ r.role = n.role /\ r.currentTerm = n.currentTerm /\ r.log = n.log
               /\ r.out = n.out
  <1>. DEFINE ready == {k \in (n.commitIndex + 1)..LastIndex(n) :
                            TermAt(n, k) = n.currentTerm /\ Replicated(n, k)}
              c == IF ready = {} THEN n.commitIndex ELSE Max(ready)
              r == ApplyCommitted([n EXCEPT !.commitIndex = c])
  <1>1. n.commitIndex \in Nat /\ Len(n.log) \in Nat /\ n.log \in Log /\ n.currentTerm \in Nat
    BY LogLength DEF NodeState
  <1>2. CASE n.role # "Leader"
    <2>1. CheckAndUpdateCommitIndex(n) = n
      BY <1>2 DEF CheckAndUpdateCommitIndex
    <2>2. Longest(com, n) = com
      BY <1>2 DEF Longest
    <2>. QED BY <2>1, <2>2
  <1>3. CASE n.role = "Leader"
    <2>1. CheckAndUpdateCommitIndex(n) = r
      BY <1>3, Zenon DEF CheckAndUpdateCommitIndex
    <2>2. /\ c \in Nat /\ n.commitIndex <= c
          /\ Settled(G, A, n.log, c, n.currentTerm)
      <3>1. CASE ready = {}
        BY <1>1, <3>1 DEF NodeSound, CommitSound
      <3>2. CASE ready # {}
        <4>1. ready \in SUBSET (0..Len(n.log))
          BY <1>1 DEF LastIndex
        <4>2. c \in ready
          BY <1>1, <3>2, <4>1, MaxIsGreatest
        <4>. HIDE DEF c
        <4>3. c \in 1..Len(n.log) /\ n.commitIndex <= c /\ n.log[c].term = n.currentTerm
              /\ Replicated(n, c)
          BY <1>1, <4>2 DEF LastIndex, TermAt
        <4>4. LeaderSound(G, A, i, n) /\ n.log = G[n.currentTerm]
          BY <1>3 DEF NodeSound, LeaderSound
        <4>5. Chosen(A, n.currentTerm, c)
          BY <1>3, <4>3, <4>4, ReplicatedChosen
        <4>6. Own(G, n.currentTerm, c)
          BY <4>3, <4>4 DEF Own
        <4>7. Agree(n.log, G[n.currentTerm], c)
          BY <1>1, <4>3, <4>4, AgreeRefl
        <4>. QED BY <1>1, <4>3, <4>5, <4>6, <4>7 DEF Settled
      <3>. QED BY <3>1, <3>2
    <2>. HIDE DEF c
    <2>3. /\ r.role = n.role /\ r.currentTerm = n.currentTerm /\ r.log = n.log
          /\ r.matchIndex = n.matchIndex /\ r.nextIndex = n.nextIndex /\ r.out = n.out
      BY <2>2, ApplyCommittedFields
    <2>4. CommitSound(G, A, Longest(com, r), r)
      BY <1>3, <2>2, CommitKeeps DEF NodeSound
    <2>. HIDE DEF r
    <2>5. LogHeld(G, A, T, i, r.log, r.currentTerm)
      BY <2>3 DEF NodeSound
    <2>6. LeaderSound(G, A, i, r)
      BY <2>3 DEF NodeSound, LeaderSound
    <2>. QED BY <2>1, <2>3, <2>4, <2>5, <2>6 DEF NodeSound
  <1>. QED BY <1>2, <1>3

-----------------------------------------------------------------------------
(* Sending.                                                                  *)

\* Whatever r sends of a log is sound, only a leader places calls, and nobody
\* answers itself.
SendsSound(G, A, com, i, r) ==
    \A m \in r.out :
        /\ AppendSound(G, A, com, m)
        /\ m.type = "AppendEntries" => /\ m.caller = i /\ m.peer # i /\ m.term = r.currentTerm
                                       /\ r.role = "Leader"
        /\ m.type = "AppendEntriesResponse" => m.caller # m.peer

\* Messages that concern no log are sound.
LEMMA NoAppendsSound ==
    ASSUME NEW G, NEW A, NEW com, NEW i, NEW r, NoAppends(r)
    PROVE  SendsSound(G, A, com, i, r)
  BY DEF SendsSound, NoAppends, AppendSound, IsAppend

\* The request for one peer carries a piece of the leader's log.
LEMMA AppendRequestSound ==
    ASSUME NEW G, NEW A, NEW T, NEW com, NEW i \in Node, NEW n \in NodeState,
           NodeSound(G, A, T, com, i, n), n.role = "Leader", NEW j \in Node,
           n.nextIndex[j] > 0
    PROVE  AppendSound(G, A, com, AppendRequestTo(i, n, j))
  <1>. DEFINE next == n.nextIndex[j]
              last == next + MaxEntriesPerAppend - 1
              end == IF last < LastIndex(n) THEN last ELSE LastIndex(n)
              piece == SubSeq(n.log, next, end)
              m == AppendRequestTo(i, n, j)
  <1>1. /\ next \in Nat /\ next >= 1 /\ n.log \in Seq(Entry) /\ n.currentTerm \in Nat
        /\ Len(n.log) \in Nat /\ LastIndex(n) = Len(n.log)
    BY DEF NodeState, Indexes, Log, LastIndex
  <1>2. n.log = G[n.currentTerm] /\ next <= Len(n.log) + 1
    BY DEF NodeSound, LeaderSound
  <1>3. end \in 0..Len(n.log) /\ next - 1 <= end
    BY <1>1, <1>2, BoundAssumption
  <1>. HIDE DEF end
  <1>4. Len(piece) = end - next + 1 /\ \A k \in 1..Len(piece) : piece[k] = n.log[next - 1 + k]
    <2>1. \A k \in next..end : n.log[k] \in Entry
      BY <1>1, <1>3, ElementOfSeq
    <2>2. /\ Len(piece) = IF next <= end THEN end - next + 1 ELSE 0
          /\ \A k \in 1..(end - next + 1) : piece[k] = n.log[next + k - 1]
      <3>1. next \in Int /\ end \in Int
        BY <1>1, <1>3
      <3>. QED BY <2>1, <3>1, SubSeqProperties
    <2>3. Len(piece) = end - next + 1
      BY <1>1, <1>3, <2>2
    <2>4. \A k \in 1..Len(piece) : piece[k] = n.log[next + k - 1] /\ next + k - 1 = next - 1 + k
      BY <1>1, <1>3, <2>2, <2>3
    <2>. QED BY <2>3, <2>4
  <1>5. /\ m.type = "AppendEntries" /\ m.term = n.currentTerm
        /\ m.prevLogIndex = next - 1 /\ m.prevLogTerm = TermAt(n, next - 1)
        /\ m.entries = piece /\ m.leaderCommit = n.commitIndex
    BY DEF AppendRequestTo, end
  <1>. HIDE DEF piece, m
  <1>6. m.prevLogIndex + Len(m.entries) <= Len(n.log)
    BY <1>1, <1>3, <1>4, <1>5
  <1>7. m.prevLogIndex > 0 => m.prevLogTerm = n.log[m.prevLogIndex].term
    BY <1>1, <1>2, <1>5 DEF TermAt
  <1>8. \A k \in 1..Len(m.entries) : m.entries[k] = n.log[m.prevLogIndex + k]
    BY <1>4, <1>5
  <1>9. m.leaderCommit <= Len(com) /\ Settled(G, A, n.log, m.leaderCommit, m.term)
    BY <1>5 DEF NodeSound, CommitSound
  <1>10. AppendSound(G, A, com, m)
    BY <1>2, <1>5, <1>6, <1>7, <1>8, <1>9 DEF AppendSound
  <1>. QED BY <1>10 DEF m

\* sendAppendEntriesToPeerLocked changes nothing but nextIndex.
LEMMA SendAppendEntriesSound ==
    ASSUME NEW G, NEW A, NEW T, NEW com, NEW i \in Node, NEW n \in NodeState,
           NodeSound(G, A, T, com, i, n), SendsSound(G, A, com, i, n), NEW js \in SUBSET Peers(i)
    PROVE  LET r == SendAppendEntries(i, n, js)
           IN  /\ NodeSound(G, A, T, com, i, r) /\ SendsSound(G, A, com, i, r)
               /\ r.role = n.role /\ r.currentTerm = n.currentTerm /\ r.log = n.log
               /\ r.commitIndex = n.commitIndex
  <1>. DEFINE raised == [j \in Node |-> IF j \in js /\ n.nextIndex[j] = 0 THEN 1
                                        ELSE n.nextIndex[j]]
              m == [n EXCEPT !.nextIndex = raised]
              calls == {AppendRequestTo(i, m, j) : j \in js}
              r == [m EXCEPT !.out = n.out \cup calls]
  <1>0. js \subseteq Node /\ i \notin js
    BY DEF Peers
  <1>1. CASE n.role # "Leader"
    BY <1>1 DEF SendAppendEntries
  <1>2. CASE n.role = "Leader"
    <2>1. \A j \in Node : n.nextIndex[j] \in Nat
      BY DEF NodeState, Indexes
    <2>2. raised \in Indexes /\ \A j \in js : raised[j] > 0
      BY <1>0, <2>1 DEF Indexes
    <2>3. n.log \in Log /\ Len(n.log) \in Nat /\ n.log # <<>>
      BY <1>2, LogLength DEF NodeSound, LeaderSound, NodeState
    <2>4. \A j \in Node : raised[j] <= Len(n.log) + 1
      BY <1>2, <2>1, <2>3 DEF NodeSound, LeaderSound
    <2>5. SendAppendEntries(i, n, js) = r
      <3>1. m.out = n.out
        BY DEF NodeState
      <3>. QED BY <1>2, <3>1 DEF SendAppendEntries
    <2>. HIDE DEF raised
    <2>6. m \in NodeState
      BY <2>2 DEF NodeState
    <2>7. /\ m.role = n.role /\ m.currentTerm = n.currentTerm /\ m.log = n.log
          /\ m.commitIndex = n.commitIndex /\ m.lastApplied = n.lastApplied /\ m.kv = n.kv
          /\ m.matchIndex = n.matchIndex /\ m.nextIndex = raised
      BY DEF NodeState
    <2>. HIDE DEF m
    <2>8. NodeSound(G, A, T, com, i, m)
      BY <2>4, <2>7 DEF NodeSound, LeaderSound, CommitSound
    <2>9. \A j \in js : /\ AppendSound(G, A, com, AppendRequestTo(i, m, j))
                        /\ AppendRequestTo(i, m, j).caller = i
                        /\ AppendRequestTo(i, m, j).peer = j
                        /\ AppendRequestTo(i, m, j).term = m.currentTerm
                        /\ AppendRequestTo(i, m, j).type = "AppendEntries"
      <3>1. \A j \in js : AppendSound(G, A, com, AppendRequestTo(i, m, j))
        BY <1>0, <1>2, <2>2, <2>6, <2>7, <2>8, AppendRequestSound
      <3>. QED BY <3>1 DEF AppendRequestTo
    <2>10. /\ r.role = m.role /\ r.currentTerm = m.currentTerm /\ r.log = m.log
           /\ r.commitIndex = m.commitIndex /\ r.lastApplied = m.lastApplied /\ r.kv = m.kv
           /\ r.matchIndex = m.matchIndex /\ r.nextIndex = m.nextIndex
           /\ r.out = n.out \cup calls
      BY <2>6 DEF NodeState
    <2>11. \A k \in calls : /\ AppendSound(G, A, com, k)
                            /\ k.caller = i /\ k.peer # i /\ k.term = m.currentTerm
                            /\ k.type = "AppendEntries"
      BY <1>0, <2>9
    <2>. HIDE DEF calls, r
    <2>a. SendsSound(G, A, com, i, r)
      BY <1>2, <2>7, <2>10, <2>11 DEF SendsSound
    <2>13. NodeSound(G, A, T, com, i, r)
      BY <2>8, <2>10 DEF NodeSound, LeaderSound, CommitSound
    <2>. QED BY <2>5, <2>7, <2>10, <2>a, <2>13
  <1>. QED BY <1>1, <1>2

-----------------------------------------------------------------------------
(* A leader appends.                                                         *)

\* One transaction puts one entry at the end of the log.
LEMMA AppendOne ==
    ASSUME NEW n \in NodeState, NEW e \in Entry
    PROVE  LET r == AppendEntries(n, <<e>>)
           IN  /\ r \in NodeState
               /\ CanWrite(n) => Extends(n.log, r.log, e.term)
               /\ ~CanWrite(n) => r = n
               /\ r.role = n.role /\ r.currentTerm = n.currentTerm
               /\ r.matchIndex = n.matchIndex /\ r.nextIndex = n.nextIndex /\ r.out = n.out
               /\ r.commitIndex = n.commitIndex /\ r.lastApplied = n.lastApplied
               /\ r.kv = n.kv
               /\ CanWrite(n) => r.log = n.log \o <<e>>
  <1>. DEFINE r == AppendEntries(n, <<e>>)
              K == n.log \o <<e>>
  <1>1. n.log \in Seq(Entry) /\ <<e>> \in Seq(Entry) /\ <<e>> \in Log
    BY DEF NodeState, Log
  <1>2. r \in NodeState
    BY <1>1, AppendEntriesType
  <1>3. Extends(n.log, K, e.term)
    BY <1>1 DEF Extends
  <1>4. CanWrite(n) => r.log = K
    BY DEF AppendEntries, NodeState
  <1>5. /\ r.role = n.role /\ r.currentTerm = n.currentTerm
        /\ r.matchIndex = n.matchIndex /\ r.nextIndex = n.nextIndex /\ r.out = n.out
        /\ r.commitIndex = n.commitIndex /\ r.lastApplied = n.lastApplied
        /\ r.kv = n.kv
        /\ ~CanWrite(n) => r = n
    BY DEF AppendEntries, NodeState
  <1>. HIDE DEF r, K
  <1>6. CanWrite(n) => Extends(n.log, r.log, e.term)
    BY <1>3, <1>4
  <1>. QED BY <1>2, <1>4, <1>5, <1>6 DEF r, K

\* The ghosts after the leader of t, node i, appended and has log K.
LeaderGrows(G, A, T, H, B, U, i, t, K) ==
    /\ GhostType(G, A, T) /\ GhostType(H, B, U) /\ Grows(G, A, T, H, B, U)
    /\ GhostSound(G, A, T) /\ GhostSound(H, B, U)
    /\ H[t] = K /\ B[i][t] = Len(K) /\ \A s \in Nat : s # t => B[i][s] = A[i][s]

LEMMA AppendsSound ==
    ASSUME NEW G, NEW A, NEW T, NEW H, NEW B, NEW U, NEW com \in Log, NEW i \in Node,
           NEW f \in NodeState, f.role = "Leader", CanWrite(f), NEW t \in Nat,
           f.currentTerm = t, T[i] <= t, LogHeld(G, A, T, i, f.log, T[i]),
           CommitSound(G, A, com, f), f.matchIndex[i] = 0,
           \A j \in Node : f.matchIndex[j] <= A[j][t] /\ f.nextIndex[j] <= Len(f.log) + 1,
           NEW e \in Entry, e.term = t,
           LeaderGrows(G, A, T, H, B, U, i, t, AppendEntries(f, <<e>>).log)
    PROVE  NodeSound(H, B, U, com, i, AppendEntries(f, <<e>>))
  <1>. DEFINE g == AppendEntries(f, <<e>>)
              K == g.log
  <1>1. /\ g \in NodeState /\ Extends(f.log, K, t)
        /\ g.role = "Leader" /\ g.currentTerm = t
        /\ g.matchIndex = f.matchIndex /\ g.nextIndex = f.nextIndex
        /\ g.commitIndex = f.commitIndex /\ g.lastApplied = f.lastApplied
        /\ g.kv = f.kv
    BY AppendOne
  <1>. HIDE DEF g
  <1>2. /\ GhostType(G, A, T) /\ GhostType(H, B, U) /\ Grows(G, A, T, H, B, U)
        /\ GhostSound(G, A, T) /\ GhostSound(H, B, U)
        /\ H[t] = K /\ B[i][t] = Len(K) /\ \A s \in Nat : s # t => B[i][s] = A[i][s]
    BY Zenon DEF LeaderGrows, g
  <1>3. /\ f.log \in Log /\ K \in Log /\ Len(f.log) \in Nat /\ Len(K) = Len(f.log) + 1
        /\ f.commitIndex \in Nat
    BY <1>1, LogLength DEF NodeState, Extends
  <1>4. LogHeld(H, B, U, i, K, t)
    BY <1>1, <1>2, <1>3, HeldAppends
  <1>5. \A j \in Node : f.matchIndex[j] \in Nat /\ f.nextIndex[j] \in Nat /\ A[j][t] \in Nat
                        /\ B[j][t] \in Nat /\ A[j][t] <= B[j][t]
    <2>1. \A j \in Node : f.matchIndex[j] \in Nat /\ f.nextIndex[j] \in Nat
      BY DEF NodeState, Indexes
    <2>2. \A j \in Node : A[j][t] \in Nat /\ B[j][t] \in Nat
      BY <1>2 DEF GhostType
    <2>3. \A j \in Node : A[j][t] <= B[j][t]
      BY <1>2 DEF Grows
    <2>. QED BY <2>1, <2>2, <2>3
  <1>6. LeaderSound(H, B, i, g)
    <2>1. K # <<>>
      BY <1>3, LogLength
    <2>2. \A j \in Node : f.matchIndex[j] <= B[j][t] /\ f.nextIndex[j] <= Len(K) + 1
      BY <1>3, <1>5
    <2>. QED BY <1>1, <1>2, <2>1, <2>2 DEF LeaderSound
  <1>7. CommitSound(H, B, com, g)
    <2>1. Agree(com, com, Len(com))
      BY AgreeRefl, LogLength
    <2>2. CommitSound(H, B, com, f)
      BY <1>2, <2>1, CommitGrows
    <2>3. Settled(H, B, K, f.commitIndex, t)
      <3>1. Settled(H, B, f.log, f.commitIndex, t)
        BY <2>2 DEF CommitSound
      <3>2. f.commitIndex <= Len(f.log)
        BY <1>3, <3>1, SettledLength
      <3>3. Agree(f.log, K, f.commitIndex)
        BY <1>1, <1>3, <3>2 DEF Extends, Agree
      <3>4. H \in [Nat -> Log]
        BY <1>2 DEF GhostType
      <3>. QED BY <1>3, <3>1, <3>3, <3>4, SettledCopies
    <2>. QED BY <1>1, <2>2, <2>3 DEF CommitSound
  <1>. QED BY <1>1, <1>4, <1>6, <1>7 DEF NodeSound, g

\* becomeLeader appends its no-op, if the transaction succeeds, and nothing else.
LEMMA BecomeLeaderLog ==
    ASSUME NEW n \in NodeState, NEW i \in Node, n.role = "Candidate"
    PROVE  /\ BecomeLeader(i, n).log = AppendEntries(FreshLeader(i, n), <<NoOpEntry(n)>>).log
           /\ CanWrite(n) => Extends(n.log, BecomeLeader(i, n).log, n.currentTerm)
           /\ ~CanWrite(n) => BecomeLeader(i, n).log = n.log
           /\ CanWrite(FreshLeader(i, n)) = CanWrite(n)
  <1>. DEFINE f == FreshLeader(i, n)
              g == AppendEntries(f, <<NoOpEntry(n)>>)
              h == CheckAndUpdateCommitIndex(g)
              r == BroadcastAppendEntries(i, h)
  <1>1. NoOpEntry(n) \in Entry /\ NoOpEntry(n).term = n.currentTerm
    BY DEF NoOpEntry, Entry, NodeState
  <1>2. f \in NodeState /\ g \in NodeState /\ h \in NodeState
    BY WinnerType
  <1>3. f.log = n.log /\ f.quota = n.quota
    BY DEF FreshLeader, NodeState
  <1>. HIDE DEF f
  <1>4. /\ CanWrite(f) => Extends(f.log, g.log, n.currentTerm)
        /\ ~CanWrite(f) => g = f
    BY <1>1, <1>2, AppendOne
  <1>5. ASSUME NEW q \in NodeState PROVE CheckAndUpdateCommitIndex(q).log = q.log
    BY DEF CheckAndUpdateCommitIndex, ApplyCommitted, NodeState
  <1>6. ASSUME NEW q \in NodeState, NEW js PROVE SendAppendEntries(i, q, js).log = q.log
    BY DEF SendAppendEntries, NodeState
  <1>. HIDE DEF g
  <1>7. h.log = g.log
    BY <1>2, <1>5
  <1>. HIDE DEF h
  <1>8. r.log = h.log
    BY <1>2, <1>6 DEF BroadcastAppendEntries
  <1>. HIDE DEF r
  <1>9. BecomeLeader(i, n) = r
    BY Zenon DEF BecomeLeader, r, h, g, f
  <1>10. CanWrite(f) = CanWrite(n)
    BY <1>3 DEF CanWrite
  <1>11. r.log = g.log
    BY <1>7, <1>8
  <1>12. CanWrite(n) => Extends(n.log, r.log, n.currentTerm)
    BY <1>3, <1>4, <1>10, <1>11
  <1>13. ~CanWrite(n) => r.log = n.log
    BY <1>3, <1>4, <1>10, <1>11
  <1>. QED BY <1>9, <1>10, <1>11, <1>12, <1>13, Zenon DEF f, g

\* A winner that could append is a sound leader and sends what it holds.
LEMMA BecomeLeaderSound ==
    ASSUME NEW G, NEW A, NEW T, NEW H, NEW B, NEW U, NEW com \in Log, NEW v \in Nat,
           Settled(G, A, com, Len(com), v), NEW i \in Node,
           NEW n \in NodeState, n.role = "Candidate", CanWrite(n), n.out = {}, NEW t \in Nat,
           n.currentTerm = t, T[i] <= t, LogHeld(G, A, T, i, n.log, T[i]),
           CommitSound(G, A, com, n),
           LeaderGrows(G, A, T, H, B, U, i, t, BecomeLeader(i, n).log)
    PROVE  LET r == BecomeLeader(i, n)
           IN  /\ NodeSound(H, B, U, Longest(com, r), i, r)
               /\ SendsSound(H, B, Longest(com, r), i, r)
  <1>. DEFINE e == NoOpEntry(n)
              f == FreshLeader(i, n)
              g == AppendEntries(f, <<e>>)
              h == CheckAndUpdateCommitIndex(g)
              r == BroadcastAppendEntries(i, h)
  <1>1. e \in Entry /\ e.term = t
    BY DEF NoOpEntry, Entry, NodeState
  <1>. HIDE DEF e
  <1>2. f \in NodeState /\ g \in NodeState /\ h \in NodeState
    BY WinnerType DEF e
  <1>3. /\ f.role = "Leader" /\ f.currentTerm = t /\ f.log = n.log /\ f.quota = n.quota
        /\ f.commitIndex = n.commitIndex /\ f.lastApplied = n.lastApplied /\ f.kv = n.kv
        /\ f.out = {}
        /\ f.matchIndex = NoIndex
        /\ f.nextIndex = [j \in Node |-> IF j = i THEN 0 ELSE LastIndex(n) + 1]
    BY DEF FreshLeader, NodeState
  <1>. HIDE DEF f
  <1>4. GhostType(G, A, T) /\ GhostType(H, B, U) /\ Grows(G, A, T, H, B, U) /\ GhostSound(H, B, U)
    BY DEF LeaderGrows
  <1>5. \A j \in Node : A[j][t] \in Nat
    BY <1>4, GhostValues
  <1>6. Len(n.log) \in Nat
    BY LogLength DEF NodeState
  <1>7. f.matchIndex[i] = 0
        /\ \A j \in Node : f.matchIndex[j] <= A[j][t] /\ f.nextIndex[j] <= Len(f.log) + 1
    BY <1>3, <1>5, <1>6 DEF NoIndex, LastIndex
  <1>8. CommitSound(G, A, com, f)
    BY <1>3 DEF CommitSound
  <1>9. CanWrite(f)
    BY <1>3 DEF CanWrite
  <1>10. BecomeLeader(i, n).log = g.log /\ BecomeLeader(i, n) = r
    BY BecomeLeaderLog, Zenon DEF BecomeLeader, r, h, g, f, e
  <1>11. NodeSound(H, B, U, com, i, g)
    BY <1>1, <1>2, <1>3, <1>7, <1>8, <1>9, <1>10, AppendsSound
  <1>12. g.out = {}
    BY <1>1, <1>2, <1>3, AppendOne
  <1>. HIDE DEF g
  <1>13. Settled(H, B, com, Len(com), v)
    BY <1>4, SettledGrows, LogLength
  <1>14. NodeSound(H, B, U, Longest(com, h), i, h) /\ h.out = {}
    BY <1>2, <1>4, <1>11, <1>12, <1>13, CheckAndUpdateCommitIndexSound
  <1>. HIDE DEF h
  <1>15. SendsSound(H, B, Longest(com, h), i, h)
    BY <1>14 DEF SendsSound
  <1>16. /\ NodeSound(H, B, U, Longest(com, h), i, r) /\ SendsSound(H, B, Longest(com, h), i, r)
         /\ r.role = h.role /\ r.currentTerm = h.currentTerm /\ r.log = h.log
         /\ r.commitIndex = h.commitIndex
    BY <1>2, <1>14, <1>15, SendAppendEntriesSound DEF BroadcastAppendEntries
  <1>. HIDE DEF r
  <1>17. Longest(com, r) = Longest(com, h)
    BY <1>16 DEF Longest, CommittedLog, LastIndex
  <1>. QED BY <1>10, <1>16, <1>17

\* ProposeCommand appends the command, if the transaction succeeds.
LEMMA ProposeCommandLog ==
    ASSUME NEW n \in NodeState, NEW i \in Node, NEW c \in Command
    PROVE  LET r == ProposeCommand(i, n, c)
               g == AppendEntries(n, <<[term |-> n.currentTerm, command |-> c]>>)
           IN  /\ ~CanWrite(n) => r = n
               /\ CanWrite(n) => /\ Extends(n.log, r.log, n.currentTerm)
                                 /\ r.log = g.log
  <1>. DEFINE e == [term |-> n.currentTerm, command |-> c]
              new == LastIndex(n) + 1
              g == AppendEntries(n, <<e>>)
              a == ApplyCommitted([g EXCEPT !.commitIndex = new])
              p == [g EXCEPT !.pendingCommits = {d \in @ : n.newIndex[d] # new} \cup {c},
                             !.newIndex[c] = new, !.commitCh[c] = "empty"]
              r == ProposeCommand(i, n, c)
  <1>1. e \in Entry /\ e.term = n.currentTerm
    BY DEF Entry, NodeState
  <1>2. g \in NodeState /\ (CanWrite(n) => Extends(n.log, g.log, n.currentTerm))
    BY <1>1, AppendOne
  <1>3. p \in NodeState
    BY ProposedType
  <1>4. /\ ~CanWrite(n) => r = n
        /\ CanWrite(n) /\ Peers(i) = {} => r = a
        /\ CanWrite(n) /\ Peers(i) # {} => r = SendAppendEntries(i, p, Peers(i))
    BY Zenon DEF ProposeCommand, BroadcastAppendEntries
  <1>. HIDE DEF g, r
  <1>5. a.log = g.log /\ p.log = g.log
    BY <1>2 DEF ApplyCommitted, NodeState
  <1>. HIDE DEF p, a
  <1>6. SendAppendEntries(i, p, Peers(i)).log = p.log
    BY <1>3 DEF SendAppendEntries, NodeState
  <1>7. CanWrite(n) => r.log = g.log
    BY <1>4, <1>5, <1>6
  <1>. QED BY <1>2, <1>4, <1>7 DEF r, g

\* A cluster of one chooses alone.
LEMMA SingleQuorum ==
    ASSUME NEW i \in Node, Majority <= 1 \/ Peers(i) = {}
    PROVE  {i} \in Quorum
  <1>1. Cardinality({i}) = 1
    BY FS_Singleton
  <1>2. Peers(i) = {} => Node = {i}
    BY DEF Peers
  <1>3. Majority <= 1
    <2>1. Peers(i) = {} => Cardinality(Node) = 1
      BY <1>1, <1>2, Zenon
    <2>2. 1 \div 2 + 1 <= 1
      OBVIOUS
    <2>. QED BY <2>1, <2>2, SMT DEF Majority
  <1>. QED BY <1>1, <1>3, MajorityType DEF Quorum

\* A leader that could append stays sound and sends what it holds.
LEMMA ProposeCommandSound ==
    ASSUME NEW G, NEW A, NEW T, NEW H, NEW B, NEW U, NEW com \in Log, NEW v \in Nat,
           Settled(G, A, com, Len(com), v), NEW i \in Node,
           NEW n \in NodeState, n.role = "Leader", CanWrite(n), n.out = {}, NEW t \in Nat,
           n.currentTerm = t, T[i] = t, NodeSound(G, A, T, com, i, n), NEW c \in Command,
           LeaderGrows(G, A, T, H, B, U, i, t, ProposeCommand(i, n, c).log)
    PROVE  LET r == ProposeCommand(i, n, c)
           IN  /\ NodeSound(H, B, U, Longest(com, r), i, r)
               /\ SendsSound(H, B, Longest(com, r), i, r)
  <1>. DEFINE e == [term |-> n.currentTerm, command |-> c]
              new == LastIndex(n) + 1
              g == AppendEntries(n, <<e>>)
              a == ApplyCommitted([g EXCEPT !.commitIndex = new])
              p == [g EXCEPT !.pendingCommits = {d \in @ : n.newIndex[d] # new} \cup {c},
                             !.newIndex[c] = new, !.commitCh[c] = "empty"]
              r == ProposeCommand(i, n, c)
  <1>1. e \in Entry /\ e.term = t
    BY DEF Entry, NodeState
  <1>2. /\ g \in NodeState /\ Extends(n.log, g.log, t)
        /\ g.role = "Leader" /\ g.currentTerm = t /\ g.out = {}
    BY <1>1, AppendOne
  <1>3. p \in NodeState
    BY ProposedType
  <1>4. /\ Peers(i) = {} => r = a
        /\ Peers(i) # {} => r = SendAppendEntries(i, p, Peers(i))
    BY Zenon DEF ProposeCommand, BroadcastAppendEntries
  <1>5. r.log = g.log
    BY ProposeCommandLog
  <1>6. NodeSound(H, B, U, com, i, g)
    <2>1. LeaderGrows(G, A, T, H, B, U, i, t, g.log)
      BY <1>5
    <2>2. /\ LogHeld(G, A, T, i, n.log, T[i]) /\ CommitSound(G, A, com, n)
          /\ n.matchIndex[i] = 0
          /\ \A j \in Node : n.matchIndex[j] <= A[j][t] /\ n.nextIndex[j] <= Len(n.log) + 1
      BY DEF NodeSound, LeaderSound
    <2>. HIDE DEF e
    <2>3. T[i] <= t
      OBVIOUS
    <2>. QED BY <1>1, <2>1, <2>2, <2>3, AppendsSound
  <1>7. /\ GhostType(H, B, U) /\ GhostSound(H, B, U) /\ Settled(H, B, com, Len(com), v)
        /\ H[t] = g.log /\ B[i][t] = Len(g.log)
    <2>1. GhostType(G, A, T) /\ GhostType(H, B, U) /\ Grows(G, A, T, H, B, U) /\ GhostSound(H, B, U)
      BY DEF LeaderGrows
    <2>2. Settled(H, B, com, Len(com), v)
      BY <2>1, SettledGrows, LogLength
    <2>. QED BY <1>5, <2>1, <2>2, Zenon DEF LeaderGrows, r
  <1>. HIDE DEF g, e, r
  <1>8. g.log \in Log /\ Len(g.log) = new /\ new \in Nat /\ new >= 1 /\ g.log[new].term = t
        /\ n.commitIndex \in Nat
    BY <1>2, LogLength DEF NodeState, Extends, LastIndex
  <1>9. CASE Peers(i) = {}
    <2>1. Settled(H, B, g.log, new, t)
      <3>1. Own(H, t, new)
        BY <1>7, <1>8 DEF Own
      <3>2. Chosen(B, t, new)
        <4>1. {i} \in Quorum
          BY <1>9, SingleQuorum
        <4>2. \A j \in {i} : B[j][t] >= new
          BY <1>7, <1>8
        <4>. QED BY <4>1, <4>2 DEF Chosen
      <3>3. Agree(g.log, H[t], new)
        BY <1>7, <1>8, AgreeRefl
      <3>. QED BY <1>8, <3>1, <3>2, <3>3 DEF Settled
    <2>2. g.commitIndex <= new
      <3>1. Settled(H, B, g.log, g.commitIndex, t) /\ g.commitIndex \in Nat
        BY <1>2, <1>6 DEF NodeSound, CommitSound, NodeState
      <3>. QED BY <1>8, <3>1, SettledLength
    <2>. HIDE DEF new
    <2>3. CommitSound(H, B, Longest(com, a), a)
      BY <1>2, <1>6, <1>7, <1>8, <2>1, <2>2, CommitKeeps DEF NodeSound
    <2>4. /\ a.role = g.role /\ a.currentTerm = g.currentTerm /\ a.log = g.log
          /\ a.matchIndex = g.matchIndex /\ a.nextIndex = g.nextIndex /\ a.out = g.out
      BY <1>2, <1>8, ApplyCommittedFields
    <2>. HIDE DEF a
    <2>5. NodeSound(H, B, U, Longest(com, a), i, a)
      BY <1>6, <2>3, <2>4 DEF NodeSound, LeaderSound
    <2>6. SendsSound(H, B, Longest(com, a), i, a)
      BY <1>2, <2>4 DEF SendsSound
    <2>. QED BY <1>4, <1>9, <2>5, <2>6 DEF r
  <1>10. CASE Peers(i) # {}
    <2>1. /\ p.role = g.role /\ p.currentTerm = g.currentTerm /\ p.log = g.log
          /\ p.matchIndex = g.matchIndex /\ p.nextIndex = g.nextIndex /\ p.out = g.out
          /\ p.commitIndex = g.commitIndex /\ p.lastApplied = g.lastApplied /\ p.kv = g.kv
      BY <1>2 DEF NodeState
    <2>. HIDE DEF p
    <2>2. NodeSound(H, B, U, com, i, p) /\ SendsSound(H, B, com, i, p)
      BY <1>2, <1>6, <2>1 DEF NodeSound, LeaderSound, CommitSound, SendsSound
    <2>3. LET q == SendAppendEntries(i, p, Peers(i))
          IN  NodeSound(H, B, U, com, i, q) /\ SendsSound(H, B, com, i, q)
      <3>1. Peers(i) \in SUBSET Peers(i)
        OBVIOUS
      <3>. QED BY <1>3, <2>2, <3>1, SendAppendEntriesSound
    <2>4. NodeSound(H, B, U, com, i, r) /\ SendsSound(H, B, com, i, r)
      BY <1>4, <1>10, <2>3
    <2>5. Longest(com, r) = com
      <3>1. r \in NodeState
        BY ProposeCommandType DEF r
      <3>2. r.commitIndex <= Len(com) /\ r.commitIndex \in Nat
        BY <2>4, <3>1 DEF NodeSound, CommitSound, NodeState
      <3>. QED BY <3>2, LogLength DEF Longest
    <2>. QED BY <2>4, <2>5 DEF r
  <1>. QED BY <1>9, <1>10

-----------------------------------------------------------------------------
(* A follower stores what the leader sent.                                   *)

\* Two logs whose entries stand where their leaders had them are the same up
\* to a place where both have an entry of one term.
LEMMA MatchAgree ==
    ASSUME NEW G \in [Nat -> Log], NEW K \in Log, NEW L \in Log, Backed(G, K), Backed(G, L),
           NEW k \in Nat, k >= 1, k <= Len(K), k <= Len(L), K[k].term = L[k].term
    PROVE  Agree(K, L, k)
  <1>1. k \in 1..Len(K) /\ k \in 1..Len(L) /\ K[k].term \in Nat
    <2>1. k \in 1..Len(K) /\ k \in 1..Len(L)
      BY LogLength
    <2>. QED BY <2>1, LogLength
  <1>2. Agree(K, G[K[k].term], k) /\ Agree(L, G[K[k].term], k)
    BY <1>1 DEF Backed
  <1>3. G[K[k].term] \in Log /\ Agree(G[K[k].term], L, k)
    BY <1>1, <1>2, AgreeSym
  <1>. QED BY <1>2, <1>3, AgreeTrans

\* The entries of m are a piece of log X.
Carries(m, X) ==
    /\ m.prevLogIndex + Len(m.entries) <= Len(X)
    /\ \A k \in 1..Len(m.entries) : m.entries[k] = X[m.prevLogIndex + k]
    /\ m.prevLogIndex > 0 => m.prevLogTerm = X[m.prevLogIndex].term

\* Where the log passes the consistency check it agrees with the leader's.
LEMMA StoredAgree ==
    ASSUME NEW G \in [Nat -> Log], NEW X \in Log, Backed(G, X), NEW n \in NodeState,
           Backed(G, n.log), NEW m \in AppendRequest, Carries(m, X)
    PROVE  /\ PrevMatches(n, m) => Agree(n.log, X, m.prevLogIndex)
           /\ \A k \in 1..Len(m.entries) : k \notin Unstored(n, m)
                                           => Agree(n.log, X, m.prevLogIndex + k)
  <1>1. /\ n.log \in Log /\ Len(n.log) \in Nat /\ Len(X) \in Nat /\ m.prevLogIndex \in Nat
        /\ Len(m.entries) \in Nat
    BY LogLength DEF NodeState, AppendRequest
  <1>2. ASSUME PrevMatches(n, m) PROVE Agree(n.log, X, m.prevLogIndex)
    <2>1. CASE m.prevLogIndex = 0
      BY <1>1, <2>1 DEF Agree
    <2>2. CASE m.prevLogIndex > 0
      <3>1. m.prevLogIndex <= Len(n.log) /\ n.log[m.prevLogIndex].term = X[m.prevLogIndex].term
        BY <1>1, <1>2, <2>2 DEF PrevMatches, Carries, LastIndex, TermAt
      <3>2. m.prevLogIndex <= Len(X)
        BY <1>1 DEF Carries
      <3>. QED BY <1>1, <2>2, <3>1, <3>2, MatchAgree
    <2>. QED BY <1>1, <2>1, <2>2
  <1>3. ASSUME NEW k \in 1..Len(m.entries), k \notin Unstored(n, m)
        PROVE  Agree(n.log, X, m.prevLogIndex + k)
    <2>. DEFINE p == m.prevLogIndex + k
    <2>1. p \in Nat /\ p >= 1 /\ p <= Len(X)
      BY <1>1 DEF Carries
    <2>2. p <= Len(n.log) /\ n.log[p].term = m.entries[k].term
      BY <1>1, <1>3, <2>1 DEF Unstored, LastIndex, TermAt
    <2>3. m.entries[k] = X[p]
      BY DEF Carries
    <2>. HIDE DEF p
    <2>4. Agree(n.log, X, p)
      BY <1>1, <2>1, <2>2, <2>3, MatchAgree
    <2>. QED BY <2>4 DEF p
  <1>. QED BY <1>2, <1>3

\* Log K followed by entries from place k of X on.
LEMMA ConcatAgree ==
    ASSUME NEW X \in Log, NEW K \in Log, Agree(K, X, Len(K)), NEW R \in Log,
           Len(K) + Len(R) <= Len(X),
           \A k \in 1..Len(R) : R[k] = X[Len(K) + k]
    PROVE  /\ K \o R \in Log /\ Len(K \o R) = Len(K) + Len(R)
           /\ Agree(K \o R, X, Len(K) + Len(R))
  <1>1. K \in Seq(Entry) /\ R \in Seq(Entry) /\ Len(K) \in Nat /\ Len(R) \in Nat /\ Len(X) \in Nat
    BY LogLength DEF Log
  <1>2. /\ K \o R \in Seq(Entry) /\ Len(K \o R) = Len(K) + Len(R)
        /\ \A p \in 1..Len(K) + Len(R) :
              (K \o R)[p] = IF p <= Len(K) THEN K[p] ELSE R[p - Len(K)]
    BY <1>1, ConcatProperties
  <1>3. \A p \in 1..Len(K) + Len(R) : (K \o R)[p] = X[p]
    <2>. SUFFICES ASSUME NEW p \in 1..Len(K) + Len(R) PROVE (K \o R)[p] = X[p]
      OBVIOUS
    <2>1. CASE p <= Len(K)
      BY <1>1, <1>2, <2>1 DEF Agree
    <2>2. CASE p > Len(K)
      <3>1. p - Len(K) \in 1..Len(R) /\ Len(K) + (p - Len(K)) = p
        BY <1>1, <2>2
      <3>2. R[p - Len(K)] = X[p]
        BY <3>1
      <3>. QED BY <1>1, <1>2, <2>2, <3>2
    <2>. QED BY <1>1, <2>1, <2>2
  <1>. QED BY <1>1, <1>2, <1>3 DEF Agree, Log

\* The rest of a batch, from entry f on.
LEMMA RestOfBatch ==
    ASSUME NEW E \in Log, NEW f \in 1..Len(E)
    PROVE  /\ SubSeq(E, f, Len(E)) \in Log
           /\ Len(SubSeq(E, f, Len(E))) = Len(E) - f + 1
           /\ \A k \in 1..(Len(E) - f + 1) : SubSeq(E, f, Len(E))[k] = E[f + k - 1]
  <1>1. Len(E) \in Nat /\ f \in Int /\ Len(E) \in Int /\ f <= Len(E) /\ f >= 1
    BY LogLength
  <1>2. \A k \in f..Len(E) : E[k] \in Entry
    <2>1. \A k \in 1..Len(E) : E[k] \in Entry
      BY LogLength
    <2>. QED BY <1>1, <2>1
  <1>3. /\ SubSeq(E, f, Len(E)) \in Seq(Entry)
        /\ Len(SubSeq(E, f, Len(E))) = IF f <= Len(E) THEN Len(E) - f + 1 ELSE 0
        /\ \A k \in 1..(Len(E) - f + 1) : SubSeq(E, f, Len(E))[k] = E[f + k - 1]
    BY <1>1, <1>2, SubSeqProperties
  <1>. QED BY <1>1, <1>3 DEF Log

\* Log K agrees with X up to entry f of the batch E, which X has from place p
\* on, and R is the rest of the batch.
Fits(X, E, p, f, K, R) ==
    /\ X \in Log /\ E \in Log /\ p \in Nat /\ f \in 1..Len(E) /\ K \in Log /\ R \in Log
    /\ p + Len(E) <= Len(X) /\ \A k \in 1..Len(E) : E[k] = X[p + k]
    /\ Len(K) = p + f - 1 /\ Agree(K, X, Len(K))
    /\ Len(R) = Len(E) - f + 1 /\ \A k \in 1..(Len(E) - f + 1) : R[k] = E[f + k - 1]

LEMMA BatchAgree ==
    ASSUME NEW X, NEW E, NEW p, NEW f, NEW K, NEW R, Fits(X, E, p, f, K, R)
    PROVE  /\ K \o R \in Log /\ Len(K \o R) = p + Len(E)
           /\ Agree(K \o R, X, p + Len(E))
           /\ X # <<>> /\ Len(K) <= p + Len(E)
  <1>0. /\ X \in Log /\ E \in Log /\ p \in Nat /\ f \in 1..Len(E) /\ K \in Log /\ R \in Log
        /\ p + Len(E) <= Len(X) /\ \A k \in 1..Len(E) : E[k] = X[p + k]
        /\ Len(K) = p + f - 1 /\ Agree(K, X, Len(K))
        /\ Len(R) = Len(E) - f + 1 /\ \A k \in 1..(Len(E) - f + 1) : R[k] = E[f + k - 1]
    BY DEF Fits
  <1>1. Len(E) \in Nat /\ Len(X) \in Nat /\ f \in Nat /\ f >= 1 /\ f <= Len(E)
    BY <1>0, LogLength
  <1>2. \A k \in 1..Len(R) : R[k] = X[Len(K) + k]
    <2>. SUFFICES ASSUME NEW k \in 1..Len(R) PROVE R[k] = X[Len(K) + k]
      OBVIOUS
    <2>1. /\ k \in 1..(Len(E) - f + 1) /\ f + k - 1 \in 1..Len(E)
          /\ p + (f + k - 1) = Len(K) + k
      BY <1>0, <1>1
    <2>2. E[f + k - 1] = X[Len(K) + k]
      BY <1>0, <2>1
    <2>. QED BY <1>0, <2>1, <2>2
  <1>3. Len(K) + Len(R) = p + Len(E) /\ p + Len(E) <= Len(X)
    BY <1>0, <1>1
  <1>4. K \o R \in Log /\ Len(K \o R) = Len(K) + Len(R) /\ Agree(K \o R, X, Len(K) + Len(R))
    BY <1>0, <1>2, <1>3, ConcatAgree
  <1>5. X # <<>> /\ Len(K) <= p + Len(E)
    BY <1>0, <1>1, <1>3, LogLength
  <1>. QED BY <1>3, <1>4, <1>5

\* The loop over req.Entries: whatever transactions succeed, the log is then
\* what it was, or a piece of the leader's log with all that was right in it.
LEMMA ReconcileLog ==
    ASSUME NEW G \in [Nat -> Log], NEW X \in Log, Backed(G, X), NEW n \in NodeState,
           Backed(G, n.log), NEW m \in AppendRequest, Carries(m, X), PrevMatches(n, m)
    PROVE  LET r == Reconcile(n, m)
           IN  /\ Reconciled(n.log, r.log, X)
               /\ ~CanWrite(n) => r.log = n.log
  <1>. DEFINE r == Reconcile(n, m)
              U == Unstored(n, m)
              E == m.entries
              prev == m.prevLogIndex
              len == Len(E)
              first == Min(U)
              from == prev + first
              rest == SubSeq(E, first, len)
              cut == TruncateFrom(n, from)
              L == n.log
  <1>1. L \in Log /\ E \in Log
    BY DEF NodeState, AppendRequest, Log
  <1>2. Len(L) \in Nat /\ Len(X) \in Nat /\ prev \in Nat /\ len \in Nat
    BY <1>1, LogLength DEF AppendRequest
  <1>3. prev + len <= Len(X) /\ \A k \in 1..len : E[k] = X[prev + k]
    BY DEF Carries
  <1>4. CASE U = {}
    BY <1>4 DEF Reconcile, Reconciled
  <1>5. CASE U # {}
    <2>1. U \in SUBSET Nat /\ U \subseteq 1..len
      BY <1>2 DEF Unstored
    <2>2. first \in U /\ \A k \in U : first <= k
      BY <1>5, <2>1, MinIsLeast
    <2>3. r = IF from > Len(L) THEN AppendEntries(n, rest)
              ELSE IF CanWrite(n) THEN AppendEntries(cut, rest) ELSE n
      BY <1>5, Zenon DEF Reconcile, LastIndex
    <2>4. \/ from > Len(L)
          \/ TermAt(n, from) # E[first].term
      BY <2>2 DEF Unstored, LastIndex
    <2>5. first \in 1..len
      BY <2>1, <2>2
    <2>6. ASSUME NEW k \in 1..len, k < first PROVE Agree(L, X, prev + k)
      <3>1. first \in Nat /\ k \in Nat
        BY <1>2, <2>5
      <3>2. k \notin U
        BY <2>2, <2>6, <3>1
      <3>. QED BY <3>2, StoredAgree
    <2>7. Agree(L, X, prev)
      BY StoredAgree
    <2>. HIDE DEF U, first, prev, len, E, L
    <2>8. Agree(L, X, from - 1) /\ from \in Nat /\ from >= 1
      <3>1. CASE first = 1
        <4>1. from - 1 = prev /\ from \in Nat /\ from >= 1
          BY <1>2, <3>1
        <4>. QED BY <2>7, <4>1
      <3>2. CASE first # 1
        <4>1. /\ first - 1 \in 1..len /\ first - 1 < first /\ prev + (first - 1) = from - 1
              /\ from \in Nat /\ from >= 1
          BY <1>2, <2>5, <3>2
        <4>. QED BY <2>6, <4>1
      <3>. QED BY <3>1, <3>2
    <2>a. /\ prev + Len(E) <= Len(X) /\ \A k \in 1..Len(E) : E[k] = X[prev + k]
          /\ first \in 1..Len(E) /\ len = Len(E)
      BY <1>3, <2>5 DEF len
    <2>b. /\ rest \in Log /\ Len(rest) = Len(E) - first + 1
          /\ \A k \in 1..(Len(E) - first + 1) : rest[k] = E[first + k - 1]
      BY <1>1, <2>a, RestOfBatch DEF len
    <2>. HIDE DEF rest
    <2>9. CASE from > Len(L)
      <3>1. Len(L) = from - 1
        BY <1>2, <2>8, <2>9 DEF Agree
      <3>2. Agree(L, X, Len(L)) /\ Len(L) = prev + first - 1
        BY <1>2, <2>5, <2>8, <3>1
      <3>. DEFINE K == L \o rest
      <3>3. K \in Log /\ Len(K) = prev + len /\ Agree(K, X, prev + len) /\ X # <<>>
            /\ Len(L) <= prev + len
        <4>1. L \in Log /\ E \in Log /\ prev \in Nat
          BY <1>1, <1>2
        <4>2. /\ L \o rest \in Log /\ Len(L \o rest) = prev + Len(E)
              /\ Agree(L \o rest, X, prev + Len(E))
              /\ X # <<>> /\ Len(L) <= prev + Len(E)
          <5>1. Fits(X, E, prev, first, L, rest)
            BY <2>a, <2>b, <3>2, <4>1 DEF Fits
          <5>. QED BY <5>1, BatchAgree
        <4>. QED BY <2>a, <4>2, Zenon
      <3>4. r = AppendEntries(n, rest)
        BY <2>3, <2>9
      <3>5. (r.log = L \/ r.log = K) /\ (~CanWrite(n) => r.log = L)
        BY <3>4 DEF AppendEntries, NodeState, L
      <3>. HIDE DEF K, r
      <3>6. \A k \in Nat : Agree(L, X, k) => k <= Len(K)
        BY <1>2, <3>3 DEF Agree
      <3>7. Reconciled(L, K, X)
        BY <3>3, <3>6 DEF Reconciled
      <3>8. Reconciled(L, r.log, X)
        BY <3>5, <3>7 DEF Reconciled
      <3>. QED BY <3>5, <3>8 DEF r, L
    <2>10. CASE from <= Len(L) /\ ~CanWrite(n)
      <3>1. r = n
        BY <1>2, <2>3, <2>8, <2>10
      <3>. QED BY <3>1 DEF Reconciled
    <2>11. CASE from <= Len(L) /\ CanWrite(n)
      <3>. DEFINE K == SubSeq(L, 1, from - 1)
                  M == K \o rest
      <3>1. K \in Log /\ Len(K) = from - 1 /\ \A k \in 1..(from - 1) : K[k] = L[k]
        <4>0. L \in Seq(Entry)
          BY <1>1 DEF Log
        <4>1. from - 1 \in 0..Len(L) /\ L \in Seq(Entry)
          BY <1>2, <2>8, <2>11, <4>0
        <4>2. \A k \in 1..(from - 1) : L[k] \in Entry
          BY <1>2, <2>8, <2>11, <4>1, ElementOfSeq
        <4>3. 1 \in Int /\ from - 1 \in Int /\ (IF 1 <= from - 1 THEN from - 1 - 1 + 1 ELSE 0) = from - 1
              /\ from - 1 - 1 + 1 = from - 1
          BY <2>8
        <4>4. K \in Seq(Entry) /\ Len(K) = from - 1
              /\ \A k \in 1..(from - 1) : K[k] = L[1 + k - 1]
          BY <4>2, <4>3, SubSeqProperties
        <4>5. \A k \in 1..(from - 1) : 1 + k - 1 = k
          BY <2>8
        <4>. QED BY <4>4, <4>5 DEF Log
      <3>2. cut.log = K /\ cut \in NodeState
        <4>1. from \in 1..Len(L)
          BY <1>2, <2>8, <2>11
        <4>2. cut \in NodeState
          BY <4>1, TruncateFromType DEF L
        <4>. QED BY <2>11, <4>2 DEF TruncateFrom, NodeState, L
      <3>3. r = AppendEntries(cut, rest)
        BY <1>2, <2>3, <2>8, <2>11
      <3>. HIDE DEF K, cut, r
      <3>4. r.log = K \/ r.log = M
        BY <3>2, <3>3 DEF AppendEntries, NodeState
      <3>5. Agree(K, X, Len(K)) /\ Len(K) = prev + first - 1
        <4>1. Agree(K, X, Len(K))
          BY <2>8, <3>1 DEF Agree
        <4>. QED BY <1>2, <2>5, <3>1, <4>1
      <3>6. M \in Log /\ Len(M) = prev + len /\ Agree(M, X, prev + len) /\ X # <<>>
            /\ Len(K) <= prev + len
        <4>1. K \in Log /\ E \in Log /\ prev \in Nat
          BY <1>1, <1>2, <3>1
        <4>2. /\ K \o rest \in Log /\ Len(K \o rest) = prev + Len(E)
              /\ Agree(K \o rest, X, prev + Len(E))
              /\ X # <<>> /\ Len(K) <= prev + Len(E)
          <5>1. Fits(X, E, prev, first, K, rest)
            BY <2>a, <2>b, <3>1, <3>5, <4>1 DEF Fits
          <5>. QED BY <5>1, BatchAgree
        <4>. QED BY <2>a, <4>2, Zenon
      <3>7. \A k \in Nat : Agree(L, X, k) => k <= from - 1
        <4>1. TermAt(n, from) = L[from].term
          BY <1>2, <2>8, <2>11 DEF TermAt, L
        <4>2. E[first] = X[from]
          BY <1>3, <2>5
        <4>3. L[from].term # X[from].term
          BY <1>2, <2>4, <2>8, <2>11, <4>1, <4>2
        <4>. QED BY <2>8, <4>3 DEF Agree
      <3>8. Reconciled(L, K, X)
        BY <3>1, <3>5, <3>6, <3>7 DEF Reconciled
      <3>9. Reconciled(L, M, X)
        <4>1. \A k \in Nat : Agree(L, X, k) => k <= Len(M)
          BY <1>2, <2>8, <3>1, <3>6, <3>7
        <4>. QED BY <3>6, <4>1 DEF Reconciled
      <3>10. Reconciled(L, r.log, X)
        BY <3>4, <3>8, <3>9, Zenon
      <3>. QED BY <2>11, <3>10 DEF r, L
    <2>. QED BY <1>2, <2>8, <2>9, <2>10, <2>11
  <1>. QED BY <1>4, <1>5

\* The fields of a batch.
LEMMA BatchValues ==
    ASSUME NEW m \in AppendRequest
    PROVE  /\ m.prevLogIndex \in Nat /\ m.entries \in Log /\ Len(m.entries) \in Nat
           /\ m.prevLogIndex + Len(m.entries) \in Nat
           /\ m.term \in Nat /\ m.leaderCommit \in Nat
  <1>1. m.prevLogIndex \in Nat /\ m.entries \in Log /\ m.term \in Nat /\ m.leaderCommit \in Nat
    BY DEF AppendRequest, Log
  <1>. QED BY <1>1, LogLength

\* When nothing of the batch is missing any more the log has all of it.
LEMMA StoredWhole ==
    ASSUME NEW G \in [Nat -> Log], NEW X \in Log, Backed(G, X), NEW n \in NodeState,
           Backed(G, n.log), NEW m \in AppendRequest, Carries(m, X), PrevMatches(n, m),
           NEW r \in NodeState, Reconciled(n.log, r.log, X), Unstored(r, m) = {}
    PROVE  Agree(X, r.log, m.prevLogIndex + Len(m.entries))
  <1>. DEFINE prev == m.prevLogIndex
              len == Len(m.entries)
  <1>1. n.log \in Log /\ r.log \in Log
    BY DEF NodeState
  <1>2. prev \in Nat /\ len \in Nat /\ Len(n.log) \in Nat /\ Len(r.log) \in Nat
    BY <1>1, BatchValues, LogLength
  <1>3. \A k \in 1..len : /\ prev + k <= Len(r.log)
                          /\ TermAt(r, prev + k) = m.entries[k].term
    BY <1>2 DEF Unstored, LastIndex
  <1>4. CASE len = 0
    <2>1. Agree(X, n.log, prev)
      BY StoredAgree, AgreeSym
    <2>2. Agree(X, r.log, prev)
      BY <1>1, <1>2, <2>1, ReconciledKeeps
    <2>. QED BY <1>2, <1>4, <2>2
  <1>5. CASE len # 0 /\ r.log = n.log
    <2>1. len \in 1..len
      BY <1>2, <1>5
    <2>2. Unstored(n, m) = Unstored(r, m)
      BY <1>5 DEF Unstored, LastIndex, TermAt
    <2>3. Agree(n.log, X, prev + len)
      BY <2>1, <2>2, StoredAgree
    <2>. QED BY <1>5, <2>3, AgreeSym
  <1>6. CASE len # 0 /\ r.log # n.log
    <2>1. Agree(r.log, X, Len(r.log))
      BY <1>6 DEF Reconciled
    <2>2. prev + len <= Len(r.log) /\ prev + len \in Nat
      <3>1. len \in 1..len
        BY <1>2, <1>6
      <3>. QED BY <1>2, <1>3, <3>1
    <2>. QED BY <1>2, <2>1, <2>2 DEF Agree
  <1>. QED BY <1>4, <1>5, <1>6

\* The commit index and what was applied are the same.
SameCommit(n, r) ==
    r.commitIndex = n.commitIndex /\ r.lastApplied = n.lastApplied /\ r.kv = n.kv

\* HandleAppendEntries, once the term is not refused: the sender is the leader.
LEMMA AcceptLeaderFields ==
    ASSUME NEW n \in NodeState, NEW m \in AppendRequest, IsSaved(n), n.currentTerm <= m.term,
           ~(n.role = "Leader" /\ n.currentTerm = m.term)
    PROVE  LET f == AcceptLeader(n, m)
           IN  /\ f.log = n.log /\ SameCommit(n, f) /\ f.out = n.out
               /\ f.currentTerm = m.term /\ f.role = "Follower"
               /\ CanWrite(f) => f.diskTerm = m.term
  <1>. DEFINE c == CheckTerm(n, m.term)
              f == AcceptLeader(n, m)
  <1>1. m.term \in Nat /\ n.currentTerm \in Nat
    BY DEF AppendRequest, NodeState
  <1>2. c \in NodeState /\ Still(n, c) /\ c.out = n.out
    BY <1>1, CheckTermType, CheckTermStill
  <1>3. /\ m.term > n.currentTerm /\ c.quota > 0 => c.diskTerm = m.term
        /\ m.term <= n.currentTerm => c = n
        /\ m.term > n.currentTerm => c.currentTerm = m.term /\ c.role = "Follower"
    BY <1>1, CheckTermStep
  <1>. HIDE DEF c
  <1>4. /\ f.log = c.log /\ SameCommit(c, f) /\ f.out = c.out /\ f.currentTerm = c.currentTerm
        /\ f.role = IF c.role = "Candidate" THEN "Follower" ELSE c.role
        /\ f.quota = c.quota /\ f.diskTerm = c.diskTerm
    BY <1>2 DEF AcceptLeader, c, NodeState, SameCommit
  <1>. HIDE DEF f
  <1>5. f.log = n.log /\ SameCommit(n, f) /\ f.out = n.out
    BY <1>2, <1>4 DEF Still, SameCommit
  <1>6. CASE m.term > n.currentTerm
    BY <1>3, <1>4, <1>5, <1>6 DEF f, CanWrite
  <1>7. CASE m.term = n.currentTerm
    <2>1. c = n /\ n.diskTerm = m.term /\ n.role \in {"Follower", "Candidate"}
      BY <1>1, <1>3, <1>7 DEF IsSaved, NodeState, Role
    <2>. QED BY <1>4, <1>5, <1>7, <2>1 DEF f
  <1>. QED BY <1>1, <1>6, <1>7

\* Committing what the leader has committed of a log that has the batch.
LEMMA FollowerCommitSound ==
    ASSUME NEW G, NEW A, NEW T, GhostType(G, A, T), GhostSound(G, A, T), NEW com \in Log,
           NEW v \in Nat, Settled(G, A, com, Len(com), v),
           NEW g \in NodeState, CommitSound(G, A, com, g), g.role # "Leader",
           NEW m \in AppendRequest, g.currentTerm = m.term,
           m.leaderCommit <= Len(com), Settled(G, A, G[m.term], m.leaderCommit, m.term),
           Agree(G[m.term], g.log, m.prevLogIndex + Len(m.entries))
    PROVE  LET r == FollowerCommit(g, m)
           IN  /\ CommitSound(G, A, com, r)
               /\ r.log = g.log /\ r.currentTerm = g.currentTerm /\ r.role = g.role
  <1>. DEFINE p == m.prevLogIndex + Len(m.entries)
              c == IF p < m.leaderCommit THEN p ELSE m.leaderCommit
              t == m.term
              a == ApplyCommitted([g EXCEPT !.commitIndex = c])
  <1>1. /\ m.leaderCommit \in Nat /\ p \in Nat /\ t \in Nat /\ g.commitIndex \in Nat
        /\ g.log \in Log /\ Len(com) \in Nat
    BY LogLength DEF AppendRequest, NodeState
  <1>2. FollowerCommit(g, m) = IF c > g.commitIndex THEN a ELSE g
    BY Zenon DEF FollowerCommit
  <1>3. c \in Nat /\ c <= p /\ c <= m.leaderCommit
    BY <1>1
  <1>4. G[t] \in Log /\ G \in [Nat -> Log]
    BY <1>1 DEF GhostType
  <1>. HIDE DEF c, p
  <1>5. Settled(G, A, G[t], c, t)
    <2>1. CASE c = 0
      BY <2>1 DEF Settled
    <2>2. CASE c # 0
      <3>1. PICK s \in Nat, k \in Nat :
               /\ s <= t /\ m.leaderCommit <= k
               /\ Own(G, s, k) /\ Chosen(A, s, k) /\ Agree(G[t], G[s], m.leaderCommit)
        BY <1>1, <1>3, <2>2, SMTT(30) DEF Settled
      <3>2. c <= k /\ Agree(G[t], G[s], c)
        BY <1>1, <1>3, <3>1, GhostValues, SMTT(30) DEF Agree
      <3>. QED BY <3>1, <3>2 DEF Settled
    <2>. QED BY <2>1, <2>2
  <1>6. Agree(G[t], g.log, c)
    <2>1. Agree(G[t], g.log, p)
      BY DEF p
    <2>2. Len(G[t]) \in Nat /\ Len(g.log) \in Nat
      BY <1>1, <1>4, LogLength
    <2>. QED BY <1>1, <1>3, <2>1, <2>2 DEF Agree
  <1>7. Settled(G, A, g.log, c, t)
    BY <1>1, <1>3, <1>4, <1>5, <1>6, SettledCopies
  <1>8. CASE c > g.commitIndex
    <2>1. /\ a.role = g.role /\ a.currentTerm = g.currentTerm /\ a.log = g.log
      BY <1>3, ApplyCommittedFields
    <2>2. CommitSound(G, A, Longest(com, a), a)
      <3>1. g.commitIndex <= c /\ c <= Len(com)
        BY <1>1, <1>3, <1>8
      <3>. QED BY <1>3, <1>7, <3>1, CommitKeeps
    <2>3. Longest(com, a) = com
      BY <2>1 DEF Longest
    <2>. QED BY <1>2, <1>8, <2>1, <2>2, <2>3
  <1>9. CASE ~(c > g.commitIndex)
    BY <1>2, <1>9
  <1>. QED BY <1>8, <1>9

\* Whether the batch passes the consistency check and is stored.
Accepts(n, m) ==
    LET f == AcceptLeader(n, m)
    IN  PrevMatches(f, m) /\ Unstored(Reconcile(f, m), m) = {}

\* A batch of the leader of m.term arrives at a node that is not that leader.
Arrives(G, n, m) ==
    /\ G \in [Nat -> Log] /\ Backed(G, G[m.term]) /\ Backed(G, n.log)
    /\ Carries(m, G[m.term]) /\ IsSaved(n) /\ n.currentTerm <= m.term
    /\ ~(n.role = "Leader" /\ n.currentTerm = m.term)

\* HandleAppendEntries on the log, wherever it is cut short: a log that changed
\* lies under the term of the leader.
LEMMA HandleAppendEntriesLog ==
    ASSUME NEW G, NEW n \in NodeState, NEW m \in AppendRequest, Arrives(G, n, m)
    PROVE  LET r == HandleAppendEntries(n, m)
               h == Reconcile(AcceptLeader(n, m), m)
           IN  /\ r.currentTerm = m.term /\ r.role = "Follower"
               /\ Reconciled(n.log, r.log, G[m.term])
               /\ r.log = n.log \/ r.diskTerm = m.term
               /\ ~Accepts(n, m) =>
                     SameCommit(n, r) /\ \A k \in r.out : k.type = "AppendEntriesResponse" /\ ~k.success
               /\ Accepts(n, m) =>
                     /\ h \in NodeState /\ h.currentTerm = m.term /\ h.role # "Leader"
                     /\ SameCommit(n, h) /\ r.log = h.log
                     /\ Agree(G[m.term], r.log, m.prevLogIndex + Len(m.entries))
                     /\ r = AppendReply(FollowerCommit(h, m), m, TRUE)
  <1>. DEFINE X == G[m.term]
              f == AcceptLeader(n, m)
              g == Reconcile(f, m)
              h == FollowerCommit(g, m)
              r == HandleAppendEntries(n, m)
  <1>0. /\ G \in [Nat -> Log] /\ Backed(G, X) /\ Backed(G, n.log) /\ Carries(m, X)
        /\ IsSaved(n) /\ n.currentTerm <= m.term /\ ~(n.role = "Leader" /\ n.currentTerm = m.term)
    BY DEF Arrives
  <1>1. m.term \in Nat /\ n.currentTerm \in Nat /\ X \in Log
    BY <1>0, BatchValues DEF NodeState
  <1>2. f \in NodeState /\ g \in NodeState /\ h \in NodeState
    BY AcceptLeaderType, ReconcileType, FollowerCommitType
  <1>3. /\ f.log = n.log /\ SameCommit(n, f) /\ f.out = n.out
        /\ f.currentTerm = m.term /\ f.role = "Follower"
        /\ CanWrite(f) => f.diskTerm = m.term
    BY <1>0, AcceptLeaderFields
  <1>4. r = IF ~PrevMatches(f, m) THEN AppendReply(f, m, FALSE)
            ELSE IF Unstored(g, m) # {} THEN AppendReply(g, m, FALSE)
            ELSE AppendReply(h, m, TRUE)
    <2>1. ~(m.term < n.currentTerm)
      BY <1>0, <1>1
    <2>. QED BY <2>1, Zenon DEF HandleAppendEntries
  <1>5. Accepts(n, m) <=> PrevMatches(f, m) /\ Unstored(g, m) = {}
    BY Zenon DEF Accepts
  <1>6. /\ g.currentTerm = f.currentTerm /\ g.role = f.role /\ SameCommit(f, g)
        /\ g.diskTerm = f.diskTerm
    <2>1. Calm(f, g)
      BY <1>2, ReconcileCalm
    <2>2. SameCommit(f, g)
      <3>. HIDE DEF f
      <3>1. \A q \in NodeState : \A e : SameCommit(q, AppendEntries(q, e))
        BY DEF AppendEntries, NodeState, SameCommit
      <3>2. \A q \in NodeState : \A k : SameCommit(q, TruncateFrom(q, k))
        BY DEF TruncateFrom, NodeState, SameCommit
      <3>3. \A q \in NodeState : \A k, e : SameCommit(q, AppendEntries(TruncateFrom(q, k), e))
        BY DEF AppendEntries, TruncateFrom, NodeState, SameCommit, CanWrite
      <3>4. SameCommit(f, f)
        BY DEF SameCommit
      <3>. QED BY <1>2, <3>1, <3>3, <3>4, Zenon DEF Reconcile
    <2>. QED BY <2>1, <2>2 DEF Calm
  <1>7. PrevMatches(f, m) => Reconciled(f.log, g.log, X) /\ (~CanWrite(f) => g.log = f.log)
    BY <1>0, <1>1, <1>2, <1>3, ReconcileLog
  <1>8. PrevMatches(f, m) /\ Unstored(g, m) = {} => Agree(X, g.log, m.prevLogIndex + Len(m.entries))
    BY <1>0, <1>1, <1>2, <1>3, <1>7, StoredWhole
  <1>9. /\ h.currentTerm = g.currentTerm /\ h.role = g.role /\ h.diskTerm = g.diskTerm
        /\ h.log = g.log
    <2>1. Calm(g, h)
      BY <1>2, FollowerCommitCalm
    <2>2. h.log = g.log
      <3>. HIDE DEF g
      <3>. QED BY <1>2 DEF FollowerCommit, ApplyCommitted, NodeState
    <2>. QED BY <2>1, <2>2 DEF Calm
  <1>10. ASSUME NEW q \in NodeState, NEW ok
         PROVE  LET a == AppendReply(q, m, ok)
                IN  /\ a.log = q.log /\ SameCommit(q, a) /\ a.currentTerm = q.currentTerm
                    /\ a.role = q.role /\ a.diskTerm = q.diskTerm
                    /\ \A k \in a.out : k.type = "AppendEntriesResponse" /\ k.success = ok
    BY DEF AppendReply, NodeState, SameCommit
  <1>. HIDE DEF f, g, h, r
  <1>11. CASE ~PrevMatches(f, m)
    <2>1. /\ r.log = f.log /\ SameCommit(f, r) /\ r.currentTerm = f.currentTerm
          /\ r.role = f.role
          /\ \A k \in r.out : k.type = "AppendEntriesResponse" /\ ~k.success
      BY <1>2, <1>4, <1>10, <1>11
    <2>2. Reconciled(n.log, r.log, X) /\ SameCommit(n, r)
      BY <1>3, <2>1 DEF Reconciled, SameCommit
    <2>. QED BY <1>3, <1>5, <1>11, <2>1, <2>2 DEF r
  <1>12. CASE PrevMatches(f, m) /\ Unstored(g, m) # {}
    <2>1. /\ r.log = g.log /\ SameCommit(g, r) /\ r.currentTerm = g.currentTerm
          /\ r.role = g.role /\ r.diskTerm = g.diskTerm
          /\ \A k \in r.out : k.type = "AppendEntriesResponse" /\ ~k.success
      BY <1>2, <1>4, <1>10, <1>12
    <2>2. Reconciled(n.log, r.log, X) /\ SameCommit(n, r)
      BY <1>3, <1>6, <1>7, <1>12, <2>1 DEF SameCommit
    <2>3. r.log = n.log \/ r.diskTerm = m.term
      BY <1>3, <1>6, <1>7, <1>12, <2>1
    <2>. QED BY <1>3, <1>5, <1>6, <1>12, <2>1, <2>2, <2>3 DEF r
  <1>13. CASE PrevMatches(f, m) /\ Unstored(g, m) = {}
    <2>1. /\ r = AppendReply(h, m, TRUE)
          /\ r.log = h.log /\ r.currentTerm = h.currentTerm
          /\ r.role = h.role /\ r.diskTerm = h.diskTerm
      BY <1>2, <1>4, <1>10, <1>13
    <2>2. Reconciled(n.log, r.log, X) /\ (r.log = n.log \/ r.diskTerm = m.term)
      BY <1>3, <1>6, <1>7, <1>9, <1>13, <2>1
    <2>3. SameCommit(n, g)
      BY <1>3, <1>6 DEF SameCommit
    <2>4. Agree(X, r.log, m.prevLogIndex + Len(m.entries))
      BY <1>8, <1>9, <1>13, <2>1
    <2>5. r.currentTerm = m.term /\ r.role = "Follower" /\ g.currentTerm = m.term /\ g.role # "Leader"
          /\ r.log = g.log
      BY <1>3, <1>6, <1>9, <2>1
    <2>. QED BY <1>2, <1>5, <1>13, <2>1, <2>2, <2>3, <2>4, <2>5, Zenon DEF r, h, g, f
  <1>. QED BY <1>11, <1>12, <1>13

\* The ghosts after node i, asked by m, acknowledged the batch or did not.
Acknowledges(G, A, T, B, U, i, n, m) ==
    LET t == m.term
        p == m.prevLogIndex + Len(m.entries)
    IN  /\ GhostType(G, A, T) /\ GhostType(G, B, U) /\ Grows(G, A, T, G, B, U)
        /\ GhostSound(G, A, T) /\ GhostSound(G, B, U)
        /\ \A s \in Nat : s # t => B[i][s] = A[i][s]
        /\ ~Accepts(n, m) => B[i][t] = A[i][t]
        /\ Accepts(n, m) => p <= B[i][t] /\ (B[i][t] = A[i][t] \/ B[i][t] = p)

\* All that HandleAppendEntries sends is the answer to its caller.
LEMMA HandleAppendEntriesOut ==
    ASSUME NEW n \in NodeState, NEW m \in AppendRequest
    PROVE  \A k \in HandleAppendEntries(n, m).out :
              k.type = "AppendEntriesResponse" /\ k.caller = m.caller /\ k.peer = m.peer
  <1>1. ASSUME NEW q \in NodeState, NEW ok
        PROVE  \A k \in AppendReply(q, m, ok).out :
                  k.type = "AppendEntriesResponse" /\ k.caller = m.caller /\ k.peer = m.peer
    BY DEF AppendReply, NodeState
  <1>. DEFINE f == AcceptLeader(n, m)
              g == Reconcile(f, m)
              h == FollowerCommit(g, m)
  <1>2. f \in NodeState /\ g \in NodeState /\ h \in NodeState
    BY AcceptLeaderType, ReconcileType, FollowerCommitType
  <1>. HIDE DEF f, g, h
  <1>. QED BY <1>1, <1>2, Zenon DEF HandleAppendEntries, h, g, f

\* HandleAppendEntries keeps the node sound, and answers no more than is true.
LEMMA HandleAppendEntriesSound ==
    ASSUME NEW G, NEW A, NEW T, NEW B, NEW U, NEW com \in Log, NEW v \in Nat,
           Settled(G, A, com, Len(com), v), NEW i \in Node, NEW n \in NodeState,
           NodeSound(G, A, T, com, i, n), T[i] = n.currentTerm,
           NEW m \in AppendRequest, m.peer = i, m.caller # m.peer, m.type = "AppendEntries",
           AppendSound(G, A, com, m), Arrives(G, n, m), Acknowledges(G, A, T, B, U, i, n, m)
    PROVE  LET r == HandleAppendEntries(n, m)
           IN  /\ NodeSound(G, B, U, com, i, r)
               /\ SendsSound(G, B, com, i, r)
  <1>. DEFINE t == m.term
              p == m.prevLogIndex + Len(m.entries)
              r == HandleAppendEntries(n, m)
              g == Reconcile(AcceptLeader(n, m), m)
              h == FollowerCommit(g, m)
  <1>1. /\ GhostType(G, A, T) /\ GhostType(G, B, U) /\ Grows(G, A, T, G, B, U)
        /\ GhostSound(G, A, T) /\ GhostSound(G, B, U)
        /\ \A s \in Nat : s # t => B[i][s] = A[i][s]
        /\ ~Accepts(n, m) => B[i][t] = A[i][t]
        /\ Accepts(n, m) => p <= B[i][t] /\ (B[i][t] = A[i][t] \/ B[i][t] = p)
    BY Zenon DEF Acknowledges
  <1>2. /\ r.currentTerm = t /\ r.role # "Leader"
        /\ Reconciled(n.log, r.log, G[t])
        /\ ~Accepts(n, m) =>
              SameCommit(n, r) /\ \A k \in r.out : k.type = "AppendEntriesResponse" /\ ~k.success
        /\ Accepts(n, m) =>
              /\ g \in NodeState /\ g.currentTerm = t /\ g.role # "Leader"
              /\ SameCommit(n, g) /\ r.log = g.log
              /\ Agree(G[t], r.log, p)
              /\ r = AppendReply(h, m, TRUE)
    BY HandleAppendEntriesLog
  <1>3. r \in NodeState
    BY HandleAppendEntriesType
  <1>a. \A k \in r.out : k.type = "AppendEntriesResponse" /\ k.caller # k.peer
    BY HandleAppendEntriesOut
  <1>4. t \in Nat /\ p \in Nat /\ n.currentTerm <= t /\ n.currentTerm \in Nat /\ n.log \in Log
        /\ r.log \in Log /\ n.commitIndex \in Nat /\ G[t] \in Log
    <2>1. t \in Nat /\ p \in Nat
      BY BatchValues
    <2>2. n.currentTerm <= t
      BY DEF Arrives
    <2>3. n.currentTerm \in Nat /\ n.log \in Log /\ r.log \in Log /\ n.commitIndex \in Nat
      BY <1>3 DEF NodeState
    <2>. QED BY <1>1, <2>1, <2>2, <2>3, GhostValues
  <1>. HIDE DEF r, g
  <1>5. LogHeld(G, B, U, i, r.log, r.currentTerm)
    <2>1. LogHeld(G, A, T, i, n.log, T[i])
      BY DEF NodeSound
    <2>2. B[i][t] = A[i][t] \/ Agree(G[t], r.log, B[i][t])
      BY <1>1, <1>2
    <2>3. T[i] <= t
      BY <1>4
    <2>. QED BY <1>1, <1>2, <1>4, <2>1, <2>2, <2>3, HeldReconciles
  <1>6. LeaderSound(G, B, i, r)
    BY <1>2 DEF LeaderSound
  <1>7. ASSUME NEW q \in NodeState, q.log = r.log, q.currentTerm = t, SameCommit(n, q)
        PROVE  CommitSound(G, B, com, q)
    <2>1. Agree(com, com, Len(com))
      BY AgreeRefl, LogLength
    <2>2. CommitSound(G, B, com, n)
      BY <1>1, <2>1, CommitGrows DEF NodeSound
    <2>3. Settled(G, B, r.log, n.commitIndex, t)
      BY <1>1, <1>2, <1>4, <2>2, SettledReconciles DEF CommitSound
    <2>. QED BY <1>7, <2>2, <2>3 DEF CommitSound, SameCommit
  <1>8. CASE ~Accepts(n, m)
    <2>1. CommitSound(G, B, com, r)
      BY <1>2, <1>3, <1>7, <1>8
    <2>2. SendsSound(G, B, com, i, r)
      BY <1>2, <1>a, <1>8 DEF SendsSound, AppendSound
    <2>. QED BY <1>5, <1>6, <2>1, <2>2 DEF NodeSound, r
  <1>9. CASE Accepts(n, m)
    <2>1. CommitSound(G, B, com, g)
      BY <1>2, <1>7, <1>9
    <2>2. m.leaderCommit <= Len(com) /\ Settled(G, B, G[t], m.leaderCommit, t)
      <3>1. m.leaderCommit <= Len(com) /\ Settled(G, A, G[t], m.leaderCommit, t)
        BY DEF AppendSound
      <3>2. m.leaderCommit \in Nat
        BY BatchValues
      <3>. QED BY <1>1, <1>4, <3>1, <3>2, SettledGrows
    <2>3. Settled(G, B, com, Len(com), v)
      BY <1>1, SettledGrows, LogLength
    <2>4. CommitSound(G, B, com, h) /\ h.log = r.log /\ h.currentTerm = t
      BY <1>1, <1>2, <1>9, <2>1, <2>2, <2>3, FollowerCommitSound
    <2>5. h \in NodeState
      BY <1>2, <1>9, FollowerCommitType
    <2>. HIDE DEF h
    <2>6. /\ r.log = h.log /\ SameCommit(h, r) /\ r.currentTerm = h.currentTerm
          /\ \A k \in r.out : /\ k.type = "AppendEntriesResponse"
                              /\ k.peer = m.peer /\ k.reqTerm = m.term
                              /\ k.prevLogIndex = m.prevLogIndex
                              /\ k.numEntries = Len(m.entries)
      <3>1. r = AppendReply(h, m, TRUE)
        BY <1>2, <1>9
      <3>. DEFINE a == AppendReply(h, m, TRUE)
      <3>2. /\ a.log = h.log /\ SameCommit(h, a) /\ a.currentTerm = h.currentTerm
            /\ \A k \in a.out : /\ k.type = "AppendEntriesResponse"
                                /\ k.peer = m.peer /\ k.reqTerm = m.term
                                /\ k.prevLogIndex = m.prevLogIndex
                                /\ k.numEntries = Len(m.entries)
        BY <2>5, SMTT(30) DEF AppendReply, NodeState, SameCommit
      <3>. QED BY <3>1, <3>2
    <2>7. CommitSound(G, B, com, r)
      BY <2>4, <2>6 DEF CommitSound, SameCommit
    <2>8. SendsSound(G, B, com, i, r)
      BY <1>1, <1>a, <1>9, <2>6 DEF SendsSound, AppendSound
    <2>. QED BY <1>5, <1>6, <2>7, <2>8 DEF NodeSound, r
  <1>. QED BY <1>8, <1>9

\* A batch of an earlier term is refused.
LEMMA RefusalStill ==
    ASSUME NEW n \in NodeState, NEW m \in AppendRequest, m.term < n.currentTerm
    PROVE  LET r == HandleAppendEntries(n, m)
           IN  /\ Still(n, r)
               /\ \A k \in r.out : k.type = "AppendEntriesResponse" /\ ~k.success
  <1>1. HandleAppendEntries(n, m) = AppendReply(n, m, FALSE)
    BY Zenon DEF HandleAppendEntries
  <1>2. \A j \in Node : n.nextIndex[j] \in Nat
    BY DEF NodeState, Indexes
  <1>. QED BY <1>1, <1>2 DEF AppendReply, NodeState, Still

-----------------------------------------------------------------------------
(* The leader hears from a follower.                                         *)

\* A success moves matchIndex up to what the peer acknowledged.
LEMMA AdvancedSound ==
    ASSUME NEW G, NEW A, NEW T, GhostType(G, A, T), GhostSound(G, A, T), NEW com,
           NEW i \in Node, NEW n \in NodeState, NodeSound(G, A, T, com, i, n),
           n.role = "Leader", NEW j \in Node, j # i, NEW match \in Nat,
           match <= A[j][n.currentTerm]
    PROVE  NodeSound(G, A, T, com, i,
                     [n EXCEPT !.nextIndex[j] = IF match + 1 > @ THEN match + 1 ELSE @,
                               !.matchIndex[j] = IF match > @ THEN match ELSE @])
  <1>. DEFINE t == n.currentTerm
              a == [n EXCEPT !.nextIndex[j] = IF match + 1 > @ THEN match + 1 ELSE @,
                             !.matchIndex[j] = IF match > @ THEN match ELSE @]
  <1>1. t \in Nat /\ n.log \in Log /\ Len(n.log) \in Nat
        /\ n.nextIndex \in [Node -> Nat] /\ n.matchIndex \in [Node -> Nat]
    BY LogLength DEF NodeState, Indexes
  <1>2. \A k \in Node : A[k][t] \in Nat /\ A[k][t] <= Len(G[t])
    BY <1>1, GhostValues DEF GhostSound
  <1>3. /\ n.log = G[t] /\ n.log # <<>> /\ A[i][t] = Len(n.log) /\ n.matchIndex[i] = 0
        /\ \A k \in Node : n.matchIndex[k] <= A[k][t] /\ n.nextIndex[k] <= Len(n.log) + 1
    BY DEF NodeSound, LeaderSound
  <1>4. /\ a.role = n.role /\ a.currentTerm = t /\ a.log = n.log /\ SameCommit(n, a)
        /\ a.nextIndex = [n.nextIndex EXCEPT ![j] = IF match + 1 > @ THEN match + 1 ELSE @]
        /\ a.matchIndex = [n.matchIndex EXCEPT ![j] = IF match > @ THEN match ELSE @]
    BY DEF NodeState, SameCommit
  <1>. HIDE DEF a
  <1>5. a.matchIndex[i] = 0
    BY <1>1, <1>3, <1>4
  <1>6. \A k \in Node : a.matchIndex[k] <= A[k][t]
    BY <1>1, <1>2, <1>3, <1>4
  <1>7. \A k \in Node : a.nextIndex[k] <= Len(n.log) + 1
    <2>1. match <= Len(n.log)
      BY <1>1, <1>2, <1>3
    <2>. QED BY <1>1, <1>3, <1>4, <2>1
  <1>8. LeaderSound(G, A, i, a)
    BY <1>3, <1>4, <1>5, <1>6, <1>7 DEF LeaderSound
  <1>9. CommitSound(G, A, com, a)
    BY <1>4 DEF NodeSound, CommitSound, SameCommit
  <1>10. LogHeld(G, A, T, i, a.log, a.currentTerm)
    BY <1>4 DEF NodeSound
  <1>11. NodeSound(G, A, T, com, i, a)
    BY <1>8, <1>9, <1>10 DEF NodeSound
  <1>. QED BY <1>11 DEF a

\* The answer to AppendEntries at a node that may still be the leader that
\* asked.  Either it is like a harmless step, or a leader stays sound.
LEMMA HandleAppendEntriesResponseSound ==
    ASSUME NEW G, NEW A, NEW T, GhostType(G, A, T), GhostSound(G, A, T), NEW com \in Log,
           NEW v \in Nat, Settled(G, A, com, Len(com), v), NEW i \in Node, NEW n \in NodeState,
           NodeSound(G, A, T, com, i, n), n.out = {},
           NEW m \in AppendResponse, m.peer # i, AppendSound(G, A, com, m)
    PROVE  LET r == HandleAppendEntriesResponse(i, n, m)
           IN  \/ Still(n, r) /\ r.out = {}
               \/ /\ r.currentTerm = n.currentTerm
                  /\ NodeSound(G, A, T, Longest(com, r), i, r)
                  /\ SendsSound(G, A, Longest(com, r), i, r)
  <1>. DEFINE j == m.peer
              match == m.prevLogIndex + m.numEntries
              advanced == [n EXCEPT !.nextIndex[j] = IF match + 1 > @ THEN match + 1 ELSE @,
                                    !.matchIndex[j] = IF match > @ THEN match ELSE @]
              retreated == [n EXCEPT !.nextIndex[j] = @ - 1]
              r == HandleAppendEntriesResponse(i, n, m)
  <1>1. /\ m.type = "AppendEntriesResponse" /\ m.term \in Nat /\ j \in Node /\ match \in Nat
        /\ m.reqTerm \in Nat
    BY DEF AppendResponse
  <1>2. CASE m.term > n.currentTerm
    <2>1. r = CheckTerm(n, m.term)
      BY <1>2 DEF HandleAppendEntriesResponse
    <2>. QED BY <1>1, <2>1, CheckTermStill
  <1>3. CASE ~(m.term > n.currentTerm) /\ (n.role # "Leader" \/ n.currentTerm # m.reqTerm)
    <2>1. r = n
      BY <1>3 DEF HandleAppendEntriesResponse
    <2>. QED BY <2>1, StillRefl
  <1>4. CASE /\ ~(m.term > n.currentTerm) /\ n.role = "Leader" /\ n.currentTerm = m.reqTerm
             /\ m.success
    <2>1. r = CheckAndUpdateCommitIndex(advanced)
      BY <1>4, Zenon DEF HandleAppendEntriesResponse
    <2>2. advanced \in NodeState
      BY ResponseType
    <2>3. match <= A[j][n.currentTerm]
      BY <1>1, <1>4 DEF AppendSound
    <2>4. NodeSound(G, A, T, com, i, advanced)
      BY <1>1, <1>4, <2>3, AdvancedSound
    <2>5. advanced.currentTerm = n.currentTerm /\ advanced.out = {}
      BY DEF NodeState
    <2>. HIDE DEF advanced, r
    <2>6. /\ NodeSound(G, A, T, Longest(com, r), i, r)
          /\ r.currentTerm = n.currentTerm /\ r.out = {}
      BY <2>1, <2>2, <2>4, <2>5, CheckAndUpdateCommitIndexSound
    <2>. QED BY <2>6 DEF SendsSound, r
  <1>5. CASE /\ ~(m.term > n.currentTerm) /\ n.role = "Leader" /\ n.currentTerm = m.reqTerm
             /\ ~m.success /\ n.nextIndex[j] > 1
    <2>1. r = SendAppendEntries(i, retreated, {j})
      BY <1>5, Zenon DEF HandleAppendEntriesResponse
    <2>2. retreated \in NodeState
      BY <1>5, ResponseType
    <2>3. /\ retreated.role = n.role /\ retreated.currentTerm = n.currentTerm
          /\ retreated.log = n.log /\ SameCommit(n, retreated)
          /\ retreated.out = {}
          /\ retreated.matchIndex = n.matchIndex
          /\ retreated.nextIndex = [n.nextIndex EXCEPT ![j] = @ - 1]
      BY DEF NodeState, SameCommit
    <2>4. n.nextIndex \in [Node -> Nat] /\ Len(n.log) \in Nat
      BY LogLength DEF NodeState, Indexes
    <2>. HIDE DEF retreated, r
    <2>5. \A k \in Node : retreated.nextIndex[k] <= Len(n.log) + 1
      <3>1. \A k \in Node : n.nextIndex[k] <= Len(n.log) + 1
        BY <1>5 DEF NodeSound, LeaderSound
      <3>. QED BY <1>1, <2>3, <2>4, <3>1
    <2>6. NodeSound(G, A, T, com, i, retreated) /\ SendsSound(G, A, com, i, retreated)
      BY <2>3, <2>5 DEF NodeSound, LeaderSound, CommitSound, SameCommit, SendsSound
    <2>7. {j} \in SUBSET Peers(i)
      BY <1>1 DEF Peers
    <2>8. /\ NodeSound(G, A, T, com, i, r) /\ SendsSound(G, A, com, i, r)
          /\ r.currentTerm = n.currentTerm /\ r.commitIndex = n.commitIndex
      BY <2>1, <2>2, <2>3, <2>6, <2>7, SendAppendEntriesSound DEF SameCommit
    <2>9. Longest(com, r) = com
      <3>1. n.commitIndex <= Len(com) /\ n.commitIndex \in Nat /\ Len(com) \in Nat
        BY LogLength DEF NodeSound, CommitSound, NodeState
      <3>. QED BY <2>8, <3>1 DEF Longest
    <2>. QED BY <2>8, <2>9 DEF r
  <1>6. CASE /\ ~(m.term > n.currentTerm) /\ n.role = "Leader" /\ n.currentTerm = m.reqTerm
             /\ ~m.success /\ ~(n.nextIndex[j] > 1)
    <2>1. r = n
      BY <1>6, Zenon DEF HandleAppendEntriesResponse
    <2>. QED BY <2>1, StillRefl
  <1>. QED BY <1>2, <1>3, <1>4, <1>5, <1>6
==============================================================================
