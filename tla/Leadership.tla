----------------------------- MODULE Leadership -----------------------------
(***************************************************************************)
(* Who leads, as the nodes of a cluster see it, without votes, logs or     *)
(* messages: what IsLeader, Term and LeaderID of internal/raft/raft.go     *)
(* return.  Raftra implements this module (Raftra!LeadershipPromise); Cli  *)
(* builds on it.                                                           *)
(***************************************************************************)
EXTENDS Integers

CONSTANTS Node, None

VARIABLES term,      \* Term() of each node
          leads,     \* the nodes whose IsLeader() is true
          leaderID,  \* the node that each node last took for its leader
          elected    \* history: every leader, with its term

view == <<term, leads, leaderID, elected>>

\* The cluster may be looked at first when it has had leaders: one in a term.
Init == /\ term \in [Node -> Nat]
        /\ leads \subseteq Node
        /\ leaderID \in [Node -> Node \cup {None}]
        /\ \A e, f \in elected : e.term = f.term => e = f
        /\ \A n \in leads : [term |-> term[n], leader |-> n] \in elected

\* checkTerm and campaignLocked: a later term ends a leadership.  leaderID
\* is not cleared.
Adopt(n, t) ==
    /\ t > term[n]
    /\ term' = [term EXCEPT ![n] = t]
    /\ leads' = leads \ {n}
    /\ UNCHANGED <<leaderID, elected>>

\* becomeLeader: at most one node in a term.  leaderID is not set.
Win(n, t) ==
    /\ n \notin leads /\ t >= term[n]
    /\ \A e \in elected : e.term # t
    /\ term' = [term EXCEPT ![n] = t]
    /\ leads' = leads \cup {n}
    /\ elected' = elected \cup {[term |-> t, leader |-> n]}
    /\ UNCHANGED leaderID

\* HandleAppendEntries of a leader that was elected in a term not yet past.
Follow(n, e) ==
    /\ e \in elected /\ e.leader # n /\ e.term >= term[n]
    /\ term' = [term EXCEPT ![n] = e.term]
    /\ leads' = leads \ {n}
    /\ leaderID' = [leaderID EXCEPT ![n] = e.leader]
    /\ UNCHANGED elected

\* NewRaftNode after a crash, perhaps in the middle of checkTerm: the term is
\* on disk, the leader is forgotten.
Restart(n, t) ==
    /\ t >= term[n]
    /\ term' = [term EXCEPT ![n] = t]
    /\ leads' = leads \ {n}
    /\ leaderID' = [leaderID EXCEPT ![n] = None]
    /\ UNCHANGED elected

Next == \E n \in Node :
           \/ LET t == term'[n]
              IN  t \in Nat /\ (Adopt(n, t) \/ Win(n, t) \/ Restart(n, t))
           \/ \E e \in elected : Follow(n, e)

Spec == Init /\ [][Next]_view

\* LeaderID: a node that leads names itself, whatever it last followed.
LeaderID(n) == IF n \in leads THEN n ELSE leaderID[n]
=============================================================================
