------------------------------ MODULE MCRaftra ------------------------------
(***************************************************************************)
(* Raftra for TLC, from an empty cluster and from clusters that restart    *)
(* with logs that earlier elections have left in disagreement.             *)
(***************************************************************************)
EXTENDS Raftra

Symmetry == Permutations(Node) \cup Permutations(Command)

-----------------------------------------------------------------------------
(* Restarts.  Every process of the cluster has been killed and starts again  *)
(* from its disk.  A past is one way three nodes can have got there.         *)

E(t) == [term |-> t, command |-> NoOp]
Disk(t, v, log) == [term |-> t, vote |-> v, log |-> log]

\* The first node won term 1 and committed its no-op everywhere; it won term 2
\* and stored its no-op and the command c alone; the third one won term 3 with
\* the second one's vote and stored its no-op alone.
Contested(c) ==
    [disks |-> <<Disk(2, 1, <<E(1), E(2), [term |-> 2, command |-> c]>>),
                 Disk(3, 3, <<E(1)>>), Disk(3, 3, <<E(1), E(3)>>)>>,
     committed |-> <<E(1)>>, leaders |-> <<1, 1, 3>>]

\* The first node won term 1 and committed its no-op everywhere; it won term 2
\* and stored its no-op and the command c alone; the second one won term 3 with
\* the third one's vote, and their no-op of term 3 is committed.
StaleTail(c) ==
    [disks |-> <<Disk(2, 1, <<E(1), E(2), [term |-> 2, command |-> c]>>),
                 Disk(3, 2, <<E(1), E(3)>>), Disk(3, 2, <<E(1), E(3)>>)>>,
     committed |-> <<E(1), E(3)>>, leaders |-> <<1, 1, 2>>]

\* The orders in which the nodes can play the first, second and third part.
Orders == {who \in [1..3 -> Node] : \A x, y \in 1..3 : x # y => who[x] # who[y]}

\* The cluster restarts after p happened to the nodes of who.
RestartFrom(p, who) ==
    LET disk(i) == p.disks[CHOOSE x \in 1..3 : who[x] = i]
    IN  /\ node = [i \in Node |-> NewRaftNode([diskTerm |-> disk(i).term,
                                               diskVote |-> who[disk(i).vote],
                                               log |-> disk(i).log])]
        /\ rpcs = {}
        /\ outcome = [c \in Command |->
              IF \E i \in Node : \E k \in 1..Len(disk(i).log) : disk(i).log[k].command = c
              THEN "failed" ELSE "new"]
        /\ crashes = 0
        /\ ballots = {[voter |-> i, term |-> disk(i).term, candidate |-> who[disk(i).vote]] :
                         i \in Node}
        /\ elected = {[term |-> t, leader |-> who[p.leaders[t]]] : t \in 1..Len(p.leaders)}
        /\ committed = p.committed

ContestedInit == \E who \in Orders, c \in Command : RestartFrom(Contested(c), who)

StaleTailInit == \E who \in Orders, c \in Command : RestartFrom(StaleTail(c), who)
StaleTailSpec == StaleTailInit /\ [][Next]_vars

-----------------------------------------------------------------------------
(* An established leader.  It won term t, its no-op is stored and committed  *)
(* everywhere and every follower has just heard from it.                     *)

Follows(i, t) ==
    [NewRaftNode([diskTerm |-> t, diskVote |-> i, log |-> <<E(t)>>])
        EXCEPT !.leaderID = i, !.leaderContact = TRUE, !.commitIndex = 1, !.lastApplied = 1]

Leads(i, t) ==
    [Follows(i, t) EXCEPT !.role = "Leader", !.leaderID = None, !.leaderContact = FALSE,
                          !.nextIndex = [j \in Node |-> IF j = i THEN 0 ELSE 2],
                          !.matchIndex = [j \in Node |-> IF j = i THEN 0 ELSE 1]]

EstablishedInit(t) ==
    /\ \E i \in Node :
          /\ node = [j \in Node |-> IF j = i THEN Leads(i, t) ELSE Follows(i, t)]
          /\ ballots = {[voter |-> j, term |-> t, candidate |-> i] : j \in Node}
          /\ elected = {[term |-> t, leader |-> i]}
    /\ committed = <<E(t)>>
    /\ rpcs = {}
    /\ outcome = [c \in Command |-> "new"]
    /\ crashes = 0

\* A leader of term 3 may lose its followers and be replaced; or the cluster is
\* contested.  Either way one more term is within the bounds.
TakeoverSpec == (EstablishedInit(3) \/ ContestedInit) /\ [][Next]_vars

\* At any time a majority, the leader included, hears from the leader.  It need
\* not always be the same one.
MajorityHears ==
    Cardinality({i \in Node : node[i].role = "Leader" \/ node[i].leaderContact}) >= Majority

StableNext == Next /\ MajorityHears'

StableSpec == EstablishedInit(1) /\ [][StableNext]_vars

\* handlePreVoteLocked and the staleness test of startElection; README, "a node
\* that was cut off, or just restarted and not yet reconnected, cannot bump the
\* term": while a majority hears from the leader, nobody else gets to raise a
\* term.
NoDisruption == \A i \in Node : node[i].currentTerm = 1
-----------------------------------------------------------------------------
\* becomeLeader in a cluster of one: the no-op commits at once, so a node that
\* restarts and leads again has everything in its log applied.
SoleLeaderServesLog ==
    \A i \in Node : node[i].role = "Leader" => node[i].lastApplied = LastIndex(node[i])
=============================================================================
