----------------------------- MODULE MCCatchUp ------------------------------
(***************************************************************************)
(* Replication under a leader that stays.  One node won term 1 and         *)
(* committed its no-op everywhere, then won terms 2 and 3 and stored their *)
(* no-ops alone; another won term 4 and committed its no-op with the third *)
(* one's vote.  All crashed, and it has just won term 5 in the same way.   *)
(* The first node comes back with two entries that contradict the leader.  *)
(* Calls may be lost.  A link that is used again and again works again and *)
(* again.                                                                  *)
(***************************************************************************)
EXTENDS MCRaftra

\* Which node plays which part.
Cast == CHOOSE who \in Orders : TRUE
Returning == Cast[1]
Lead == Cast[2]
Voter == Cast[3]

\* The winner, as campaignLocked and becomeLeader leave it.
Winner ==
    LET candidate == [NewRaftNode([diskTerm |-> 5, diskVote |-> Lead, log |-> <<E(1), E(4)>>])
                         EXCEPT !.role = "Candidate", !.votesReceived = 2]
    IN  [BecomeLeader(Lead, candidate) EXCEPT !.quota = MaxWrites, !.out = {}]

ElectedInit ==
    /\ node = [i \in Node |->
          CASE i = Lead -> Winner
            [] i = Voter -> NewRaftNode([diskTerm |-> 5, diskVote |-> Lead,
                                         log |-> <<E(1), E(4)>>])
            [] i = Returning -> NewRaftNode([diskTerm |-> 3, diskVote |-> Returning,
                                             log |-> <<E(1), E(2), E(3)>>])]
    /\ ballots = {[voter |-> i, term |-> 5, candidate |-> Lead] : i \in {Lead, Voter}}
    /\ elected = {[term |-> 5, leader |-> Lead]}
    /\ committed = <<E(1), E(4)>>
    /\ rpcs = {}
    /\ outcome = [c \in Command |-> "new"]
    /\ crashes = 0

\* No node crashes and no election timer fires; the five seconds of a proposal
\* are long.
ReplicationNext ==
    \/ \E i \in Node : HeartbeatTimeout(i)
    \/ \E m \in rpcs : \/ ReceiveAppendEntries(m)
                       \/ ReceiveAppendEntriesResponse(m)
                       \/ CallFails(m)
    \/ \E i \in Node, c \in Command : \/ Propose(i, c)
                                      \/ ProposeReturns(i, c)

\* The handler of node i that leaves n completes.
Handles(i, n, handled) == \E result \in {n} : Completes(i, result, handled, outcome)

\* A heartbeat's call to j gets as far as the network.
Calls(j) ==
    /\ Handles(Lead, BroadcastAppendEntries(Lead, node[Lead]), {})
    /\ \E m \in rpcs' \ rpcs : m.peer = j

Reaches(j) ==
    \E m \in rpcs : /\ m.peer = j /\ m.type = "AppendEntries"
                    /\ Handles(j, HandleAppendEntries(node[j], m), {m})

Answers(j) ==
    \E m \in rpcs : /\ m.peer = j /\ m.type = "AppendEntriesResponse"
                    /\ Handles(Lead, HandleAppendEntriesResponse(Lead, node[Lead], m), {m})

CatchUpSpec ==
    /\ ElectedInit
    /\ [][ReplicationNext]_vars
    /\ \A j \in {Returning, Voter} :
          SF_vars(Calls(j)) /\ SF_vars(Reaches(j)) /\ SF_vars(Answers(j))
    /\ \A c \in Command : WF_vars(ProposeReturns(Lead, c))

\* sendAppendEntriesToPeerLocked and its retries: whatever calls are lost and
\* however late refusals arrive, in the end every log is the leader's and every
\* node has applied all of it.
LogsConverge ==
    <>[](\A i, j \in Node : /\ node[i].log = node[j].log
                            /\ node[i].lastApplied = Len(node[i].log))

\* ProposeCommand: a client that waits long enough on a leader that stays gets
\* its answer, and it is a success.
ProposalsAnswered ==
    \A c \in Command : outcome[c] = "waiting" ~> outcome[c] = "ok"
=============================================================================
