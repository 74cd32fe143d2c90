-------------------------------- MODULE Cli ---------------------------------
(***************************************************************************)
(* raftra-cli (cmd/raftra-cli: client.go, main.go) in front of a cluster:  *)
(* one user, the HTTP handlers of Gateway, and Leadership, which says what *)
(* each node answers when it is asked who leads.                           *)
(*                                                                         *)
(* The CLI sends a request to one node after the other.  It follows        *)
(* redirects, which may be out of date, and gives up an answer that does   *)
(* not come, while the handler that was to give it goes on.  The status    *)
(* command asks all nodes at once; a node's answer is put together from    *)
(* reads between which its role can change.                                *)
(***************************************************************************)
EXTENDS Gateway

CONSTANTS Addrs,         \* --addr: the nodes in the order the CLI tries them
          MaxRedirects,  \* maxRedirects
          MaxCycles,     \* how often budget lets it go round Addrs
          MaxCommands,   \* bound: commands in a behaviour
          MaxTerm        \* bound: terms

ASSUME CliAssumption ==
    /\ Addrs \in Seq(Node) /\ Addrs # <<>>
    /\ Method \subseteq {"GET", "PUT", "DELETE"}
    /\ {MaxRedirects, MaxCommands, MaxTerm} \subseteq Nat /\ MaxCycles \in Nat \ {0}

VARIABLES term, leaderID, elected,  \* with leads: Leadership
          cli,                      \* the command under way
          reports                   \* history: what the user was told

Leaders == INSTANCE Leadership

user == <<cli, reports>>
handlers == <<request, arrivals, answered>>
cliVars == <<vars, term, leaderID, elected, user>>

\* Node l won term 1 and the others follow it.
CliInit(l) ==
    /\ chosen = <<>> /\ held = [n \in Node |-> {}] /\ applied = [n \in Node |-> 0]
    /\ leads = {l} /\ leader = l /\ elections = 0 /\ crashes = 0
    /\ term = [n \in Node |-> 1] /\ elected = {[term |-> 1, leader |-> l]}
    /\ leaderID = [n \in Node |-> IF n = l THEN None ELSE l]
    /\ request = [c \in Client |-> Idle] /\ arrivals = 0 /\ answered = {}
    /\ cli = Idle /\ reports = <<>>

-----------------------------------------------------------------------------
(* get, set and delete: cluster.do and executeRequest.                       *)

\* One node leads, and every other node knows it.
Agreed == \E l \in leads : \A n \in Node \ {l} : n \notin leads /\ leaderID[n] = l

\* The request goes to the node at position k of Addrs.  settled: all agree
\* on the leader, and will while the attempt lasts.
Try(d, k) == [d EXCEPT !.pc = "dial", !.at = k, !.node = Addrs[k],
                       !.redirects = 0, !.settled = Agreed]

RunCommand(method, k) ==
    /\ cli = Idle /\ Len(reports) < MaxCommands
    /\ cli' = Try([pc |-> "dial", method |-> method, key |-> k, at |-> 1, node |-> None,
                   redirects |-> 0, cycle |-> 1, conn |-> None,
                   first |-> arrivals + 1, cuts |-> 0, settled |-> FALSE], 1)
    /\ UNCHANGED <<vars, term, leaderID, elected, reports>>

\* The attempt at a node brought no final answer: on to the next node, or to
\* the end of the round.
NextNode(d) == IF d.at < Len(Addrs) THEN Try(d, d.at + 1) ELSE [d EXCEPT !.pc = "pause"]

\* Mutant: an internal error is taken for one that passes.
RetryableError(status) == status \in {"unavailable", "error"}

\* 503: this node cannot answer right now.  502 and 504 come from a proxy and
\* are part of Unreached and Cut.
Retryable(status) == status = "unavailable"

\* Mutant: the request is repeated where it came from.
FollowRedirectBack(d, target) ==
    IF d.redirects < MaxRedirects THEN [d EXCEPT !.pc = "dial", !.redirects = @ + 1]
    ELSE NextNode(d)

\* executeRequest: after maxRedirects a further one is an error.
FollowRedirect(d, target) ==
    IF d.redirects < MaxRedirects
    THEN [d EXCEPT !.pc = "dial", !.redirects = @ + 1, !.node = target]
    ELSE NextNode(d)

\* Mutant: whatever was answered in the end counts as success.
SaysSuccess(method, status) == IF method = "GET" THEN "read" ELSE "committed"

\* handleGet, handleSet and handleDelete: what the user is told.
Says(method, status) ==
    IF status = "read" THEN "read" ELSE IF status = "ok" THEN "committed" ELSE "failed"

\* The command is over.
Report(status) ==
    /\ reports' = Append(reports, [said |-> Says(cli.method, status), status |-> status,
                                   method |-> cli.method, first |-> cli.first,
                                   last |-> arrivals, cuts |-> cli.cuts])
    /\ cli' = Idle

\* A response has arrived.
Response(status) ==
    CASE status = "redirect" ->
            cli' = FollowRedirect(cli, Leaders!LeaderID(cli.node)) /\ UNCHANGED reports
      [] Retryable(status) -> cli' = NextNode(cli) /\ UNCHANGED reports
      [] OTHER -> Report(status)

Awaits(h) == cli.pc = "await" /\ cli.conn = h

\* Connection h, if its handler has just finished.
Hears(h, status) == IF Awaits(h) /\ request'[h] = Idle THEN Response(status) ELSE UNCHANGED user

\* The request reaches a handler.
Dial(h) ==
    /\ cli.pc = "dial" /\ Arrive(h, cli.node, cli.method, cli.key)
    /\ cli' = [cli EXCEPT !.pc = "await", !.conn = h]
    /\ UNCHANGED <<term, leaderID, elected, reports>>

\* It does not: the connection is refused, or a proxy answers 502.
Unreached ==
    /\ cli.pc = "dial" /\ cli' = NextNode(cli)
    /\ UNCHANGED <<vars, term, leaderID, elected, reports>>

\* Timeout, a broken connection or a proxy's 504: the answer is not awaited any
\* more.  Its handler may just have begun.
Cut ==
    /\ cli.pc = "await" /\ cli' = NextNode([cli EXCEPT !.cuts = @ + 1])
    /\ UNCHANGED <<vars, term, leaderID, elected, reports>>

\* Mutant: the time that has passed is not looked at.
RetryForever == /\ cli.pc = "pause"
                /\ cli' = Try(cli, 1)
                /\ UNCHANGED <<vars, term, leaderID, elected, reports>>

\* Every node was tried: a pause and another round, if budget is left.
Retry == /\ cli.pc = "pause" /\ cli.cycle < MaxCycles
         /\ cli' = Try([cli EXCEPT !.cycle = @ + 1], 1)
         /\ UNCHANGED <<vars, term, leaderID, elected, reports>>

\* Slow attempts can use up the budget in any round.  The last response, or
\* the lack of one, is shown as a failure.
GiveUp == cli.pc = "pause" /\ Report("gaveUp") /\ UNCHANGED <<vars, term, leaderID, elected>>

-----------------------------------------------------------------------------
(* status: fetchStatuses, with the node's handleStatus, and leaderOf.        *)

RunStatus ==
    /\ cli = Idle /\ Len(reports) < MaxCommands
    /\ cli' = [pc |-> "status", settled |-> FALSE,
               st |-> [n \in ToSet(Addrs) |-> [read |-> "nothing"]]]
    /\ UNCHANGED <<vars, term, leaderID, elected, reports>>

\* Mutant: the role is read before the term.
ReadStatusRoleFirst(n, st) ==
    CASE st.read = "nothing" -> [read |-> "term", isLeader |-> n \in leads]
      [] st.read = "term" -> [read |-> "role", isLeader |-> st.isLeader, term |-> term[n]]
      [] st.read = "role" -> [read |-> "all", isLeader |-> st.isLeader, term |-> st.term,
                              leader |-> Leaders!LeaderID(n)]

\* handleStatus locks the node once for each value; these are the ones that the
\* CLI goes by, in the order of the code.
ReadStatus(n, st) ==
    CASE st.read = "nothing" -> [read |-> "term", term |-> term[n]]
      [] st.read = "term" -> [read |-> "role", term |-> st.term, isLeader |-> n \in leads]
      [] st.read = "role" -> [read |-> "all", term |-> st.term, isLeader |-> st.isLeader,
                              leader |-> Leaders!LeaderID(n)]

Reading(n) == cli.pc = "status" /\ n \in DOMAIN cli.st /\ cli.st[n].read \notin {"all", "lost"}

\* The handler of node n takes its next value, or its answer does not come.
HandleStatus(n) ==
    /\ Reading(n)
    /\ \E st \in {ReadStatus(n, cli.st[n]), [read |-> "lost"]} : cli' = [cli EXCEPT !.st[n] = st]
    /\ UNCHANGED <<vars, term, leaderID, elected, reports>>

Claims(st) == {n \in DOMAIN st : st[n].read = "all" /\ st[n].isLeader}

Position(n) == SelectInSeq(Addrs, LAMBDA a : a = n)

\* The claim of the highest term, of several the first in Addrs.
LeaderOf(st) ==
    CHOOSE n \in Claims(st) : \A m \in Claims(st) :
        \/ st[m].term < st[n].term
        \/ st[m].term = st[n].term /\ Position(n) <= Position(m)

ShowStatus ==
    /\ cli.pc = "status" /\ \A n \in DOMAIN cli.st : ~Reading(n)
    /\ reports' = Append(reports,
          IF \A n \in DOMAIN cli.st : cli.st[n].read = "lost" THEN [said |-> "noAnswer"]
          ELSE IF Claims(cli.st) = {} THEN [said |-> "noLeader"]
          ELSE LET n == LeaderOf(cli.st)
               IN  [said |-> "leads", host |-> n,
                    leader |-> cli.st[n].leader, term |-> cli.st[n].term])
    /\ cli' = Idle
    /\ UNCHANGED <<vars, term, leaderID, elected>>

-----------------------------------------------------------------------------
(* The cluster.                                                              *)

\* A handler takes a step.  redirectIfFollower also answers 503 when the leader it
\* knows of has no address in peerHTTPAddrs.
Handle(h) ==
    /\ \/ HandleGet(h) /\ Hears(h, "read")
       \/ RedirectIfFollower(h) /\ UNCHANGED user
       \/ /\ At(h, "redirect")
          /\ \E id \in {Leaders!LeaderID(request[h].node), None} :
                Redirect(h, id) /\ Hears(h, IF id = None THEN "unavailable" ELSE "redirect")
       \/ (EnforceWriteLimits(h) \/ StoreFull(h) \/ ReadValue(h)) /\ Hears(h, "refused")
       \/ (ProposeCommand(h) \/ ProposalFails(h)) /\ Hears(h, "error")
       \/ Committed(h) /\ Hears(h, "ok")
    /\ UNCHANGED <<term, leaderID, elected>>

\* The log moves on below.
Replicates ==
    /\ \/ \E cmd \in Held : Choose(cmd) \/ \E n \in Node : Replicate(n, cmd)
       \/ \E n \in Node : ApplyNext(n)
    /\ UNCHANGED <<term, leaderID, elected, user>>

\* Leadership moves: nothing is settled any more.
Unsettled == cli' = (IF cli = Idle THEN cli ELSE [cli EXCEPT !.settled = FALSE])
             /\ UNCHANGED reports

\* The leader that chooses is the one of the latest term.
Wins(n) ==
    \E t \in 1..MaxTerm :
        /\ Leaders!Win(n, t) /\ BecomeLeader(n)
        /\ leader' = IF \A e \in elected : e.term < t THEN n ELSE leader
        /\ Unsettled

\* Node n steps down if it led.
Deposed(n) == IF n \in leads THEN StepDown(n) ELSE UNCHANGED <<consensus, handlers>>

Adopts(n) == \E t \in 1..MaxTerm : Leaders!Adopt(n, t) /\ Deposed(n) /\ Unsettled

Follows(n) == \E e \in elected : Leaders!Follow(n, e) /\ Deposed(n) /\ Unsettled

\* The process dies and restarts, and with it what the CLI awaits of it.
Restarts(n) ==
    /\ Leaders!Restart(n, term[n]) /\ Crash(n)
    /\ cli' = CASE cli.pc = "await" /\ cli.node = n ->
                      [NextNode([cli EXCEPT !.cuts = @ + 1]) EXCEPT !.settled = FALSE]
                [] Reading(n) -> [cli EXCEPT !.st[n] = [read |-> "lost"]]
                [] OTHER -> IF cli = Idle THEN cli ELSE [cli EXCEPT !.settled = FALSE]
    /\ UNCHANGED reports

CliNext ==
    \/ \E method \in Method, k \in Key : RunCommand(method, k)
    \/ \E h \in Client : Dial(h) \/ Handle(h)
    \/ Unreached \/ Cut \/ Retry \/ GiveUp
    \/ RunStatus \/ ShowStatus
    \/ \E n \in Node : HandleStatus(n)
    \/ Replicates
    \/ \E n \in Node : Wins(n) \/ Adopts(n) \/ Follows(n) \/ Restarts(n)

CliSpec == (\E l \in Node : CliInit(l)) /\ [][CliNext]_cliVars

-----------------------------------------------------------------------------
(* Properties.                                                               *)

Told(words) == {r \in ToSet(reports) : r.said \in words}

\* How often a command stands in the log.
Copies(r) == Cardinality({p \in DOMAIN chosen : chosen[p].id \in r.first..r.last})

\* handleSet and handleDelete, "Committed: a majority of nodes stored it": it
\* stands in the log, whichever of the attempts brought it there.
CommittedMeansStored == \A r \in Told({"committed"}) : Copies(r) >= 1

\* cluster.do sends a write again although an earlier attempt may have been
\* proposed: it stands in the log at most once for each attempt whose answer
\* did not come and once for a final success or internal error.  A write that
\* was refused, or given up without such an attempt, never shows.
CopiesAccountedFor ==
    \A r \in Told({"committed", "failed"}) :
        Copies(r) <= r.cuts + (IF r.status \in {"ok", "error"} THEN 1 ELSE 0)

\* executeRequest and redirectIfFollower: leaderID is never cleared and can
\* send the CLI in circles, but while all nodes agree on the leader one
\* redirect is enough.
OneRedirectWhenSettled ==
    cli.pc \in {"dial", "await"} /\ cli.settled => cli.redirects <= 1

\* handleStatus, fetchStatuses and leaderOf: the node that statusLines marks as
\* the leader was elected in the term shown or in a later one, although its
\* term and its role are read at different times.  (The headline names its
\* leader_id, which is read later still and can be another node.)
StatusClaimBacked ==
    \A r \in Told({"leads"}) : \E e \in elected : e.leader = r.host /\ e.term >= r.term

\* Nodes whose answer has not come further than reads.
Behind(st, reads) == Cardinality({n \in DOMAIN st : st[n].read \in reads})

\* What is left of a command: reads of status, or rounds, nodes and requests.
Left(d) ==
    IF d.pc = "status"
    THEN Behind(d.st, {"nothing"}) + Behind(d.st, {"nothing", "term"})
         + Behind(d.st, {"nothing", "term", "role"})
    ELSE LET requests == 2 * (MaxRedirects - d.redirects) + (IF d.pc = "dial" THEN 1 ELSE 0)
             nodes == IF d.pc = "pause" THEN 0 ELSE Len(Addrs) - d.at + 1
             rounds == MaxCycles - d.cycle
         IN  (rounds * (Len(Addrs) + 1) + nodes) * (2 * MaxRedirects + 2) + requests

\* cluster.do, executeRequest and fetchStatuses: redirects that lead in
\* circles, nodes that do not answer and elections on the way do not keep a
\* command going: each of its steps leaves less of it, down to 0 at most.
EveryStepCountsDown ==
    [][cli # Idle /\ cli' \notin {Idle, cli, [cli EXCEPT !.settled = FALSE]}
       => 0 <= Left(cli') /\ Left(cli') < Left(cli)]_cliVars
=============================================================================
