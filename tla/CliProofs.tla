------------------------------ MODULE CliProofs ------------------------------
(***************************************************************************)
(* What the user of raftra-cli can rely on, for any number of nodes,       *)
(* addresses, redirects, rounds, commands and requests, whatever the       *)
(* handlers, the elections and the crashes do between the steps of a       *)
(* command.                                                                *)
(***************************************************************************)
EXTENDS Cli, GatewayProofs, WellFoundedInduction

-----------------------------------------------------------------------------
(* The inductive invariant.                                                  *)

Terms == 0..(MaxTerm + 1)

\* A command that cluster.do runs.
Attempt == [pc : {"dial", "await", "pause"}, method : Method, key : Key,
            at : 1..Len(Addrs), node : Node, redirects : Nat, cycle : Nat,
            conn : Client \cup {None}, first : Nat, cuts : Nat, settled : BOOLEAN]

Reads == [read : {"nothing", "lost"}] \cup [read : {"term"}, term : Terms]
         \cup [read : {"role"}, term : Terms, isLeader : BOOLEAN]
         \cup [read : {"all"}, term : Terms, isLeader : BOOLEAN, leader : Node \cup {None}]

\* A status command.
Survey == [pc : {"status"}, settled : {FALSE}, st : [ToSet(Addrs) -> Reads]]

\* What the user is told.
Verdict == [said : {"read", "committed", "failed"},
            status : {"read", "ok", "error", "refused", "gaveUp"}, method : Method,
            first : Nat, last : Nat, cuts : Nat]
           \cup [said : {"leads"}, host : Node, leader : Node \cup {None}, term : Terms]
           \cup [said : {"noAnswer", "noLeader"}]

CliType ==
    /\ leaderID \in [Node -> Node \cup {None}]
    /\ cli \in {Idle} \cup Attempt \cup Survey
    /\ reports \in Seq(Verdict)

Won(n, t) == [term |-> t, leader |-> n] \in elected

\* A node that leads has won its term.
LeadsSound ==
    /\ term \in [Node -> Terms]
    /\ \A e \in elected : e.term \in Terms /\ e.leader \in Node
    /\ \A n \in leads : Won(n, term[n])

\* The connection that the CLI listens on has a handler, at the node that it
\* turned to, for a request of this command.
AwaitSound ==
    cli.pc = "await" =>
        /\ cli.conn \in Client /\ Live(cli.conn)
        /\ request[cli.conn].node = cli.node
        /\ request[cli.conn].id >= cli.first

\* While all agree on the leader a redirect leads to it, and it sends no other.
SettledSound ==
    cli.pc \in {"dial", "await"} /\ cli.settled =>
        /\ Agreed
        /\ cli.redirects <= 1
        /\ cli.redirects = 1 => cli.node \in leads
        /\ cli.pc = "await" /\ At(cli.conn, "redirect") => cli.node \notin leads

\* A request that is in a log, or can still get there.
Possible(id) ==
    \/ \E c \in Client : Live(c) /\ request[c].id = id
    \/ \E cmd \in Held \cup ToSet(chosen) : cmd.id = id

\* The requests from first to last of which that is true.
Open(first, last) == {id \in first..last : Possible(id)}

Awaited == IF cli.pc = "await" THEN {request[cli.conn].id} ELSE {}

\* Besides the one whose answer is awaited, those are as many at most as
\* answers did not come.
CountSound ==
    cli.pc \in {"dial", "await", "pause"} =>
        /\ cli.first \in 1..(arrivals + 1)
        /\ Cardinality(Open(cli.first, arrivals) \ Awaited) <= cli.cuts

\* Some leader, if not of that term then of a later one.
Backed(n, t) == \E e \in elected : e.leader = n /\ e.term >= t

\* The node has outgrown what status read of it, and led if it said so.
ReadSound(n, st) ==
    /\ st.read \in {"term", "role", "all"} => st.term <= term[n]
    /\ st.read \in {"role", "all"} /\ st.isLeader => Backed(n, st.term)

SurveySound ==
    cli.pc = "status" => \A n \in DOMAIN cli.st : ReadSound(n, cli.st[n])

\* What the user was told of a write stays true.
WriteSound(r) ==
    /\ r.first \in Nat \ {0} /\ r.last <= arrivals
    /\ r.said = "committed" => \E p \in DOMAIN chosen : chosen[p].id \in r.first..r.last
    /\ Cardinality(Open(r.first, r.last))
          <= r.cuts + (IF r.status \in {"ok", "error"} THEN 1 ELSE 0)

ReportsSound ==
    /\ \A r \in Told({"committed", "failed"}) : WriteSound(r)
    /\ \A r \in Told({"leads"}) : Backed(r.host, r.term)

CliInv ==
    /\ GatewayInv /\ CliType /\ LeadsSound /\ AwaitSound /\ SettledSound
    /\ CountSound /\ SurveySound /\ ReportsSound

-----------------------------------------------------------------------------
(* What a step of the gateway leaves of the requests before it.              *)

\* No request that was over gets into a log any more, and no log gets shorter.
Fades ==
    /\ arrivals' \in Nat /\ arrivals <= arrivals'
    /\ \A id \in 1..arrivals : Possible(id)' => Possible(id)
    /\ \A p \in DOMAIN chosen : p \in DOMAIN chosen' /\ chosen'[p] = chosen[p]

LEMMA FadesIf ==
    ASSUME GatewayType, arrivals' \in Nat, arrivals <= arrivals',
           \A c \in Client : request'[c] # Idle =>
              \/ Live(c) /\ request'[c].id = request[c].id
              \/ request'[c].id = arrivals + 1,
           \A cmd \in Held' \cup ToSet(chosen') :
              \/ cmd \in Held \cup ToSet(chosen)
              \/ \E c \in Client : Live(c) /\ request[c].id = cmd.id,
           \A p \in DOMAIN chosen : p \in DOMAIN chosen' /\ chosen'[p] = chosen[p]
    PROVE  Fades
  <1>1. ASSUME NEW id \in 1..arrivals, Possible(id)' PROVE Possible(id)
    <2>1. ASSUME NEW c \in Client, request'[c] # Idle, request'[c].id = id PROVE Possible(id)
      <3>1. id # arrivals + 1
        BY DEF GatewayType
      <3>. QED BY <2>1, <3>1 DEF Possible
    <2>2. ASSUME NEW cmd \in Held' \cup ToSet(chosen'), cmd.id = id PROVE Possible(id)
      BY <2>2 DEF Possible
    <2>. QED BY <1>1, <2>1, <2>2 DEF Possible, Live
  <1>. QED BY <1>1 DEF Fades

LEMMA HandlerFades ==
    ASSUME GatewayInv, NEW c \in Client, Handles(c)
    PROVE  Fades
  <1>1. GatewayType /\ arrivals \in Nat
    BY DEF GatewayInv, GatewayType
  <1>2. ASSUME NEW pc, Goes(c, pc) PROVE Fades
    <2>1. /\ request' = [request EXCEPT ![c] = Moved(c, pc)] /\ Live(c) /\ pc \in PC
          /\ UNCHANGED <<arrivals, chosen, held>>
      BY <1>2 DEF Goes, consensus
    <2>2. \A d \in Client : Same(d)
      BY <1>1, <2>1, GoingOn
    <2>3. Held' = Held
      BY <2>1, HeldStays
    <2>. QED BY <1>1, <2>1, <2>2, <2>3, FadesIf DEF Same
  <1>3. ASSUME NEW status, Answers(c, status) PROVE Fades
    <2>1. /\ request' = [request EXCEPT ![c] = Idle]
          /\ UNCHANGED <<arrivals, chosen, held>>
      BY <1>3 DEF Answers, Answer, consensus
    <2>2. \A d \in Client : request'[d] # Idle => request'[d] = request[d]
      BY <1>1, <2>1 DEF GatewayType
    <2>3. Held' = Held
      BY <2>1, HeldStays
    <2>. QED BY <1>1, <2>1, <2>2, <2>3, FadesIf DEF Live
  <1>4. CASE Proposes(c)
    <2>. DEFINE new == Command(request[c])
    <2>1. /\ request' = [request EXCEPT ![c].pc = "wait"] /\ Live(c)
          /\ held' = [held EXCEPT ![request[c].node] = @ \cup {new}]
          /\ UNCHANGED <<arrivals, chosen>>
      BY <1>4 DEF Proposes
    <2>2. \A d \in Client : Same(d)
      <3>1. request' = [request EXCEPT ![c] = Moved(c, "wait")]
        BY <2>1 DEF Moved
      <3>. QED BY <1>1, <2>1, <3>1, GoingOn DEF PC
    <2>3. new.id = request[c].id
      BY DEF Command
    <2>. HIDE DEF new
    <2>4. Held' \subseteq Held \cup {new}
      BY <1>1, <2>1 DEF Held, GatewayType
    <2>. QED BY <1>1, <2>1, <2>2, <2>3, <2>4, FadesIf DEF Same
  <1>5. (\E pc : Goes(c, pc)) \/ (\E status : Answers(c, status)) \/ Proposes(c)
    BY <1>1, HandlerCases
  <1>. QED BY <1>2, <1>3, <1>4, <1>5

LEMMA ClusterFades ==
    ASSUME GatewayInv,
           \/ \E cmd \in Held : Choose(cmd) \/ \E n \in Node : Replicate(n, cmd)
           \/ \E n \in Node : ApplyNext(n) \/ BecomeLeader(n) \/ StepDown(n) \/ Crash(n)
    PROVE  Fades
  <1>1. GatewayType /\ arrivals \in Nat /\ chosen \in Seq(Entry)
    BY DEF GatewayInv, GatewayType
  <1>2. ASSUME NEW cmd \in Held, Choose(cmd) PROVE Fades
    <2>1. /\ chosen' = Append(chosen, cmd) /\ held' = [n \in Node |-> held[n] \ {cmd}]
          /\ UNCHANGED <<request, arrivals>>
      BY <1>2 DEF Choose
    <2>2. cmd \in Entry
      BY <1>1 DEF Held, GatewayType
    <2>3. \A p \in DOMAIN chosen : p \in DOMAIN chosen' /\ chosen'[p] = chosen[p]
      BY <1>1, <2>1, <2>2
    <2>4. ToSet(chosen') \subseteq ToSet(chosen) \cup {cmd}
      BY <1>1, <2>1, <2>2 DEF ToSet
    <2>5. Held' \subseteq Held
      BY <2>1 DEF Held
    <2>. QED BY <1>1, <2>1, <2>3, <2>4, <2>5, FadesIf DEF Live
  <1>3. ASSUME NEW cmd \in Held, NEW n \in Node, Replicate(n, cmd) PROVE Fades
    <2>1. /\ \E log \in {held[n] \cup {cmd}, held[n] \ {cmd}} : held' = [held EXCEPT ![n] = log]
          /\ UNCHANGED <<chosen, request, arrivals>>
      BY <1>3 DEF Replicate
    <2>2. Held' \subseteq Held
      BY <1>1, <2>1 DEF Held, GatewayType
    <2>. QED BY <1>1, <2>1, <2>2, FadesIf DEF Live
  <1>4. ASSUME NEW n \in Node, ApplyNext(n) \/ BecomeLeader(n) \/ StepDown(n) PROVE Fades
    <2>1. UNCHANGED <<chosen, held, request, arrivals>>
      BY <1>4 DEF ApplyNext, BecomeLeader, StepDown
    <2>2. Held' = Held
      BY <2>1, HeldStays
    <2>. QED BY <1>1, <2>1, <2>2, FadesIf DEF Live
  <1>5. ASSUME NEW n \in Node, Crash(n) PROVE Fades
    <2>1. /\ UNCHANGED <<chosen, held, arrivals>>
          /\ \A c \in Client : request'[c] # Idle => request'[c] = request[c]
      BY <1>5 DEF Crash
    <2>2. Held' = Held
      BY <2>1, HeldStays
    <2>. QED BY <1>1, <2>1, <2>2, FadesIf DEF Live
  <1>. QED BY <1>2, <1>3, <1>4, <1>5

LEMMA StepFades ==
    ASSUME GatewayInv, [Next]_vars
    PROVE  Fades
  <1>1. GatewayType /\ arrivals \in Nat
    BY DEF GatewayInv, GatewayType
  <1>2. ASSUME NEW c \in Client, NEW n \in Node, NEW method \in Method, NEW k \in Key,
               Arrive(c, n, method, k)
        PROVE  Fades
    <2>1. /\ arrivals' = arrivals + 1 /\ UNCHANGED <<chosen, held>>
          /\ \A d \in Client : request'[d] = request[d] \/ request'[d].id = arrivals + 1
      BY <1>1, <1>2 DEF Arrive, consensus, GatewayType
    <2>2. Held' = Held
      BY <2>1, HeldStays
    <2>. QED BY <1>1, <2>1, <2>2, FadesIf DEF Live
  <1>3. CASE UNCHANGED vars
    <2>1. UNCHANGED <<chosen, held, request, arrivals>>
      BY <1>3 DEF vars, consensus
    <2>2. Held' = Held
      BY <2>1, HeldStays
    <2>. QED BY <1>1, <2>1, <2>2, FadesIf DEF Live
  <1>4. CASE Next
    BY <1>2, <1>4, HandlerFades, ClusterFades DEF Next, Handles
  <1>. QED BY <1>3, <1>4

-----------------------------------------------------------------------------
(* The attempts of a command.                                                *)

LEMMA AddrsAreNodes ==
    /\ Len(Addrs) \in Nat \ {0} /\ DOMAIN Addrs = 1..Len(Addrs)
    /\ \A k \in 1..Len(Addrs) : Addrs[k] \in Node
    /\ ToSet(Addrs) \subseteq Node
  <1>1. Addrs \in Seq(Node) /\ Len(Addrs) # 0
    BY CliAssumption, EmptySeq
  <1>2. /\ Len(Addrs) \in Nat \ {0} /\ DOMAIN Addrs = 1..Len(Addrs)
        /\ \A k \in 1..Len(Addrs) : Addrs[k] \in Node
    BY <1>1
  <1>. QED BY <1>2 DEF ToSet

LEMMA AgreedIsTruthValue == Agreed \in BOOLEAN
  BY Zenon DEF Agreed

\* The command stands where it stood, but for node, time and redirects.
SameCommand(d, e) ==
    /\ d \in Attempt /\ d.method = e.method /\ d.key = e.key
    /\ d.first = e.first

\* What Try and FollowRedirect make of d.
Tried(d, k, n, a) ==
    [d EXCEPT !.pc = "dial", !.at = k, !.node = n, !.redirects = 0, !.settled = a]

Redirected(d, n, r) == [d EXCEPT !.pc = "dial", !.redirects = r, !.node = n]

\* A command, or one that has yet to turn to a node.
Fresh == [pc : {"dial"}, method : Method, key : Key, at : {1}, node : {None},
          redirects : Nat, cycle : Nat, conn : {None}, first : Nat, cuts : Nat,
          settled : BOOLEAN]

LEMMA TriedFacts ==
    ASSUME NEW d \in Attempt \cup Fresh, NEW k \in 1..Len(Addrs), NEW n \in Node, NEW a \in BOOLEAN
    PROVE  LET e == Tried(d, k, n, a)
           IN  /\ SameCommand(e, d) /\ e.cuts = d.cuts /\ e.pc = "dial"
               /\ e.redirects = 0 /\ e.settled = a
  <1>1. CASE d \in Attempt
    BY <1>1 DEF Attempt, SameCommand, Tried
  <1>2. CASE d \in Fresh
    BY <1>2 DEF Attempt, Fresh, SameCommand, Tried
  <1>. QED BY <1>1, <1>2

LEMMA RedirectedFacts ==
    ASSUME NEW d \in Attempt, NEW n \in Node, NEW r \in Nat
    PROVE  LET e == Redirected(d, n, r)
           IN  /\ SameCommand(e, d) /\ e.cuts = d.cuts /\ e.pc = "dial"
               /\ e.redirects = r /\ e.settled = d.settled /\ e.node = n
  BY DEF Attempt, SameCommand, Redirected

LEMMA TryFacts ==
    ASSUME NEW d \in Attempt \cup Fresh, NEW k \in 1..Len(Addrs)
    PROVE  LET e == Try(d, k)
           IN  /\ SameCommand(e, d) /\ e.cuts = d.cuts /\ e.pc = "dial"
               /\ e.redirects = 0 /\ e.settled = Agreed
  <1>1. Agreed \in BOOLEAN /\ Addrs[k] \in Node
    BY AgreedIsTruthValue, AddrsAreNodes
  <1>2. Try(d, k) = Tried(d, k, Addrs[k], Agreed)
    BY DEF Try, Tried
  <1>. QED BY <1>1, <1>2, TriedFacts

LEMMA NextNodeFacts ==
    ASSUME NEW d \in Attempt
    PROVE  /\ SameCommand(NextNode(d), d) /\ NextNode(d).cuts = d.cuts
           /\ NextNode(d).pc \in {"dial", "pause"}
           /\ NextNode(d).pc = "dial" => NextNode(d).redirects = 0 /\ NextNode(d).settled = Agreed
  <1>1. CASE d.at < Len(Addrs)
    <2>1. d.at + 1 \in 1..Len(Addrs)
      BY <1>1, AddrsAreNodes DEF Attempt
    <2>2. NextNode(d) = Try(d, d.at + 1)
      BY <1>1 DEF NextNode
    <2>. QED BY <2>1, <2>2, TryFacts
  <1>2. CASE ~(d.at < Len(Addrs))
    <2>1. NextNode(d) = [d EXCEPT !.pc = "pause"]
      BY <1>2 DEF NextNode
    <2>. QED BY <2>1 DEF Attempt, SameCommand
  <1>. QED BY <1>1, <1>2

LEMMA FollowRedirectFacts ==
    ASSUME NEW d \in Attempt, NEW target \in Node
    PROVE  LET e == FollowRedirect(d, target)
           IN  /\ SameCommand(e, d) /\ e.cuts = d.cuts
               /\ e.pc \in {"dial", "pause"}
               /\ e.pc = "dial" =>
                     \/ e.redirects = 0 /\ e.settled = Agreed
                     \/ e.redirects = d.redirects + 1 /\ e.settled = d.settled /\ e.node = target
  <1>. DEFINE e == FollowRedirect(d, target)
  <1>1. CASE d.redirects < MaxRedirects
    <2>1. d.redirects + 1 \in Nat
      BY DEF Attempt
    <2>2. e = Redirected(d, target, d.redirects + 1)
      BY <1>1 DEF FollowRedirect, Redirected
    <2>. QED BY <2>1, <2>2, RedirectedFacts
  <1>2. CASE ~(d.redirects < MaxRedirects)
    <2>1. e = NextNode(d)
      BY <1>2 DEF FollowRedirect
    <2>. QED BY <2>1, NextNodeFacts
  <1>. QED BY <1>1, <1>2

-----------------------------------------------------------------------------
(* What the steps are to the gateway and to the cluster.                     *)

LEMMA KindOfCommand ==
    ASSUME CliType
    PROVE  /\ cli.pc \in {"dial", "await", "pause"} => cli \in Attempt
           /\ cli.pc = "status" => cli \in Survey
           /\ cli = Idle \/ cli.pc \in {"dial", "await", "pause"} \/ cli.pc = "status"
           /\ cli = Idle <=> cli.pc = "idle"
  <1>1. \A d \in Attempt : d.pc \in {"dial", "await", "pause"}
    BY DEF Attempt
  <1>2. \A d \in Survey : d.pc = "status"
    BY DEF Survey
  <1>3. Idle.pc = "idle"
    BY DEF Idle
  <1>. QED BY <1>1, <1>2, <1>3 DEF CliType

LEMMA HandleHandles ==
    ASSUME GatewayInv, CliType, NEW h \in Client, Handle(h)
    PROVE  Handles(h)
  <1>1. ASSUME NEW id \in {Leaders!LeaderID(request[h].node), None}, Redirect(h, id)
        PROVE  Handles(h)
    <2>1. Live(h)
      BY <1>1 DEF Redirect, At, Live, Idle
    <2>2. request[h].node \in Node
      BY <2>1 DEF Live, GatewayInv, GatewayType, Ticket
    <2>3. id \in Node \cup {None}
      BY <2>2 DEF Leaders!LeaderID, CliType
    <2>. QED BY <1>1, <2>3 DEF Handles
  <1>2. CASE \A id \in {Leaders!LeaderID(request[h].node), None} : ~Redirect(h, id)
    BY <1>2 DEF Handle, Handles
  <1>. QED BY <1>1, <1>2

\* To the gateway a step of the CLI is one of its own, or none.
LEMMA CliStep ==
    ASSUME GatewayInv, CliType, [CliNext]_cliVars
    PROVE  [Next]_vars
  <1>1. ASSUME \/ \E method \in Method, k \in Key : RunCommand(method, k)
               \/ Unreached \/ Cut \/ Retry \/ GiveUp \/ RunStatus \/ ShowStatus
               \/ \E n \in Node : HandleStatus(n)
               \/ UNCHANGED cliVars
        PROVE  UNCHANGED vars
    BY <1>1 DEF RunCommand, Unreached, Cut, Retry, GiveUp, RunStatus, ShowStatus,
                HandleStatus, cliVars
  <1>2. ASSUME NEW h \in Client, Dial(h) PROVE Next
    <2>1. cli.node \in Node /\ cli.method \in Method /\ cli.key \in Key
      BY <1>2, KindOfCommand DEF Dial, Attempt
    <2>. QED BY <1>2, <2>1 DEF Dial, Next
  <1>3. ASSUME NEW h \in Client, Handle(h) PROVE Next
    BY <1>3, HandleHandles DEF Handles, Next
  <1>4. CASE Replicates
    BY <1>4 DEF Replicates, Next
  <1>5. ASSUME NEW n \in Node, Wins(n) \/ Adopts(n) \/ Follows(n) \/ Restarts(n)
        PROVE  [Next]_vars
    <2>1. CASE Wins(n)
      BY <2>1 DEF Wins, Next
    <2>2. CASE Adopts(n) \/ Follows(n)
      <3>1. Deposed(n)
        BY <2>2 DEF Adopts, Follows
      <3>. QED BY <3>1 DEF Deposed, Next, vars, handlers
    <2>3. CASE Restarts(n)
      BY <2>3 DEF Restarts, Next
    <2>. QED BY <1>5, <2>1, <2>2, <2>3
  <1>. QED BY <1>1, <1>2, <1>3, <1>4, <1>5 DEF CliNext

\* What the CLI knows of leaders can get old, not wrong.
Outgrown ==
    /\ term' \in [Node -> Terms] /\ \A n \in Node : term[n] <= term'[n]
    /\ elected \subseteq elected'

LEMMA LeadsKept ==
    ASSUME LeadsSound, CliType, NEW n \in Node, NEW t \in Terms, t >= term[n],
           term' = [term EXCEPT ![n] = t], leads' \subseteq leads \cup {n},
           n \in leads' => [term |-> t, leader |-> n] \in elected', elected \subseteq elected',
           \A e \in elected' : e \in elected \/ e = [term |-> t, leader |-> n],
           leaderID' \in [Node -> Node \cup {None}]
    PROVE  LeadsSound' /\ Outgrown
  <1>1. term' \in [Node -> Terms] /\ \A m \in Node : term[m] <= term'[m]
    BY DEF LeadsSound, Terms
  <1>2. \A e \in elected' : e.term \in Terms /\ e.leader \in Node
    BY DEF LeadsSound
  <1>3. ASSUME NEW m \in leads' PROVE Won(m, term[m])'
    <2>1. CASE m = n
      BY <2>1 DEF LeadsSound, Won
    <2>2. CASE m # n
      BY <1>3, <2>2 DEF LeadsSound, Won
    <2>. QED BY <2>1, <2>2
  <1>. QED BY <1>1, <1>2, <1>3 DEF LeadsSound, Outgrown

\* No node changes its role, its term or its leader.
Still == UNCHANGED <<term, leads, leaderID, elected>>

\* A handler changes none of what the nodes hold of each other, and only its
\* own request.
LEMMA HandlersAreStill ==
    ASSUME GatewayInv, NEW h \in Client, Handles(h)
    PROVE  /\ leads' = leads /\ arrivals' = arrivals
           /\ \A c \in Client \ {h} : request'[c] = request[c]
           /\ request'[h] # Idle => request'[h].id = request[h].id
                                    /\ request'[h].node = request[h].node
           /\ Live(h)
  <1>1. GatewayType
    BY DEF GatewayInv
  <1>2. ASSUME NEW pc, pc \in PC, Live(h), request' = [request EXCEPT ![h] = Moved(h, pc)]
        PROVE  /\ \A c \in Client \ {h} : request'[c] = request[c]
               /\ request'[h] # Idle => request'[h].id = request[h].id
                                        /\ request'[h].node = request[h].node
    BY <1>1, <1>2, GoingOn DEF Same
  <1>3. ASSUME NEW pc, Goes(h, pc)
        PROVE  /\ pc \in PC /\ Live(h) /\ request' = [request EXCEPT ![h] = Moved(h, pc)]
               /\ leads' = leads /\ arrivals' = arrivals
    BY <1>3 DEF Goes, consensus
  <1>4. ASSUME NEW status, Answers(h, status)
        PROVE  /\ request' = [request EXCEPT ![h] = Idle] /\ Live(h)
               /\ leads' = leads /\ arrivals' = arrivals
    BY <1>4 DEF Answers, Answer, consensus
  <1>5. CASE Proposes(h)
    <2>1. request' = [request EXCEPT ![h] = Moved(h, "wait")]
      BY <1>5 DEF Proposes, Moved
    <2>. QED BY <1>2, <1>5, <2>1 DEF Proposes, PC
  <1>6. (\E pc : Goes(h, pc)) \/ (\E status : Answers(h, status)) \/ Proposes(h)
    BY <1>1, HandlerCases
  <1>7. CASE \E status : Answers(h, status)
    BY <1>1, <1>4, <1>7 DEF GatewayType
  <1>. QED BY <1>2, <1>3, <1>5, <1>6, <1>7

Leadership == \E n \in Node : Wins(n) \/ Adopts(n) \/ Follows(n) \/ Restarts(n)

LEMMA OthersAreStill ==
    ASSUME GatewayInv, CliType, [CliNext]_cliVars, ~Leadership
    PROVE  Still
  <1>1. ASSUME NEW h \in Client, Handle(h) PROVE Still
    BY <1>1, HandleHandles, HandlersAreStill DEF Handle, Still
  <1>2. ASSUME NEW h \in Client, Dial(h) PROVE Still
    BY <1>2 DEF Dial, Arrive, consensus, Still
  <1>3. CASE Replicates
    BY <1>3 DEF Replicates, Choose, Replicate, ApplyNext, Still
  <1>4. ASSUME \/ \E method \in Method, k \in Key : RunCommand(method, k)
               \/ Unreached \/ Cut \/ Retry \/ GiveUp \/ RunStatus \/ ShowStatus
               \/ \E n \in Node : HandleStatus(n)
               \/ UNCHANGED cliVars
        PROVE  Still
    BY <1>4 DEF RunCommand, Unreached, Cut, Retry, GiveUp, RunStatus, ShowStatus,
                HandleStatus, cliVars, vars, consensus, Still
  <1>. QED BY <1>1, <1>2, <1>3, <1>4 DEF CliNext, Leadership

LEMMA StepLeads ==
    ASSUME GatewayInv, CliType, LeadsSound, [CliNext]_cliVars
    PROVE  /\ LeadsSound' /\ Outgrown
           /\ leaderID' \in [Node -> Node \cup {None}]
  <1>0. leads \subseteq Node /\ MaxTerm \in Nat /\ \A n \in Node : term[n] \in Nat
    BY CliAssumption DEF GatewayInv, GatewayType, LeadsSound, Terms
  <1>1. CASE Still
    BY <1>0, <1>1 DEF Still, LeadsSound, Outgrown, Won, CliType
  <1>2. ASSUME NEW n \in Node, Wins(n) PROVE LeadsSound' /\ Outgrown /\ leaderID' = leaderID
    <2>1. PICK t \in Terms : Leaders!Win(n, t)
      BY <1>0, <1>2 DEF Wins, Terms
    <2>2. t >= term[n]
      BY <1>0, <2>1 DEF Leaders!Win, Terms
    <2>3. /\ term' = [term EXCEPT ![n] = t] /\ leads' \subseteq leads \cup {n}
          /\ n \in leads' => [term |-> t, leader |-> n] \in elected'
          /\ elected \subseteq elected'
          /\ \A e \in elected' : e \in elected \/ e = [term |-> t, leader |-> n]
          /\ leaderID' = leaderID
      BY <2>1 DEF Leaders!Win
    <2>4. leaderID' \in [Node -> Node \cup {None}]
      BY <2>3 DEF CliType
    <2>5. LeadsSound' /\ Outgrown
      BY <2>2, <2>3, <2>4, LeadsKept
    <2>. QED BY <2>3, <2>5
  <1>3. ASSUME NEW n \in Node, Adopts(n) PROVE LeadsSound' /\ Outgrown /\ leaderID' = leaderID
    <2>1. PICK t \in Terms : Leaders!Adopt(n, t)
      BY <1>0, <1>3 DEF Adopts, Terms
    <2>2. t >= term[n]
      BY <1>0, <2>1 DEF Leaders!Adopt, Terms
    <2>3. /\ term' = [term EXCEPT ![n] = t] /\ leads' \subseteq leads \cup {n}
          /\ n \in leads' => [term |-> t, leader |-> n] \in elected'
          /\ elected \subseteq elected'
          /\ \A e \in elected' : e \in elected \/ e = [term |-> t, leader |-> n]
          /\ leaderID' = leaderID
      BY <2>1 DEF Leaders!Adopt
    <2>4. leaderID' \in [Node -> Node \cup {None}]
      BY <2>3 DEF CliType
    <2>5. LeadsSound' /\ Outgrown
      BY <2>2, <2>3, <2>4, LeadsKept
    <2>. QED BY <2>3, <2>5
  <1>4. ASSUME NEW n \in Node, Follows(n)
        PROVE  LeadsSound' /\ Outgrown /\ leaderID' \in [Node -> Node \cup {None}]
    <2>1. PICK e \in elected : Leaders!Follow(n, e)
      BY <1>4 DEF Follows
    <2>2. e.term \in Terms /\ e.leader \in Node
      BY DEF LeadsSound
    <2>3. leaderID' \in [Node -> Node \cup {None}]
      BY <2>1, <2>2 DEF Leaders!Follow, CliType
    <2>. QED BY <1>0, <2>1, <2>2, <2>3, LeadsKept DEF Leaders!Follow
  <1>5. ASSUME NEW n \in Node, Restarts(n)
        PROVE  LeadsSound' /\ Outgrown /\ leaderID' \in [Node -> Node \cup {None}]
    <2>1. Leaders!Restart(n, term[n]) /\ term[n] \in Terms
      BY <1>5 DEF Restarts, LeadsSound
    <2>2. leaderID' \in [Node -> Node \cup {None}]
      BY <2>1 DEF Leaders!Restart, CliType
    <2>. QED BY <1>0, <2>1, <2>2, LeadsKept DEF Leaders!Restart
  <1>. QED BY <1>1, <1>2, <1>3, <1>4, <1>5, OthersAreStill DEF Leadership, CliType

-----------------------------------------------------------------------------
(* What the user was told.                                                   *)

LEMMA OpenIsFinite ==
    ASSUME NEW first \in Int, NEW last \in Int
    PROVE  /\ IsFiniteSet(Open(first, last)) /\ Cardinality(Open(first, last)) \in Nat
           /\ \A T \in SUBSET Open(first, last) :
                 /\ IsFiniteSet(T) /\ Cardinality(T) \in Nat
                 /\ Cardinality(T) <= Cardinality(Open(first, last))
  <1>1. IsFiniteSet(first..last)
    BY FS_Interval
  <1>2. Open(first, last) \in SUBSET (first..last)
    BY DEF Open
  <1>3. IsFiniteSet(Open(first, last))
    BY <1>1, <1>2, FS_Subset
  <1>. QED BY <1>3, FS_Subset, FS_CardinalityType

LEMMA OpenFades ==
    ASSUME Fades, NEW first \in Nat \ {0}, NEW last \in Nat, last <= arrivals, arrivals \in Nat
    PROVE  Open(first, last)' \subseteq Open(first, last)
  <1>1. first..last \subseteq 1..arrivals
    OBVIOUS
  <1>. QED BY <1>1 DEF Open, Fades

LEMMA WriteStaysSound ==
    ASSUME Fades, arrivals \in Nat, NEW r \in Verdict, r.said \in {"committed", "failed"},
           WriteSound(r)
    PROVE  WriteSound(r)'
  <1>1. /\ r.first \in Nat \ {0} /\ r.last \in Nat /\ r.last <= arrivals /\ r.cuts \in Nat
    BY DEF Verdict, WriteSound
  <1>2. r.last <= arrivals'
    BY <1>1 DEF Fades
  <1>3. r.said = "committed" => \E p \in DOMAIN chosen' : chosen'[p].id \in r.first..r.last
    BY DEF WriteSound, Fades
  <1>4. Cardinality(Open(r.first, r.last)') <= Cardinality(Open(r.first, r.last))
        /\ Cardinality(Open(r.first, r.last)') \in Nat
        /\ Cardinality(Open(r.first, r.last)) \in Nat
    <2>1. Open(r.first, r.last)' \subseteq Open(r.first, r.last)
      BY <1>1, OpenFades
    <2>2. /\ Cardinality(Open(r.first, r.last)) \in Nat
          /\ \A T \in SUBSET Open(r.first, r.last) :
                Cardinality(T) \in Nat /\ Cardinality(T) <= Cardinality(Open(r.first, r.last))
      <3>1. r.first \in Int /\ r.last \in Int
        BY <1>1
      <3>. QED BY <3>1, OpenIsFinite, Zenon
    <2>. QED BY <2>1, <2>2
  <1>. QED BY <1>1, <1>2, <1>3, <1>4 DEF WriteSound

LEMMA ReportsStay ==
    ASSUME GatewayType, CliType, ReportsSound, Fades, Outgrown, reports' \in Seq(Verdict),
           \A r \in ToSet(reports') :
              \/ r \in ToSet(reports)
              \/ /\ r.said \in {"committed", "failed"} => WriteSound(r)'
                 /\ r.said = "leads" => Backed(r.host, r.term)
    PROVE  ReportsSound'
  <1>1. arrivals \in Nat /\ ToSet(reports) \subseteq Verdict
    BY DEF GatewayType, CliType, ToSet
  <1>2. ASSUME NEW r \in ToSet(reports'), r.said \in {"committed", "failed"}
        PROVE  WriteSound(r)'
    <2>1. CASE r \in ToSet(reports)
      BY <1>1, <1>2, <2>1, WriteStaysSound DEF ReportsSound, Told
    <2>2. CASE r \notin ToSet(reports)
      BY <1>2, <2>2
    <2>. QED BY <2>1, <2>2
  <1>3. ASSUME NEW r \in ToSet(reports'), r.said = "leads"
        PROVE  Backed(r.host, r.term)'
    <2>1. Backed(r.host, r.term)
      BY <1>3 DEF ReportsSound, Told
    <2>. QED BY <2>1 DEF Backed, Outgrown
  <1>. QED BY <1>2, <1>3 DEF ReportsSound, Told

-----------------------------------------------------------------------------
(* What the command in progress knows.                                       *)

Trying == cli.pc \in {"dial", "await", "pause"}

LEMMA OneMore ==
    ASSUME NEW S, IsFiniteSet(S), NEW x, NEW T \in SUBSET (S \cup {x})
    PROVE  Cardinality(T) \in Nat /\ Cardinality(T) <= Cardinality(S) + 1
  <1>1. Cardinality(S) \in Nat
    BY FS_CardinalityType
  <1>2. IsFiniteSet(S \cup {x})
    BY FS_AddElement
  <1>3. Cardinality(S \cup {x}) = Cardinality(S) \/ Cardinality(S \cup {x}) = Cardinality(S) + 1
    BY FS_AddElement, Zenon
  <1>4. Cardinality(T) \in Nat /\ Cardinality(T) <= Cardinality(S \cup {x})
    BY <1>2, FS_Subset, FS_CardinalityType
  <1>. QED BY <1>1, <1>3, <1>4

\* Of the requests of the command so far, as many can be in a log as were cut,
\* and one more unless that one is out of the way.
LEMMA OpenCount ==
    ASSUME CliType, CountSound, arrivals \in Nat, Fades, Trying,
           NEW first, first = cli.first, NEW last, last = arrivals
    PROVE  /\ first \in 1..(last + 1) /\ first \in Nat \ {0} /\ last \in Nat
           /\ cli.cuts \in Nat /\ Cardinality(Open(first, last)') \in Nat
           /\ Cardinality(Open(first, last)') <= cli.cuts + 1
           /\ (\A id \in Awaited : ~Possible(id)') => Cardinality(Open(first, last)') <= cli.cuts
  <1>. DEFINE rest == Open(first, last) \ Awaited
  <1>1. /\ first \in 1..(last + 1) /\ first \in Nat \ {0} /\ last \in Nat
        /\ first \in Int /\ last \in Int
    BY DEF CountSound, Trying
  <1>2. Cardinality(rest) <= cli.cuts
    BY DEF CountSound, Trying
  <1>3. Open(first, last)' \subseteq Open(first, last)
    BY <1>1, OpenFades
  <1>4. \A T \in SUBSET Open(first, last) : IsFiniteSet(T) /\ Cardinality(T) \in Nat
    BY <1>1, OpenIsFinite, Zenon
  <1>5. IsFiniteSet(rest) /\ Cardinality(rest) \in Nat /\ cli.cuts \in Nat
    BY <1>4, KindOfCommand DEF Trying, Attempt
  <1>6. PICK id : Open(first, last) \subseteq rest \cup {id}
    BY DEF Awaited
  <1>7. (\A i \in Awaited : ~Possible(i)') => Open(first, last)' \subseteq rest
    BY <1>3 DEF Open
  <1>. HIDE DEF rest
  <1>8. Open(first, last)' \in SUBSET (rest \cup {id})
    BY <1>3, <1>6
  <1>9. Cardinality(Open(first, last)') \in Nat
        /\ Cardinality(Open(first, last)') <= Cardinality(rest) + 1
    BY <1>5, <1>8, OneMore
  <1>10. \A T \in SUBSET rest : Cardinality(T) <= Cardinality(rest)
    BY <1>5, FS_Subset
  <1>11. (\A i \in Awaited : ~Possible(i)')
         => Cardinality(Open(first, last)') <= Cardinality(rest)
    BY <1>7, <1>10
  <1>. QED BY <1>1, <1>2, <1>5, <1>9, <1>11

\* An attempt is over: its request is out of the way, or it counts as cut.
LEMMA CountNext ==
    ASSUME CliType, CountSound, arrivals \in Nat, arrivals' = arrivals, Fades, Trying,
           SameCommand(cli', cli), cli'.pc \in {"dial", "pause"},
           \/ /\ cli'.cuts = cli.cuts
              /\ \A id \in Awaited : ~Possible(id)'
           \/ cli'.cuts = cli.cuts + 1
    PROVE  CountSound'
  <1>1. PICK first : first = cli.first
    OBVIOUS
  <1>2. PICK last : last = arrivals
    OBVIOUS
  <1>3. cli'.first = first
    BY <1>1 DEF SameCommand
  <1>4. first \in 1..(last + 1) /\ Cardinality(Open(first, last)') <= cli'.cuts
    BY <1>1, <1>2, OpenCount
  <1>5. Awaited' = {} /\ cli'.first = first /\ arrivals' = last
    BY <1>2, <1>3 DEF Awaited
  <1>6. Open(cli.first, arrivals)' \ Awaited' = Open(first, last)'
    BY <1>5 DEF Open
  <1>. QED BY <1>4, <1>5, <1>6 DEF CountSound

UserSound ==
    /\ cli \in {Idle} \cup Attempt \cup Survey
    /\ AwaitSound /\ SettledSound /\ CountSound /\ SurveySound

LEMMA IdleUser ==
    ASSUME cli' = Idle
    PROVE  UserSound'
  <1>1. cli'.pc = "idle"
    BY DEF Idle
  <1>. QED BY <1>1 DEF UserSound, AwaitSound, SettledSound, CountSound, SurveySound

\* The command goes on to another attempt, or pauses.
LEMMA NextUser ==
    ASSUME CliType, CountSound, arrivals \in Nat, arrivals' = arrivals, Fades, Trying,
           SameCommand(cli', cli), cli'.pc \in {"dial", "pause"},
           \/ /\ cli'.cuts = cli.cuts
              /\ \A id \in Awaited : ~Possible(id)'
           \/ cli'.cuts = cli.cuts + 1,
           cli'.pc = "dial" /\ cli'.settled =>
              /\ Agreed'
              /\ cli'.redirects <= 1
              /\ cli'.redirects = 1 => cli'.node \in leads'
    PROVE  UserSound'
  <1>1. CountSound'
    BY CountNext
  <1>2. cli' \in Attempt
    BY DEF SameCommand
  <1>3. AwaitSound' /\ SurveySound' /\ SettledSound'
    BY DEF AwaitSound, SettledSound, SurveySound
  <1>. QED BY <1>1, <1>2, <1>3 DEF UserSound

\* The same attempt, or a new one after a redirect, while nothing is settled.
Unchanged(d) == d = cli \/ (cli # Idle /\ d = [cli EXCEPT !.settled = FALSE])

LEMMA UnchangedFacts ==
    ASSUME CliType, Unchanged(cli')
    PROVE  /\ cli' \in {Idle} \cup Attempt \cup Survey
           /\ cli'.pc = cli.pc
           /\ Trying => /\ cli'.conn = cli.conn /\ cli'.node = cli.node /\ cli'.first = cli.first
                        /\ cli'.cuts = cli.cuts /\ cli'.redirects = cli.redirects
                        /\ cli'.settled => cli.settled
           /\ cli.pc = "status" => cli'.st = cli.st
  <1>1. CASE cli' = cli
    BY <1>1 DEF CliType
  <1>2. CASE cli # Idle /\ cli' = [cli EXCEPT !.settled = FALSE]
    <2>1. CASE Trying
      <3>1. cli \in Attempt
        BY <2>1, KindOfCommand DEF Trying
      <3>. QED BY <1>2, <2>1, <3>1 DEF Attempt, Trying
    <2>2. CASE cli.pc = "status"
      <3>1. cli \in Survey
        BY <2>2, KindOfCommand
      <3>. QED BY <1>2, <2>2, <3>1 DEF Survey, Trying
    <2>. QED BY <1>2, <2>1, <2>2, KindOfCommand DEF Trying
  <1>. QED BY <1>1, <1>2 DEF Unchanged

LEMMA ReadStaysSound ==
    ASSUME LeadsSound, Outgrown, NEW n \in Node, NEW st \in Reads, ReadSound(n, st)
    PROVE  ReadSound(n, st)'
  <1>1. term[n] <= term'[n] /\ term[n] \in Nat /\ term'[n] \in Nat
    BY CliAssumption DEF Outgrown, LeadsSound, Terms
  <1>2. st.read \in {"term", "role", "all"} => st.term \in Nat
    BY CliAssumption DEF Reads, Terms
  <1>3. Backed(n, st.term) => Backed(n, st.term)'
    BY DEF Backed, Outgrown
  <1>. QED BY <1>1, <1>2, <1>3 DEF ReadSound

LEMMA SurveyOutgrown ==
    ASSUME CliType, LeadsSound, SurveySound, Outgrown, cli'.pc = cli.pc,
           cli.pc = "status" =>
              /\ DOMAIN cli'.st = DOMAIN cli.st
              /\ \A n \in DOMAIN cli.st :
                    \/ cli'.st[n] = cli.st[n]
                    \/ \A st : st = cli'.st[n] => ReadSound(n, st)'
    PROVE  SurveySound'
  <1>. SUFFICES ASSUME cli.pc = "status", NEW n \in DOMAIN cli.st, NEW st, st = cli'.st[n]
                PROVE  ReadSound(n, st)'
    BY DEF SurveySound, ReadSound
  <1>1. n \in Node /\ cli.st[n] \in Reads
    BY KindOfCommand, AddrsAreNodes DEF Survey
  <1>2. CASE st = cli.st[n]
    BY <1>1, <1>2, ReadStaysSound DEF SurveySound
  <1>. QED BY <1>2

\* The command stays where it is.
LEMMA UnchangedUser ==
    ASSUME CliType, LeadsSound, UserSound, arrivals \in Nat, arrivals' = arrivals,
           Fades, Outgrown, Unchanged(cli'),
           cli.pc = "await" => /\ request'[cli.conn] # Idle
                               /\ request'[cli.conn].id = request[cli.conn].id
                               /\ request'[cli.conn].node = request[cli.conn].node,
           cli'.settled /\ Trying =>
              /\ Still
              /\ cli.pc = "await" /\ request'[cli.conn].pc = "redirect" =>
                    At(cli.conn, "redirect") \/ cli.node \notin leads
    PROVE  UserSound'
  <1>1. /\ cli' \in {Idle} \cup Attempt \cup Survey
        /\ cli'.pc = cli.pc
        /\ Trying => /\ cli'.conn = cli.conn /\ cli'.node = cli.node /\ cli'.first = cli.first
                     /\ cli'.cuts = cli.cuts /\ cli'.redirects = cli.redirects
                     /\ cli'.settled => cli.settled
        /\ cli.pc = "status" => cli'.st = cli.st
    BY UnchangedFacts
  <1>2. AwaitSound'
    BY <1>1 DEF AwaitSound, UserSound, Trying, Live
  <1>3. SettledSound'
    <2>. SUFFICES ASSUME cli'.pc \in {"dial", "await"}, cli'.settled
                  PROVE  /\ Agreed'
                         /\ cli'.redirects <= 1
                         /\ cli'.redirects = 1 => cli'.node \in leads'
                         /\ cli'.pc = "await" /\ At(cli.conn, "redirect")' => cli'.node \notin leads'
      BY Zenon DEF SettledSound
    <2>1. Trying /\ cli.pc \in {"dial", "await"} /\ cli.settled /\ Still
      BY <1>1 DEF Trying
    <2>2. /\ Agreed
          /\ cli.redirects <= 1
          /\ cli.redirects = 1 => cli.node \in leads
          /\ cli.pc = "await" /\ At(cli.conn, "redirect") => cli.node \notin leads
      BY <2>1 DEF UserSound, SettledSound
    <2>3. Agreed'
      BY <2>1, <2>2 DEF Agreed, Still
    <2>4. leads' = leads
      BY <2>1 DEF Still
    <2>. QED BY <1>1, <2>1, <2>2, <2>3, <2>4 DEF At
  <1>4. CountSound'
    <2>. SUFFICES ASSUME Trying
                  PROVE  /\ cli'.first \in 1..(arrivals' + 1)
                         /\ Cardinality(Open(cli.first, arrivals)' \ Awaited') <= cli'.cuts
      BY <1>1, Zenon DEF CountSound, Trying
    <2>1. PICK first : first = cli.first
      OBVIOUS
    <2>2. PICK last : last = arrivals
      OBVIOUS
    <2>3. /\ first \in 1..(last + 1) /\ first \in Nat \ {0} /\ last \in Nat
          /\ first \in Int /\ last \in Int
          /\ cli.cuts \in Nat
          /\ Cardinality(Open(first, last) \ Awaited) <= cli.cuts
      BY <2>1, <2>2, KindOfCommand DEF UserSound, CountSound, Trying, Attempt
    <2>4. Open(first, last)' \subseteq Open(first, last)
      BY <2>2, <2>3, OpenFades
    <2>5. Awaited' = Awaited
      BY <1>1 DEF Awaited, Trying
    <2>6. IsFiniteSet(Open(first, last) \ Awaited)
      BY <2>3, OpenIsFinite, Zenon
    <2>7. \A T \in SUBSET (Open(first, last) \ Awaited) :
             /\ Cardinality(T) \in Nat
             /\ Cardinality(T) <= Cardinality(Open(first, last) \ Awaited)
      BY <2>6, FS_Subset, FS_CardinalityType
    <2>8. PICK rest : rest = Open(first, last)' \ Awaited
      OBVIOUS
    <2>9. Cardinality(rest) <= cli.cuts
      <3>1. rest \in SUBSET (Open(first, last) \ Awaited)
        BY <2>4, <2>8
      <3>2. Cardinality(Open(first, last) \ Awaited) \in Nat
        BY <2>6, FS_CardinalityType
      <3>. QED BY <2>3, <2>7, <3>1, <3>2
    <2>10. Open(cli.first, arrivals)' \ Awaited' = rest
      BY <1>1, <2>1, <2>2, <2>5, <2>8 DEF Open
    <2>. QED BY <1>1, <2>1, <2>2, <2>3, <2>9, <2>10
  <1>5. SurveySound'
    BY <1>1, SurveyOutgrown DEF UserSound
  <1>. QED BY <1>1, <1>2, <1>3, <1>4, <1>5 DEF UserSound

-----------------------------------------------------------------------------
(* What the CLI makes of a handler's step.                                   *)

\* It hears nothing of it.
GoesOn(h) ==
    /\ UNCHANGED user
    /\ Awaits(h) => request'[h] # Idle
    /\ request'[h] # Idle /\ request'[h].pc = "redirect" => request[h].node \notin leads

\* It has the response.
Finishes(h, status) ==
    /\ Awaits(h) /\ Response(status) /\ Live(h)
    /\ request' = [request EXCEPT ![h] = Idle]
    /\ UNCHANGED <<chosen, held, leads, arrivals>>
    /\ status \in {"read", "redirect", "unavailable", "refused", "error", "ok"}
    /\ status = "redirect" =>
          At(h, "redirect") /\ Leaders!LeaderID(request[h].node) # None
    /\ status = "ok" =>
          Contains(SubSeq(chosen, 1, applied[request[h].node]), Command(request[h]))
    /\ At(h, "wait") => status \in {"ok", "error"}

LEMMA HandleOutcome ==
    ASSUME GatewayInv, NEW h \in Client, Handle(h)
    PROVE  GoesOn(h) \/ \E status : Finishes(h, status)
  <1>. DEFINE Goal == GoesOn(h) \/ \E status : Finishes(h, status)
  <1>. SUFFICES Goal
    OBVIOUS
  <1>0. GatewayType
    BY DEF GatewayInv
  <1>1. ASSUME NEW pc \in PC, Go(h, pc), pc = "redirect" => request[h].node \notin leads,
               UNCHANGED user \/ \E status : Hears(h, status)
        PROVE  Goal
    <2>1. request'[h] # Idle /\ request'[h].pc = pc
      <3>1. request' = [request EXCEPT ![h].pc = pc]
        BY <1>1 DEF Go
      <3>2. request'[h].pc = pc \/ request[h] = Idle
        BY <1>0, <3>1 DEF GatewayType, Ticket
      <3>3. request[h] = Idle => request'[h].pc = pc
        BY <1>0, <3>1 DEF GatewayType, Idle
      <3>. QED BY <3>2, <3>3 DEF PC, Idle
    <2>2. UNCHANGED user
      BY <1>1, <2>1 DEF Hears
    <2>. QED BY <1>1, <2>1, <2>2 DEF GoesOn
  <1>2. ASSUME NEW status, NEW pc \in PC, NEW said,
               Answer(h, said), Hears(h, status), At(h, pc),
               status \in {"read", "redirect", "unavailable", "refused", "error", "ok"},
               status = "redirect" => pc = "redirect" /\ Leaders!LeaderID(request[h].node) # None,
               status = "ok" =>
                  Contains(SubSeq(chosen, 1, applied[request[h].node]), Command(request[h])),
               pc = "wait" => status \in {"ok", "error"}
        PROVE  Goal
    <2>1. /\ request' = [request EXCEPT ![h] = Idle] /\ request'[h] = Idle
          /\ UNCHANGED <<chosen, held, leads, arrivals>>
      BY <1>0, <1>2 DEF Answer, consensus, GatewayType
    <2>2. Live(h) /\ \A w : At(h, w) => w = pc
      BY <1>2 DEF At, Live, Idle, PC
    <2>3. CASE Awaits(h)
      <3>1. Response(status)
        BY <1>2, <2>1, <2>3 DEF Hears
      <3>. QED BY <1>2, <2>1, <2>2, <2>3, <3>1 DEF Finishes
    <2>4. CASE ~Awaits(h)
      BY <1>2, <2>1, <2>4 DEF Hears, GoesOn
    <2>. QED BY <2>3, <2>4
  <1>. HIDE DEF Goal
  <1>3. CASE HandleGet(h) /\ Hears(h, "read")
    <2>1. At(h, "route") /\ Answer(h, "read") /\ Hears(h, "read")
      BY <1>3 DEF HandleGet
    <2>. QED BY <1>2, <2>1 DEF PC
  <1>4. CASE RedirectIfFollower(h) /\ UNCHANGED user
    <2>1. \/ Go(h, "limits")
          \/ Go(h, "redirect") /\ request[h].node \notin leads
      BY <1>4 DEF RedirectIfFollower, IsLeader
    <2>2. UNCHANGED user
      BY <1>4
    <2>. QED BY <1>1, <2>1, <2>2 DEF PC
  <1>5. ASSUME NEW id \in {Leaders!LeaderID(request[h].node), None},
               Redirect(h, id), Hears(h, IF id = None THEN "unavailable" ELSE "redirect")
        PROVE  Goal
    BY <1>2, <1>5 DEF Redirect, PC
  <1>6. ASSUME EnforceWriteLimits(h) \/ StoreFull(h) \/ ReadValue(h), Hears(h, "refused")
        PROVE  Goal
    <2>1. ASSUME NEW old \in {"limits", "full"}, At(h, old), Admitted(h) PROVE Goal
      <3>1. request[h].method \in Writes
        BY <1>0, <2>1 DEF At, GatewayType
      <3>2. Go(h, "read") \/ Go(h, "exists") \/ Go(h, "propose")
        BY <2>1, <3>1 DEF Admitted, Writes
      <3>. QED BY <1>1, <1>6, <3>2 DEF PC
    <2>2. CASE EnforceWriteLimits(h)
      <3>1. At(h, "limits") /\ (Answer(h, "refused") \/ Go(h, "full") \/ Admitted(h))
        BY <2>2 DEF EnforceWriteLimits
      <3>. QED BY <1>1, <1>2, <1>6, <2>1, <3>1 DEF PC
    <2>3. CASE StoreFull(h)
      <3>1. At(h, "full") /\ (Answer(h, "refused") \/ Admitted(h))
        BY <2>3 DEF StoreFull
      <3>. QED BY <1>2, <1>6, <2>1, <3>1 DEF PC
    <2>4. CASE ReadValue(h)
      BY <1>1, <1>2, <1>6, <2>4 DEF ReadValue, PC
    <2>. QED BY <1>6, <2>2, <2>3, <2>4
  <1>7. ASSUME ProposeCommand(h) \/ ProposalFails(h), Hears(h, "error") PROVE Goal
    <2>1. CASE ProposeCommand(h) /\ IsLeader(request[h].node)
      <3>1. At(h, "propose") /\ request' = [request EXCEPT ![h].pc = "wait"]
        BY <2>1 DEF ProposeCommand
      <3>2. Live(h)
        BY <3>1 DEF At, Live, Idle
      <3>3. request'[h].pc = "wait"
        <4>1. request' = [request EXCEPT ![h] = Moved(h, "wait")]
          BY <3>1 DEF Moved
        <4>. QED BY <1>0, <3>2, <4>1, GoingOn DEF PC
      <3>4. request'[h] # Idle
        BY <3>3 DEF Idle
      <3>. QED BY <1>7, <3>3, <3>4 DEF Hears, GoesOn, Goal
    <2>2. CASE ProposeCommand(h) /\ ~IsLeader(request[h].node)
      BY <1>2, <1>7, <2>2 DEF ProposeCommand, PC
    <2>3. CASE ProposalFails(h)
      BY <1>2, <1>7, <2>3 DEF ProposalFails, PC
    <2>. QED BY <1>7, <2>1, <2>2, <2>3
  <1>8. CASE Committed(h) /\ Hears(h, "ok")
    <2>1. /\ At(h, "wait") /\ Answer(h, "ok") /\ Hears(h, "ok")
          /\ Contains(SubSeq(chosen, 1, applied[request[h].node]), Command(request[h]))
      BY <1>8 DEF Committed
    <2>. QED BY <1>2, <2>1 DEF PC
  <1>. QED BY <1>3, <1>4, <1>5, <1>6, <1>7, <1>8 DEF Handle

LEMMA AppendSet ==
    ASSUME NEW S, NEW s \in Seq(S), NEW x \in S
    PROVE  Append(s, x) \in Seq(S) /\ \A y \in ToSet(Append(s, x)) : y \in ToSet(s) \/ y = x
  BY DEF ToSet

\* A request that was not proposed is out of the way when its handler is done.
LEMMA NeverProposed ==
    ASSUME GatewayInv, NEW h \in Client, Live(h), ~At(h, "wait"),
           request' = [request EXCEPT ![h] = Idle], UNCHANGED <<chosen, held>>,
           NEW id, id = request[h].id
    PROVE  ~Possible(id)'
  <1>1. GatewayType /\ IdsSound /\ CommandsSound
    BY DEF GatewayInv
  <1>2. \A c \in Client : request'[c] # Idle => c # h /\ request'[c] = request[c]
    BY <1>1 DEF GatewayType
  <1>3. \A c \in Client : request'[c] # Idle => request'[c].id # id
    BY <1>1, <1>2 DEF IdsSound, Live
  <1>4. Held' = Held /\ chosen' = chosen
    BY HeldStays
  <1>5. \A cmd \in Held \cup ToSet(chosen) : cmd.id # id
    BY <1>1 DEF CommandsSound, Proposed
  <1>. QED BY <1>3, <1>4, <1>5 DEF Possible, Live

\* The end of a command that was sent at least once.
LEMMA ReportSound ==
    ASSUME CliType, CountSound, ReportsSound, GatewayType, arrivals' = arrivals, Fades, Outgrown,
           Trying, NEW status \in {"read", "ok", "error", "refused", "gaveUp"}, Report(status),
           status \in {"refused", "gaveUp"} => \A id \in Awaited : ~Possible(id)',
           status = "ok" =>
              \E p \in DOMAIN chosen' : chosen'[p].id \in cli.first..arrivals
    PROVE  ReportsSound' /\ reports' \in Seq(Verdict) /\ UserSound'
  <1>1. PICK first : first = cli.first
    OBVIOUS
  <1>2. PICK last : last = arrivals
    OBVIOUS
  <1>3. PICK r : r = [said |-> Says(cli.method, status), status |-> status,
                      method |-> cli.method, first |-> first, last |-> last, cuts |-> cli.cuts]
    OBVIOUS
  <1>4. reports' = Append(reports, r) /\ cli' = Idle
    BY <1>1, <1>2, <1>3 DEF Report
  <1>5. /\ first \in Nat \ {0} /\ last \in Nat
        /\ cli.cuts \in Nat /\ Cardinality(Open(first, last)') \in Nat
        /\ Cardinality(Open(first, last)') <= cli.cuts + 1
        /\ (\A id \in Awaited : ~Possible(id)') => Cardinality(Open(first, last)') <= cli.cuts
    BY <1>1, <1>2, OpenCount DEF GatewayType
  <1>6. cli.method \in Method
    BY KindOfCommand DEF Trying, Attempt
  <1>7. /\ Says(cli.method, status) \in {"read", "committed", "failed"}
        /\ Says(cli.method, status) = "committed" => status = "ok"
        /\ Says(cli.method, status) # "read" => status # "read"
    BY DEF Says
  <1>8. r \in Verdict /\ r.said # "leads"
    BY <1>3, <1>5, <1>6, <1>7 DEF Verdict
  <1>9. ASSUME r.said \in {"committed", "failed"} PROVE WriteSound(r)'
    <2>1. r.first = first /\ r.last = last /\ r.cuts = cli.cuts /\ r.status = status
      BY <1>3
    <2>2. r.said = "committed" => status = "ok"
      BY <1>3, <1>7
    <2>3. status # "read"
      BY <1>3, <1>7, <1>9
    <2>4. r.said = "committed" => \E p \in DOMAIN chosen' : chosen'[p].id \in r.first..r.last
      BY <1>1, <1>2, <2>1, <2>2
    <2>5. Cardinality(Open(first, last)')
             <= cli.cuts + (IF status \in {"ok", "error"} THEN 1 ELSE 0)
      <3>1. CASE status \in {"ok", "error"}
        BY <1>5, <3>1
      <3>2. CASE status \in {"refused", "gaveUp"}
        BY <1>5, <3>2
      <3>. QED BY <2>3, <3>1, <3>2
    <2>6. Open(r.first, r.last)' = Open(first, last)'
      BY <2>1 DEF Open
    <2>. QED BY <1>2, <1>5, <2>1, <2>4, <2>5, <2>6 DEF WriteSound
  <1>10. /\ reports' \in Seq(Verdict)
         /\ \A x \in ToSet(reports') : x \in ToSet(reports) \/ x = r
    BY <1>4, <1>8, AppendSet DEF CliType
  <1>11. ReportsSound'
    BY <1>8, <1>9, <1>10, ReportsStay
  <1>. QED BY <1>4, <1>10, <1>11, IdleUser

-----------------------------------------------------------------------------
(* The steps, one by one.                                                    *)

\* What the step leaves of what the command and the user know.
UserKept == UserSound' /\ ReportsSound' /\ reports' \in Seq(Verdict)

LEMMA SameReports ==
    ASSUME GatewayType, CliType, ReportsSound, Fades, Outgrown, reports' = reports
    PROVE  ReportsSound' /\ reports' \in Seq(Verdict)
  BY ReportsStay DEF CliType

LEMMA InvFacts ==
    ASSUME CliInv
    PROVE  /\ GatewayInv /\ GatewayType /\ IdsSound /\ CommandsSound
           /\ CliType /\ LeadsSound /\ AwaitSound /\ SettledSound
           /\ CountSound /\ SurveySound /\ ReportsSound /\ UserSound
           /\ arrivals \in Nat
  BY DEF CliInv, GatewayInv, GatewayType, CliType, UserSound

LEMMA GoesOnKeeps ==
    ASSUME CliInv, Fades, Outgrown, NEW h \in Client, Handle(h), GoesOn(h)
    PROVE  UserKept
  <1>1. /\ leads' = leads /\ arrivals' = arrivals
        /\ \A c \in Client \ {h} : request'[c] = request[c]
        /\ request'[h] # Idle => request'[h].id = request[h].id
                                 /\ request'[h].node = request[h].node
    BY InvFacts, HandleHandles, HandlersAreStill
  <1>2. Still /\ cli' = cli /\ reports' = reports
    BY <1>1 DEF Handle, Still, GoesOn, user
  <1>3. ASSUME cli.pc = "await"
        PROVE  /\ request'[cli.conn] # Idle
               /\ request'[cli.conn].id = request[cli.conn].id
               /\ request'[cli.conn].node = request[cli.conn].node
               /\ request'[cli.conn].pc = "redirect" =>
                     At(cli.conn, "redirect") \/ cli.node \notin leads
    <2>1. cli.conn \in Client /\ request[cli.conn] # Idle /\ request[cli.conn].node = cli.node
      BY <1>3, InvFacts DEF AwaitSound, Live
    <2>2. CASE cli.conn = h
      <3>1. request'[h] # Idle
        BY <1>3, <2>2 DEF GoesOn, Awaits
      <3>. QED BY <1>1, <2>1, <2>2, <3>1 DEF GoesOn
    <2>3. CASE cli.conn # h
      <3>1. request'[cli.conn] = request[cli.conn]
        BY <1>1, <2>1, <2>3
      <3>. QED BY <2>1, <3>1 DEF At
    <2>. QED BY <2>2, <2>3
  <1>4. UserSound'
    BY <1>1, <1>2, <1>3, InvFacts, UnchangedUser DEF Unchanged
  <1>. QED BY <1>2, <1>4, InvFacts, SameReports DEF UserKept

LEMMA FinishesKeeps ==
    ASSUME CliInv, Fades, Outgrown, NEW h \in Client, Handle(h), NEW status, Finishes(h, status)
    PROVE  UserKept
  <1>1. /\ cli.pc = "await" /\ cli.conn = h /\ Live(h) /\ Trying
        /\ request' = [request EXCEPT ![h] = Idle]
        /\ UNCHANGED <<chosen, held, leads, arrivals>>
    BY DEF Finishes, Awaits, Trying
  <1>2. /\ request[h].node = cli.node /\ request[h].id >= cli.first
        /\ request[h].id \in 1..arrivals
    BY <1>1, InvFacts DEF AwaitSound, IdsSound
  <1>3. Still
    BY <1>1 DEF Handle, Still
  <1>4. cli \in Attempt /\ cli.first \in Nat \ {0}
    BY <1>1, InvFacts, KindOfCommand DEF CountSound, Trying
  <1>5. Agreed' = Agreed
    BY <1>3 DEF Still, Agreed
  <1>6. ASSUME ~At(h, "wait") PROVE \A id \in Awaited : ~Possible(id)'
    BY <1>1, <1>6, InvFacts, NeverProposed DEF Awaited
  <1>7. CASE status = "redirect"
    <2>1. /\ cli' = FollowRedirect(cli, Leaders!LeaderID(cli.node)) /\ reports' = reports
      BY <1>7 DEF Finishes, Response, Retryable
    <2>2. PICK target : target = Leaders!LeaderID(cli.node)
      OBVIOUS
    <2>3. /\ At(h, "redirect") /\ target # None /\ target \in Node
          /\ cli.node \notin leads => target = leaderID[cli.node]
      BY <1>2, <1>4, <1>7, <2>2, InvFacts
         DEF Finishes, Leaders!LeaderID, Attempt, GatewayType, CliType
    <2>4. /\ SameCommand(cli', cli) /\ cli'.cuts = cli.cuts
          /\ cli'.pc \in {"dial", "pause"}
          /\ cli'.pc = "dial" =>
                \/ cli'.redirects = 0 /\ cli'.settled = Agreed
                \/ cli'.redirects = cli.redirects + 1 /\ cli'.settled = cli.settled
                   /\ cli'.node = target
      BY <1>4, <2>1, <2>2, <2>3, FollowRedirectFacts
    <2>5. ~At(h, "wait")
      BY <2>3 DEF At
    <2>6. ASSUME cli'.pc = "dial", cli'.settled
          PROVE  /\ Agreed'
                 /\ cli'.redirects <= 1
                 /\ cli'.redirects = 1 => cli'.node \in leads'
      <3>1. CASE cli'.redirects = 0 /\ cli'.settled = Agreed
        BY <1>5, <2>6, <3>1
      <3>2. CASE /\ cli'.redirects = cli.redirects + 1 /\ cli'.settled = cli.settled
                 /\ cli'.node = target
        <4>1. /\ Agreed /\ cli.redirects <= 1
              /\ cli.redirects = 1 => cli.node \in leads
              /\ cli.node \notin leads
          BY <1>1, <2>3, <2>6, <3>2, InvFacts DEF SettledSound
        <4>2. cli.redirects = 0
          BY <1>4, <4>1 DEF Attempt
        <4>3. target \in leads
          BY <1>4, <2>3, <4>1 DEF Agreed, Attempt
        <4>. QED BY <1>1, <1>5, <3>2, <4>1, <4>2, <4>3
      <3>. QED BY <2>4, <2>6, <3>1, <3>2
    <2>7. UserSound'
      BY <1>1, <1>6, <2>4, <2>5, <2>6, InvFacts, NextUser
    <2>. QED BY <2>1, <2>7, InvFacts, SameReports DEF UserKept
  <1>8. CASE status = "unavailable"
    <2>1. cli' = NextNode(cli) /\ reports' = reports
      BY <1>8 DEF Finishes, Response, Retryable
    <2>2. ~At(h, "wait")
      BY <1>8 DEF Finishes
    <2>3. UserSound'
      BY <1>1, <1>4, <1>5, <1>6, <2>1, <2>2, InvFacts, NextNodeFacts, NextUser
    <2>. QED BY <2>1, <2>3, InvFacts, SameReports DEF UserKept
  <1>9. CASE status \notin {"redirect", "unavailable"}
    <2>1. Report(status) /\ status \in {"read", "ok", "error", "refused"}
      BY <1>9 DEF Finishes, Response, Retryable
    <2>2. ASSUME status = "ok"
          PROVE  \E p \in DOMAIN chosen' : chosen'[p].id \in cli.first..arrivals
      <3>1. \E p \in Places(request[h].id) : p <= applied[request[h].node]
        BY <1>1, <2>2, InvFacts, SuccessApplied DEF Finishes
      <3>2. \E p \in DOMAIN chosen : chosen[p].id = request[h].id
        BY <3>1 DEF Places
      <3>3. request[h].id \in cli.first..arrivals
        BY <1>2, <1>4, InvFacts
      <3>. QED BY <1>1, <3>2, <3>3
    <2>3. status = "refused" => \A id \in Awaited : ~Possible(id)'
      BY <1>6 DEF Finishes
    <2>. QED BY <1>1, <2>1, <2>2, <2>3, InvFacts, ReportSound DEF UserKept
  <1>. QED BY <1>7, <1>8, <1>9

LEMMA DialKeeps ==
    ASSUME CliInv, Fades, Outgrown, NEW h \in Client, Dial(h)
    PROVE  UserKept
  <1>. DEFINE new == [pc |-> "route", node |-> cli.node, method |-> cli.method, key |-> cli.key,
                      id |-> arrivals + 1, after |-> {a.id : a \in answered}, era |-> elections]
  <1>1. /\ cli.pc = "dial" /\ arrivals' = arrivals + 1
        /\ request' = [request EXCEPT ![h] = new]
        /\ cli' = [cli EXCEPT !.pc = "await", !.conn = h] /\ reports' = reports
    BY DEF Dial, Arrive
  <1>2. Still
    BY DEF Dial, Arrive, consensus, Still
  <1>3. cli \in Attempt /\ Trying
    BY <1>1, InvFacts, KindOfCommand DEF Trying
  <1>4. /\ cli' \in Attempt /\ cli'.pc = "await" /\ cli'.conn = h
        /\ cli'.first = cli.first /\ cli'.cuts = cli.cuts /\ cli'.node = cli.node
        /\ cli'.redirects = cli.redirects /\ cli'.settled = cli.settled
    BY <1>1, <1>3 DEF Attempt
  <1>5. request'[h] = new
    BY <1>1, InvFacts DEF GatewayType
  <1>6. /\ request'[h] # Idle /\ request'[h].node = cli.node /\ request'[h].id = arrivals + 1
        /\ request'[h].pc = "route"
    BY <1>5 DEF Idle
  <1>. HIDE DEF new
  <1>7. PICK first : first = cli.first
    OBVIOUS
  <1>8. PICK last : last = arrivals
    OBVIOUS
  <1>9. /\ first \in 1..(last + 1) /\ first \in Nat \ {0} /\ last \in Nat
        /\ cli.cuts \in Nat
        /\ Cardinality(Open(first, last)) <= cli.cuts
    <2>1. Open(first, last) \ Awaited = Open(first, last)
      BY <1>1 DEF Awaited
    <2>2. /\ first \in 1..(last + 1) /\ last \in Nat
          /\ Cardinality(Open(first, last) \ Awaited) <= cli.cuts
      BY <1>1, <1>7, <1>8, InvFacts DEF CountSound
    <2>3. Cardinality(Open(first, last)) <= cli.cuts
      BY <2>1, <2>2, Zenon
    <2>. QED BY <1>3, <2>2, <2>3 DEF Attempt
  <1>10. AwaitSound'
    BY <1>4, <1>6, <1>7, <1>8, <1>9 DEF AwaitSound, Live
  <1>11. SettledSound'
    <2>. SUFFICES ASSUME cli'.settled
                  PROVE  /\ Agreed'
                         /\ cli'.redirects <= 1
                         /\ cli'.redirects = 1 => cli'.node \in leads'
      BY <1>4, <1>6, Zenon DEF SettledSound, At
    <2>1. /\ Agreed
          /\ cli.redirects <= 1
          /\ cli.redirects = 1 => cli.node \in leads
      BY <1>1, <1>4, InvFacts DEF SettledSound
    <2>2. Agreed'
      BY <1>2, <2>1 DEF Still, Agreed
    <2>. QED BY <1>2, <1>4, <2>1, <2>2 DEF Still
  <1>12. CountSound'
    <2>1. Open(first, last)' \subseteq Open(first, last)
      BY <1>8, <1>9, OpenFades
    <2>2. PICK rest : rest = Open(cli.first, arrivals)' \ Awaited'
      OBVIOUS
    <2>3. rest \subseteq Open(first, last)'
      <3>1. Awaited' = {arrivals + 1}
        BY <1>4, <1>6 DEF Awaited
      <3>2. \A i \in first..(last + 1) : i # last + 1 => i \in first..last
        BY <1>9
      <3>. QED BY <1>1, <1>4, <1>7, <1>8, <2>2, <3>1, <3>2 DEF Open
    <2>4. rest \in SUBSET Open(first, last)
      BY <2>1, <2>3
    <2>5. first \in Int /\ last \in Int
      BY <1>9
    <2>6. /\ Cardinality(Open(first, last)) \in Nat
          /\ \A T \in SUBSET Open(first, last) :
                Cardinality(T) \in Nat /\ Cardinality(T) <= Cardinality(Open(first, last))
      BY <2>5, OpenIsFinite, Zenon
    <2>7. Cardinality(rest) <= cli.cuts
      BY <1>9, <2>4, <2>6
    <2>8. first \in 1..(arrivals' + 1)
      BY <1>1, <1>8, <1>9
    <2>. QED BY <1>4, <1>7, <2>2, <2>7, <2>8 DEF CountSound
  <1>13. SurveySound'
    BY <1>4 DEF SurveySound
  <1>14. UserSound'
    BY <1>4, <1>10, <1>11, <1>12, <1>13 DEF UserSound
  <1>. QED BY <1>1, <1>14, InvFacts, SameReports DEF UserKept

LEMMA RunCommandKeeps ==
    ASSUME CliInv, Fades, Outgrown, NEW method \in Method, NEW k \in Key, RunCommand(method, k)
    PROVE  UserKept
  <1>. DEFINE d == [pc |-> "dial", method |-> method, key |-> k, at |-> 1, node |-> None,
                    redirects |-> 0, cycle |-> 1, conn |-> None,
                    first |-> arrivals + 1, cuts |-> 0, settled |-> FALSE]
  <1>1. cli' = Try(d, 1) /\ reports' = reports /\ UNCHANGED vars
    BY DEF RunCommand
  <1>2. 1 \in 1..Len(Addrs)
    BY AddrsAreNodes
  <1>3. d \in Fresh /\ d.first = arrivals + 1 /\ d.cuts = 0
    BY InvFacts DEF Fresh
  <1>. HIDE DEF d
  <1>5. /\ cli' \in Attempt /\ cli'.first = arrivals + 1 /\ cli'.cuts = 0
        /\ cli'.pc = "dial" /\ cli'.redirects = 0 /\ cli'.settled = Agreed
    BY <1>1, <1>2, <1>3, TryFacts DEF SameCommand
  <1>6. Still /\ arrivals' = arrivals
    BY <1>1 DEF RunCommand, vars, consensus, Still
  <1>7. Agreed' = Agreed
    BY <1>6 DEF Still, Agreed
  <1>8. AwaitSound' /\ SurveySound' /\ SettledSound'
    BY <1>5, <1>7 DEF AwaitSound, SurveySound, SettledSound
  <1>9. CountSound'
    <2>1. Open(cli.first, arrivals)' = {}
      BY <1>5, <1>6, InvFacts DEF Open
    <2>2. Cardinality(Open(cli.first, arrivals)' \ Awaited') = 0
      BY <2>1, FS_EmptySet
    <2>. QED BY <1>5, <1>6, <2>2, InvFacts DEF CountSound
  <1>10. UserSound'
    BY <1>5, <1>8, <1>9 DEF UserSound
  <1>. QED BY <1>1, <1>10, InvFacts, SameReports DEF UserKept

LEMMA CutFacts ==
    ASSUME CliType, cli.pc = "await"
    PROVE  LET e == NextNode([cli EXCEPT !.cuts = @ + 1])
           IN  /\ SameCommand(e, cli) /\ e.cuts = cli.cuts + 1
               /\ e.pc \in {"dial", "pause"}
               /\ e.pc = "dial" => e.redirects = 0 /\ e.settled = Agreed
  <1>. DEFINE d == [cli EXCEPT !.cuts = @ + 1]
  <1>1. cli \in Attempt
    BY KindOfCommand
  <1>2. /\ d \in Attempt /\ d.method = cli.method /\ d.key = cli.key /\ d.first = cli.first
        /\ d.cuts = cli.cuts + 1
    BY <1>1 DEF Attempt
  <1>. HIDE DEF d
  <1>3. /\ SameCommand(NextNode(d), d) /\ NextNode(d).cuts = d.cuts
        /\ NextNode(d).pc \in {"dial", "pause"}
        /\ NextNode(d).pc = "dial" => NextNode(d).redirects = 0 /\ NextNode(d).settled = Agreed
    BY <1>2, NextNodeFacts
  <1>4. SameCommand(NextNode(d), cli) /\ NextNode(d).cuts = cli.cuts + 1
    BY <1>2, <1>3 DEF SameCommand
  <1>. QED BY <1>3, <1>4 DEF d

\* Unreached, Cut and Retry.
LEMMA OnwardKeeps ==
    ASSUME CliInv, Fades, Outgrown, Unreached \/ Cut \/ Retry
    PROVE  UserKept
  <1>1. UNCHANGED vars /\ reports' = reports /\ Trying
    BY DEF Unreached, Cut, Retry, Trying
  <1>2. Still /\ arrivals' = arrivals
    BY <1>1 DEF Unreached, Cut, Retry, vars, consensus, Still
  <1>3. Agreed' = Agreed
    BY <1>2 DEF Still, Agreed
  <1>4. cli \in Attempt
    BY <1>1, InvFacts, KindOfCommand DEF Trying
  <1>5. cli.pc # "await" => Awaited = {}
    BY DEF Awaited
  <1>6. CASE Unreached
    <2>1. cli' = NextNode(cli) /\ cli.pc = "dial"
      BY <1>6 DEF Unreached
    <2>2. UserSound'
      BY <1>1, <1>2, <1>3, <1>4, <1>5, <2>1, InvFacts, NextNodeFacts, NextUser
    <2>. QED BY <1>1, <2>2, InvFacts, SameReports DEF UserKept
  <1>7. CASE Cut
    <2>1. cli' = NextNode([cli EXCEPT !.cuts = @ + 1]) /\ cli.pc = "await"
      BY <1>7 DEF Cut
    <2>2. /\ SameCommand(cli', cli) /\ cli'.cuts = cli.cuts + 1
          /\ cli'.pc \in {"dial", "pause"}
          /\ cli'.pc = "dial" => cli'.redirects = 0 /\ cli'.settled = Agreed
      BY <2>1, InvFacts, CutFacts
    <2>3. UserSound'
      BY <1>1, <1>2, <1>3, <2>2, InvFacts, NextUser
    <2>. QED BY <1>1, <2>3, InvFacts, SameReports DEF UserKept
  <1>8. CASE Retry
    <2>. DEFINE d == [cli EXCEPT !.cycle = @ + 1]
    <2>1. cli' = Try(d, 1) /\ cli.pc = "pause"
      BY <1>8 DEF Retry
    <2>2. /\ d \in Attempt /\ d.method = cli.method /\ d.key = cli.key /\ d.first = cli.first
          /\ d.cuts = cli.cuts
      BY <1>4 DEF Attempt
    <2>. HIDE DEF d
    <2>3. 1 \in 1..Len(Addrs)
      BY AddrsAreNodes
    <2>4. /\ SameCommand(cli', d) /\ cli'.cuts = d.cuts /\ cli'.pc = "dial"
          /\ cli'.redirects = 0 /\ cli'.settled = Agreed
      BY <2>1, <2>2, <2>3, TryFacts
    <2>5. SameCommand(cli', cli) /\ cli'.cuts = cli.cuts
      BY <2>2, <2>4 DEF SameCommand
    <2>6. UserSound'
      BY <1>1, <1>2, <1>3, <1>5, <2>1, <2>4, <2>5, InvFacts, NextUser
    <2>. QED BY <1>1, <2>6, InvFacts, SameReports DEF UserKept
  <1>. QED BY <1>6, <1>7, <1>8

LEMMA GiveUpKeeps ==
    ASSUME CliInv, Fades, Outgrown, GiveUp
    PROVE  UserKept
  <1>1. UNCHANGED vars /\ cli.pc = "pause" /\ Trying /\ Report("gaveUp")
    BY DEF GiveUp, Trying
  <1>2. arrivals' = arrivals
    BY <1>1 DEF vars
  <1>3. Awaited = {}
    BY <1>1 DEF Awaited
  <1>. QED BY <1>1, <1>2, <1>3, InvFacts, ReportSound DEF UserKept

-----------------------------------------------------------------------------
(* The status command.                                                       *)

LEMMA SurveyUser ==
    ASSUME cli' \in Survey, SurveySound'
    PROVE  UserSound'
  <1>1. cli'.pc = "status"
    BY DEF Survey
  <1>. QED BY <1>1 DEF UserSound, AwaitSound, SettledSound, CountSound

LEMMA RunStatusKeeps ==
    ASSUME CliInv, Fades, Outgrown, RunStatus
    PROVE  UserKept
  <1>1. /\ cli' = [pc |-> "status", settled |-> FALSE,
                   st |-> [n \in ToSet(Addrs) |-> [read |-> "nothing"]]]
        /\ reports' = reports
    BY DEF RunStatus
  <1>2. [n \in ToSet(Addrs) |-> [read |-> "nothing"]] \in [ToSet(Addrs) -> Reads]
    BY DEF Reads
  <1>3. cli' \in Survey
    BY <1>1, <1>2 DEF Survey
  <1>4. SurveySound'
    BY <1>1 DEF SurveySound, ReadSound
  <1>. QED BY <1>1, <1>3, <1>4, InvFacts, SurveyUser, SameReports DEF UserKept

\* One node's answer goes on, or is lost.
LEMMA AnswerGoesOn ==
    ASSUME CliInv, Fades, Outgrown, cli.pc = "status", NEW n \in DOMAIN cli.st, NEW st \in Reads,
           cli' = [cli EXCEPT !.st[n] = st], ReadSound(n, st)', reports' = reports
    PROVE  UserKept
  <1>1. cli \in Survey
    BY InvFacts, KindOfCommand
  <1>2. /\ cli'.st = [cli.st EXCEPT ![n] = st] /\ cli'.pc = cli.pc /\ cli' \in Survey
        /\ cli.st \in [ToSet(Addrs) -> Reads]
    BY <1>1 DEF Survey
  <1>3. /\ DOMAIN cli'.st = DOMAIN cli.st
        /\ cli'.st[n] = st /\ \A m \in DOMAIN cli.st : m # n => cli'.st[m] = cli.st[m]
    BY <1>2
  <1>4. \A m \in DOMAIN cli.st :
           \/ cli'.st[m] = cli.st[m]
           \/ \A rd : rd = cli'.st[m] => ReadSound(m, rd)'
    BY <1>3
  <1>5. SurveySound'
    BY <1>2, <1>3, <1>4, InvFacts, SurveyOutgrown
  <1>. QED BY <1>2, <1>5, InvFacts, SurveyUser, SameReports DEF UserKept

\* The answer of one node has come further, or is lost.
Nearer(read, old) ==
    \/ old = "nothing" /\ read \in {"term", "lost"}
    \/ old = "term" /\ read \in {"role", "lost"}
    \/ old = "role" /\ read \in {"all", "lost"}

LEMMA HandleStatusReads ==
    ASSUME CliInv, NEW n \in Node, HandleStatus(n)
    PROVE  \E st \in Reads :
              /\ cli' = [cli EXCEPT !.st[n] = st] /\ ReadSound(n, st)
              /\ Nearer(st.read, cli.st[n].read)
  <1>1. /\ cli.pc = "status" /\ n \in DOMAIN cli.st /\ cli.st[n].read \notin {"all", "lost"}
        /\ UNCHANGED vars /\ term' = term /\ elected' = elected /\ reports' = reports
    BY DEF HandleStatus, Reading
  <1>2. PICK st \in {ReadStatus(n, cli.st[n]), [read |-> "lost"]} : cli' = [cli EXCEPT !.st[n] = st]
    BY DEF HandleStatus
  <1>3. PICK old \in Reads : old = cli.st[n] /\ ReadSound(n, old)
    <2>1. cli.st \in [ToSet(Addrs) -> Reads] /\ cli.st[n] \in Reads
      BY <1>1, InvFacts, KindOfCommand DEF Survey
    <2>2. PICK old : old = cli.st[n]
      OBVIOUS
    <2>3. ReadSound(n, old)
      BY <1>1, <2>2, InvFacts DEF SurveySound, ReadSound
    <2>. QED BY <2>1, <2>2, <2>3
  <1>4. term[n] \in Terms /\ term[n] \in Nat /\ (n \in leads => Backed(n, term[n]))
    <2>1. term[n] \in Terms /\ (n \in leads => Won(n, term[n]))
      BY InvFacts DEF LeadsSound
    <2>2. term[n] \in Nat
      BY <2>1, CliAssumption DEF Terms
    <2>. QED BY <2>1, <2>2 DEF Won, Backed
  <1>5. Leaders!LeaderID(n) \in Node \cup {None} /\ (n \in leads) \in BOOLEAN
    BY InvFacts DEF CliType, Leaders!LeaderID
  <1>6. st \in Reads /\ ReadSound(n, st)
    <2>1. CASE st = [read |-> "lost"]
      BY <2>1 DEF Reads, ReadSound
    <2>2. CASE st = ReadStatus(n, old) /\ old.read = "nothing"
      <3>1. st = [read |-> "term", term |-> term[n]]
        BY <2>2 DEF ReadStatus
      <3>. QED BY <1>4, <3>1 DEF Reads, ReadSound
    <2>3. CASE st = ReadStatus(n, old) /\ old.read = "term"
      <3>1. st = [read |-> "role", term |-> old.term, isLeader |-> n \in leads]
        BY <2>3 DEF ReadStatus
      <3>2. old.term \in Terms /\ old.term \in Nat /\ old.term <= term[n]
        BY <1>3, <2>3, CliAssumption DEF Reads, ReadSound, Terms
      <3>3. n \in leads => Backed(n, old.term)
        BY <1>4, <3>2, InvFacts, CliAssumption DEF Backed, LeadsSound, Terms
      <3>. QED BY <1>5, <3>1, <3>2, <3>3 DEF Reads, ReadSound
    <2>4. CASE st = ReadStatus(n, old) /\ old.read = "role"
      <3>1. st = [read |-> "all", term |-> old.term, isLeader |-> old.isLeader,
                  leader |-> Leaders!LeaderID(n)]
        BY <2>4 DEF ReadStatus
      <3>2. old.term \in Terms /\ old.isLeader \in BOOLEAN
        BY <1>3, <2>4 DEF Reads
      <3>3. old.term <= term[n] /\ (old.isLeader => Backed(n, old.term))
        BY <1>3, <2>4 DEF ReadSound
      <3>. QED BY <1>5, <3>1, <3>2, <3>3 DEF Reads, ReadSound
    <2>. QED BY <1>1, <1>2, <1>3, <2>1, <2>2, <2>3, <2>4 DEF Reads
  <1>7. Nearer(st.read, old.read)
    BY <1>1, <1>2, <1>3 DEF ReadStatus, Nearer, Reads
  <1>. QED BY <1>2, <1>3, <1>6, <1>7

LEMMA HandleStatusKeeps ==
    ASSUME CliInv, Fades, Outgrown, NEW n \in Node, HandleStatus(n)
    PROVE  UserKept
  <1>1. cli.pc = "status" /\ n \in DOMAIN cli.st /\ reports' = reports
    BY DEF HandleStatus, Reading
  <1>2. PICK st \in Reads : cli' = [cli EXCEPT !.st[n] = st] /\ ReadSound(n, st)
    BY HandleStatusReads
  <1>3. ReadSound(n, st)'
    BY <1>2, InvFacts, ReadStaysSound
  <1>. QED BY <1>1, <1>2, <1>3, AnswerGoesOn

\* A set of natural numbers has a least element.
LEMMA LeastExists ==
    ASSUME NEW S \in SUBSET Nat, S # {}
    PROVE  \E x \in S : \A y \in S : x <= y
  <1>. DEFINE less == OpToRel(<, Nat)
  <1>1. IsWellFoundedOn(less, Nat)
    BY NatLessThanWellFounded
  <1>2. PICK x \in S : \A y \in S : ~ (<<y, x>> \in less)
    <2>. HIDE DEF less
    <2>. QED BY <1>1, WFMin
  <1>3. \A y \in S : ~(y < x)
    BY <1>2 DEF OpToRel
  <1>. QED BY <1>3

LEMMA PositionIsNat ==
    ASSUME NEW n
    PROVE  Position(n) \in Nat
  <1>. DEFINE I == {i \in 1..Len(Addrs) : Addrs[i] = n}
  <1>1. Position(n) = IF I # {} THEN Min(I) ELSE 0
    BY DEF Position, SelectInSeq
  <1>2. I \in SUBSET Nat
    OBVIOUS
  <1>. HIDE DEF I
  <1>3. CASE I # {}
    <2>1. \E x \in I : \A y \in I : x <= y
      BY <1>2, <1>3, LeastExists
    <2>2. Min(I) \in I
      BY <2>1 DEF Min
    <2>. QED BY <1>1, <1>2, <1>3, <2>2
  <1>. QED BY <1>1, <1>3

\* Of the claims there is one that leaderOf prefers.
LEMMA LeaderOfClaims ==
    ASSUME NEW st \in [ToSet(Addrs) -> Reads], Claims(st) # {}
    PROVE  LeaderOf(st) \in Claims(st)
  <1>. DEFINE Short(n) == MaxTerm + 1 - st[n].term
              Shorts == {Short(n) : n \in Claims(st)}
  <1>1. \A n \in Claims(st) : st[n].term \in Terms
    BY DEF Claims, Reads
  <1>2. \A n \in Claims(st) : Short(n) \in Nat /\ st[n].term \in Nat
    <2>1. MaxTerm \in Nat
      BY CliAssumption
    <2>2. \A t \in Terms : MaxTerm + 1 - t \in Nat /\ t \in Nat
      BY <2>1 DEF Terms
    <2>. QED BY <1>1, <2>2
  <1>3. Shorts \in SUBSET Nat /\ Shorts # {}
    BY <1>2
  <1>4. PICK n \in Claims(st) : \A m \in Claims(st) : Short(n) <= Short(m)
    <2>. HIDE DEF Short
    <2>1. \E x \in Shorts : \A y \in Shorts : x <= y
      <3>. HIDE DEF Shorts
      <3>. QED BY <1>3, LeastExists
    <2>. QED BY <2>1
  <1>5. PICK top \in Nat : top = st[n].term
    BY <1>2
  <1>6. \A m \in Claims(st) : st[m].term <= top
    <2>1. MaxTerm \in Nat
      BY CliAssumption
    <2>2. \A t \in Nat : MaxTerm + 1 - top <= MaxTerm + 1 - t => t <= top
      BY <2>1
    <2>. QED BY <1>2, <1>4, <1>5, <2>2
  <1>. DEFINE Tops == {m \in Claims(st) : st[m].term = top}
              Spots == {Position(m) : m \in Tops}
  <1>7. Spots \in SUBSET Nat /\ Spots # {}
    BY <1>5, PositionIsNat
  <1>8. PICK b \in Tops : \A m \in Tops : Position(b) <= Position(m)
    <2>1. \E x \in Spots : \A y \in Spots : x <= y
      <3>. HIDE DEF Spots
      <3>. QED BY <1>7, LeastExists
    <2>. QED BY <2>1
  <1>9. b \in Claims(st) /\ \A m \in Claims(st) :
           \/ st[m].term < st[b].term
           \/ st[m].term = st[b].term /\ Position(b) <= Position(m)
    BY <1>2, <1>6, <1>8
  <1>. QED BY <1>9 DEF LeaderOf

LEMMA ShowStatusKeeps ==
    ASSUME CliInv, Fades, Outgrown, ShowStatus
    PROVE  UserKept
  <1>1. /\ cli.pc = "status" /\ cli' = Idle
        /\ \A n \in DOMAIN cli.st : ~Reading(n)
    BY DEF ShowStatus
  <1>2. cli.st \in [ToSet(Addrs) -> Reads]
    BY <1>1, InvFacts, KindOfCommand DEF Survey
  <1>3. PICK r : /\ reports' = Append(reports, r)
                 /\ \/ r \in {[said |-> "noAnswer"], [said |-> "noLeader"]}
                    \/ /\ Claims(cli.st) # {}
                       /\ \E n \in Node : n = LeaderOf(cli.st) /\
                             r = [said |-> "leads", host |-> n,
                                  leader |-> cli.st[n].leader, term |-> cli.st[n].term]
    <2>1. Claims(cli.st) # {} => LeaderOf(cli.st) \in Node
      BY <1>2, LeaderOfClaims, AddrsAreNodes DEF Claims
    <2>. QED BY <2>1 DEF ShowStatus
  <1>4. r \in Verdict /\ r.said \notin {"committed", "failed"}
        /\ (r.said = "leads" => Backed(r.host, r.term))
    <2>1. CASE r \in {[said |-> "noAnswer"], [said |-> "noLeader"]}
      BY <2>1 DEF Verdict
    <2>2. ASSUME NEW n \in Node, n = LeaderOf(cli.st), Claims(cli.st) # {},
                 r = [said |-> "leads", host |-> n,
                      leader |-> cli.st[n].leader, term |-> cli.st[n].term]
          PROVE  /\ r \in Verdict /\ r.said = "leads" /\ Backed(r.host, r.term)
      <3>1. n \in Claims(cli.st)
        BY <1>2, <2>2, LeaderOfClaims
      <3>2. PICK st \in Reads : st = cli.st[n] /\ st.read = "all" /\ st.isLeader
        BY <1>2, <3>1 DEF Claims
      <3>3. st.leader \in Node \cup {None} /\ st.term \in Terms
        BY <3>2 DEF Reads
      <3>4. Backed(n, st.term)
        BY <1>1, <3>1, <3>2, InvFacts DEF SurveySound, ReadSound, Claims
      <3>. QED BY <2>2, <3>2, <3>3, <3>4 DEF Verdict
    <2>. QED BY <1>3, <2>1, <2>2
  <1>5. /\ reports' \in Seq(Verdict)
        /\ \A x \in ToSet(reports') : x \in ToSet(reports) \/ x = r
    BY <1>3, <1>4, InvFacts, AppendSet DEF CliType
  <1>6. ReportsSound'
    BY <1>4, <1>5, InvFacts, ReportsStay
  <1>. QED BY <1>1, <1>5, <1>6, IdleUser DEF UserKept

-----------------------------------------------------------------------------
(* The cluster moves below the command.                                      *)

\* Nothing that the command waits for is gone.
LEMMA BelowKeeps ==
    ASSUME CliInv, Fades, Outgrown, request' = request, arrivals' = arrivals,
           Unchanged(cli'), reports' = reports, cli'.settled /\ Trying => Still
    PROVE  UserKept
  <1>1. ASSUME cli.pc = "await"
        PROVE  /\ request'[cli.conn] # Idle
               /\ request'[cli.conn].id = request[cli.conn].id
               /\ request'[cli.conn].node = request[cli.conn].node
               /\ request'[cli.conn].pc = "redirect" => At(cli.conn, "redirect")
    BY <1>1, InvFacts DEF AwaitSound, Live, At
  <1>2. UserSound'
    BY <1>1, InvFacts, UnchangedUser
  <1>. QED BY <1>2, InvFacts, SameReports DEF UserKept

LEMMA ReplicatesKeeps ==
    ASSUME CliInv, Fades, Outgrown, Replicates
    PROVE  UserKept
  <1>1. Still /\ request' = request /\ arrivals' = arrivals /\ UNCHANGED user
    BY DEF Replicates, Choose, Replicate, ApplyNext, Still
  <1>. QED BY <1>1, BelowKeeps DEF user, Unchanged

LEMMA UnsettledFacts ==
    ASSUME CliType, Unsettled
    PROVE  /\ Unchanged(cli') /\ reports' = reports
           /\ Trying => ~cli'.settled
  <1>1. Unchanged(cli') /\ reports' = reports
    BY DEF Unsettled, Unchanged
  <1>2. ASSUME Trying PROVE ~cli'.settled
    <2>1. cli \in Attempt /\ cli # Idle
      BY <1>2, KindOfCommand DEF Trying, Idle
    <2>. QED BY <2>1 DEF Unsettled, Attempt
  <1>. QED BY <1>1, <1>2

\* Elections, new terms and new leaders.
LEMMA LeadersKeep ==
    ASSUME CliInv, Fades, Outgrown, NEW n \in Node, Wins(n) \/ Adopts(n) \/ Follows(n)
    PROVE  UserKept
  <1>1. Unsettled
    BY DEF Wins, Adopts, Follows
  <1>2. request' = request /\ arrivals' = arrivals
    BY DEF Wins, Adopts, Follows, Deposed, BecomeLeader, StepDown, handlers
  <1>. QED BY <1>1, <1>2, InvFacts, UnsettledFacts, BelowKeeps

LEMMA RestartsKeeps ==
    ASSUME CliInv, Fades, Outgrown, NEW n \in Node, Restarts(n)
    PROVE  UserKept
  <1>1. arrivals' = arrivals /\ reports' = reports
        /\ \A c \in Client : request[c].node # n => request'[c] = request[c]
    BY DEF Restarts, Crash
  <1>2. CASE cli.pc = "await" /\ cli.node = n
    <2>. DEFINE e == NextNode([cli EXCEPT !.cuts = @ + 1])
    <2>1. /\ SameCommand(e, cli) /\ e.cuts = cli.cuts + 1
          /\ e.pc \in {"dial", "pause"}
      BY <1>2, InvFacts, CutFacts
    <2>2. cli' = [e EXCEPT !.settled = FALSE]
      BY <1>2 DEF Restarts, Reading
    <2>. HIDE DEF e
    <2>3. /\ SameCommand(cli', cli) /\ cli'.cuts = cli.cuts + 1
          /\ cli'.pc \in {"dial", "pause"} /\ ~cli'.settled
      BY <2>1, <2>2 DEF SameCommand, Attempt
    <2>4. UserSound'
      BY <1>1, <1>2, <2>3, InvFacts, NextUser DEF Trying
    <2>. QED BY <1>1, <2>4, InvFacts, SameReports DEF UserKept
  <1>3. CASE Reading(n)
    <2>1. /\ cli.pc = "status" /\ n \in DOMAIN cli.st
          /\ cli' = [cli EXCEPT !.st[n] = [read |-> "lost"]]
      BY <1>3 DEF Restarts, Reading
    <2>2. PICK st : st = [read |-> "lost"]
      OBVIOUS
    <2>3. st \in Reads /\ ReadSound(n, st)'
      BY <2>2 DEF Reads, ReadSound
    <2>. QED BY <1>1, <2>1, <2>2, <2>3, AnswerGoesOn
  <1>4. CASE ~(cli.pc = "await" /\ cli.node = n) /\ ~Reading(n)
    <2>1. Unsettled
      BY <1>1, <1>4 DEF Restarts, Unsettled
    <2>2. /\ Unchanged(cli') /\ reports' = reports
          /\ Trying => ~cli'.settled
      BY <2>1, InvFacts, UnsettledFacts
    <2>3. ASSUME cli.pc = "await" PROVE request'[cli.conn] = request[cli.conn]
                                        /\ request[cli.conn] # Idle
      BY <1>1, <1>4, <2>3, InvFacts DEF AwaitSound, Live
    <2>4. UserSound'
      BY <1>1, <2>2, <2>3, InvFacts, UnchangedUser
    <2>. QED BY <1>1, <2>4, InvFacts, SameReports DEF UserKept
  <1>. QED BY <1>2, <1>3, <1>4

-----------------------------------------------------------------------------
(* The invariant.                                                            *)

LEMMA InitCli ==
    ASSUME NEW l \in Node, CliInit(l)
    PROVE  CliInv
  <1>1. MaxTerm \in Nat /\ 1 \in Terms
    <2>1. MaxTerm \in Nat
      BY CliAssumption
    <2>. QED BY <2>1 DEF Terms
  <1>2. cli.pc = "idle" /\ cli = Idle
    BY DEF CliInit, Idle
  <1>3. CliType
    BY <1>2 DEF CliInit, CliType
  <1>4. LeadsSound
    BY <1>1 DEF CliInit, LeadsSound, Won
  <1>5. AwaitSound /\ SettledSound /\ CountSound /\ SurveySound
    BY <1>2 DEF AwaitSound, SettledSound, CountSound, SurveySound
  <1>6. ReportsSound
    BY DEF CliInit, ReportsSound, Told, ToSet
  <1>7. GatewayInv
    <2>1. GatewayType
      BY DEF CliInit, GatewayType, Idle
    <2>2. \A c \in Client : ~Live(c)
      BY DEF CliInit, Live
    <2>3. Succeeded = {} /\ Kept = {} /\ Held = {} /\ ToSet(chosen) = {} /\ DOMAIN chosen = {}
      BY DEF CliInit, Succeeded, Kept, Held, ToSet
    <2>4. IdsSound
      BY <2>2, <2>3 DEF CliInit, IdsSound
    <2>5. CommandsSound
      BY <2>3 DEF CommandsSound
    <2>6. OrderSound
      BY <2>3 DEF OrderSound, WritesInOrder
    <2>7. LeadersSound
      BY <2>3 DEF LeadersSound, LeaderReadsItsWrites
    <2>8. ReadsSound
      BY <2>3 DEF ReadsSound
    <2>. QED BY <2>1, <2>4, <2>5, <2>6, <2>7, <2>8 DEF GatewayInv
  <1>. QED BY <1>3, <1>4, <1>5, <1>6, <1>7 DEF CliInv

LEMMA NextCli ==
    ASSUME CliInv, [CliNext]_cliVars
    PROVE  CliInv'
  <1>1. [Next]_vars
    BY InvFacts, CliStep
  <1>2. GatewayInv'
    BY <1>1, InvFacts, NextGateway, StutterKeeps
  <1>3. Fades
    BY <1>1, InvFacts, StepFades
  <1>4. LeadsSound' /\ Outgrown /\ leaderID' \in [Node -> Node \cup {None}]
    BY InvFacts, StepLeads
  <1>5. UserKept
    <2>1. ASSUME NEW h \in Client, Handle(h) PROVE UserKept
      BY <1>3, <1>4, <2>1, InvFacts, HandleOutcome, GoesOnKeeps, FinishesKeeps
    <2>2. ASSUME NEW n \in Node, Wins(n) \/ Adopts(n) \/ Follows(n) \/ Restarts(n) PROVE UserKept
      BY <1>3, <1>4, <2>2, LeadersKeep, RestartsKeeps
    <2>3. CASE UNCHANGED cliVars
      <3>1. request' = request /\ arrivals' = arrivals /\ reports' = reports /\ Still
            /\ Unchanged(cli')
        BY <2>3 DEF cliVars, vars, consensus, user, Still, Unchanged
      <3>. QED BY <1>3, <1>4, <3>1, BelowKeeps
    <2>4. CASE Replicates
      BY <1>3, <1>4, <2>4, ReplicatesKeeps
    <2>5. ASSUME NEW n \in Node, HandleStatus(n) PROVE UserKept
      BY <1>3, <1>4, <2>5, HandleStatusKeeps
    <2>6. ASSUME \/ \E method \in Method, k \in Key : RunCommand(method, k)
                 \/ \E h \in Client : Dial(h)
                 \/ Unreached \/ Cut \/ Retry \/ GiveUp \/ RunStatus \/ ShowStatus
          PROVE  UserKept
      BY <1>3, <1>4, <2>6, RunCommandKeeps, DialKeeps, OnwardKeeps, GiveUpKeeps,
         RunStatusKeeps, ShowStatusKeeps
    <2>. QED BY <2>1, <2>2, <2>3, <2>4, <2>5, <2>6 DEF CliNext
  <1>6. CliType'
    BY <1>4, <1>5 DEF UserKept, UserSound, CliType
  <1>. QED BY <1>2, <1>4, <1>5, <1>6 DEF CliInv, UserKept, UserSound

\* Whatever the cluster does between the steps of a command, cluster.do knows
\* where it stands: the answer it waits for is that of its own request, at most
\* as many of its earlier requests can still get into a log as it gave up, and
\* what handleStatus read of a node was true of it and can only get old.
THEOREM CliInvariant == CliSpec => []CliInv
  <1>1. (\E l \in Node : CliInit(l)) => CliInv
    BY InitCli
  <1>2. CliInv /\ [CliNext]_cliVars => CliInv'
    BY NextCli
  <1>. QED BY <1>1, <1>2, PTL DEF CliSpec

\* handleStatus, fetchStatuses and leaderOf: the node that the status command
\* marks as the leader was elected in the term shown or in a later one, however
\* many nodes answer, and whatever happens between the two reads of each.
THEOREM StatusClaimsAreBacked == CliSpec => []StatusClaimBacked
  <1>1. CliInv => StatusClaimBacked
    BY DEF CliInv, ReportsSound, StatusClaimBacked, Backed
  <1>. QED BY <1>1, CliInvariant, PTL

\* executeRequest and redirectIfFollower: while every node knows the one leader,
\* a request is redirected once at most, wherever it was sent first.
THEOREM OneRedirectIsEnough == CliSpec => []OneRedirectWhenSettled
  <1>1. CliInv => OneRedirectWhenSettled
    BY DEF CliInv, SettledSound, OneRedirectWhenSettled
  <1>. QED BY <1>1, CliInvariant, PTL

\* Where commands with ids from first to last stand in the log.
Stands(first, last) == {p \in DOMAIN chosen : chosen[p].id \in first..last}

LEMMA StandsFacts ==
    ASSUME GatewayInv, NEW first \in Nat, NEW last \in Nat
    PROVE  /\ IsFiniteSet(Stands(first, last)) /\ Cardinality(Stands(first, last)) \in Nat
           /\ Cardinality(Stands(first, last)) <= Cardinality(Open(first, last))
           /\ Stands(first, last) # {} => Cardinality(Stands(first, last)) >= 1
  <1>. DEFINE S == Stands(first, last)
              T == Open(first, last)
              id == [p \in S |-> chosen[p].id]
  <1>1. IsFiniteSet(S) /\ Cardinality(S) \in Nat
    <2>1. DOMAIN chosen = 1..Len(chosen) /\ Len(chosen) \in Nat
      BY DEF GatewayInv, GatewayType
    <2>2. IsFiniteSet(DOMAIN chosen)
      BY <2>1, FS_Interval
    <2>3. S \in SUBSET DOMAIN chosen
      BY DEF Stands
    <2>. QED BY <2>2, <2>3, FS_Subset, FS_CardinalityType
  <1>2. id \in Injection(S, T)
    <2>1. \A p \in S : chosen[p].id \in T
      BY DEF Stands, Open, Possible, ToSet
    <2>2. \A p, q \in S : chosen[p].id = chosen[q].id => p = q
      BY DEF Stands, GatewayInv, CommandsSound
    <2>. QED BY <2>1, <2>2 DEF Injection, IsInjective
  <1>3. IsFiniteSet(T)
    <2>1. first \in Int /\ last \in Int
      OBVIOUS
    <2>. QED BY <2>1, OpenIsFinite, Zenon
  <1>4. Cardinality(S) <= Cardinality(T)
    <2>. HIDE DEF S, T, id
    <2>. QED BY <1>2, <1>3, FS_Injection
  <1>5. S # {} => Cardinality(S) # 0
    BY <1>1, FS_EmptySet
  <1>. QED BY <1>1, <1>4, <1>5

\* A write that the user was told of, with the number of its copies.
LEMMA CopiesFacts ==
    ASSUME CliInv, NEW r \in Told({"committed", "failed"})
    PROVE  /\ r.said = "committed" => Copies(r) >= 1
           /\ Copies(r) <= r.cuts + (IF r.status \in {"ok", "error"} THEN 1 ELSE 0)
  <1>1. r \in Verdict /\ r.said \in {"committed", "failed"} /\ WriteSound(r)
    BY InvFacts DEF Told, CliType, ToSet, ReportsSound
  <1>2. r.first \in Nat /\ r.last \in Nat /\ r.cuts \in Nat
    BY <1>1 DEF Verdict
  <1>3. PICK S : S = Stands(r.first, r.last)
    OBVIOUS
  <1>4. PICK T : T = Open(r.first, r.last)
    OBVIOUS
  <1>5. /\ Cardinality(S) \in Nat /\ Cardinality(S) <= Cardinality(T)
        /\ S # {} => Cardinality(S) >= 1
    BY <1>2, <1>3, <1>4, InvFacts, StandsFacts
  <1>6. Cardinality(T) \in Nat
    <2>1. r.first \in Int /\ r.last \in Int
      BY <1>2
    <2>. QED BY <1>4, <2>1, OpenIsFinite, Zenon
  <1>7. Copies(r) = Cardinality(S)
    BY <1>3 DEF Copies, Stands
  <1>8. r.said = "committed" => S # {}
    BY <1>1, <1>3 DEF WriteSound, Stands
  <1>9. Cardinality(T) <= r.cuts + (IF r.status \in {"ok", "error"} THEN 1 ELSE 0)
    BY <1>1, <1>4 DEF WriteSound
  <1>. QED BY <1>2, <1>5, <1>6, <1>7, <1>8, <1>9

\* handleSet and handleDelete, "Committed: a majority of nodes stored it": what
\* the CLI calls committed stands in the log and stays there, whichever of the
\* attempts brought it there.
THEOREM CommittedIsStored == CliSpec => []CommittedMeansStored
  <1>1. CliInv => CommittedMeansStored
    BY CopiesFacts DEF CommittedMeansStored, Told
  <1>. QED BY <1>1, CliInvariant, PTL

\* cluster.do repeats writes: one stands in the log once at most for each
\* attempt whose answer did not come, and once for a final success or internal
\* error; one that was refused without such an attempt is never there, nor ever
\* gets there.
THEOREM CopiesAreAccountedFor == CliSpec => []CopiesAccountedFor
  <1>1. CliInv => CopiesAccountedFor
    BY CopiesFacts DEF CopiesAccountedFor
  <1>. QED BY <1>1, CliInvariant, PTL

-----------------------------------------------------------------------------
(* Every command ends.                                                       *)

Bounded == Trying => cli.redirects <= MaxRedirects /\ cli.cycle <= MaxCycles

\* The attempt at this node is over.
Onward(e, d) ==
    /\ d.pc \in {"dial", "await"} /\ e.cycle = d.cycle
    /\ \/ e.pc = "dial" /\ e.at = d.at + 1 /\ d.at < Len(Addrs) /\ e.redirects = 0
       \/ e.pc = "pause" /\ e.redirects = d.redirects

\* From d to e a request, a redirect, a node or a round has been used up.
Further(e, d) ==
    \/ Onward(e, d)
    \/ /\ d.pc = "dial" /\ e.pc = "await"
       /\ e.at = d.at /\ e.redirects = d.redirects /\ e.cycle = d.cycle
    \/ /\ d.pc = "await" /\ e.pc = "dial" /\ d.redirects < MaxRedirects
       /\ e.at = d.at /\ e.redirects = d.redirects + 1 /\ e.cycle = d.cycle
    \/ /\ d.pc = "pause" /\ e.pc = "dial" /\ d.cycle < MaxCycles
       /\ e.at = 1 /\ e.redirects = 0 /\ e.cycle = d.cycle + 1

LEMMA FewerBlocks ==
    ASSUME NEW K \in Nat, NEW b \in Int, NEW c \in Int, NEW r \in Int, NEW s \in Int,
           c < b, s < K + r
    PROVE  c * K + s < b * K + r
  <1>1. PICK x \in Nat : b = c + 1 + x
    <2>1. b - c - 1 \in Nat /\ b = c + 1 + (b - c - 1)
      OBVIOUS
    <2>. QED BY <2>1
  <1>2. b * K = c * K + K + x * K
    BY <1>1
  <1>3. x * K >= 0 /\ x * K \in Int /\ c * K \in Int
    OBVIOUS
  <1>. QED BY <1>2, <1>3


RoundsLeft(a) == MaxCycles - a.cycle
NodesLeft(a) == IF a.pc = "pause" THEN 0 ELSE Len(Addrs) - a.at + 1
RequestsLeft(a) == 2 * (MaxRedirects - a.redirects) + (IF a.pc = "dial" THEN 1 ELSE 0)

LEMMA CountsDown ==
    ASSUME NEW L \in Nat, NEW K \in Nat, NEW x \in Nat, NEW y \in Nat,
           NEW m \in 0..L, NEW n \in 0..L, NEW r \in 0..(K - 1), NEW s \in 0..(K - 1),
           y < x \/ (y = x /\ n < m) \/ (y = x /\ n = m /\ s < r)
    PROVE  /\ 0 <= (y * (L + 1) + n) * K + s
           /\ (y * (L + 1) + n) * K + s < (x * (L + 1) + m) * K + r
  <1>1. \A i, j \in Nat : i * j \in Nat
    OBVIOUS
  <1>2. PICK b \in Nat : b = x * (L + 1) + m
    BY <1>1
  <1>3. PICK c \in Nat : c = y * (L + 1) + n
    BY <1>1
  <1>4. c < b \/ (c = b /\ s < r)
    <2>1. CASE y < x
      BY <1>2, <1>3, <2>1, FewerBlocks
    <2>2. CASE y = x
      <3>1. PICK z \in Nat : z = x * (L + 1)
        BY <1>1
      <3>. QED BY <1>2, <1>3, <2>2, <3>1
    <2>. QED BY <2>1, <2>2
  <1>5. 0 <= c * K + s
    <2>1. PICK z \in Nat : z = c * K
      BY <1>1
    <2>. QED BY <2>1
  <1>6. c * K + s < b * K + r
    <2>1. CASE c < b
      <3>1. s < K + r
        OBVIOUS
      <3>. QED BY <2>1, <3>1, FewerBlocks
    <2>2. CASE c = b /\ s < r
      <3>1. PICK z \in Nat : z = c * K
        BY <1>1
      <3>. QED BY <2>2, <3>1
    <2>. QED BY <1>4, <2>1, <2>2
  <1>. QED BY <1>2, <1>3, <1>5, <1>6

LEMMA LeftFacts ==
    ASSUME NEW a \in Attempt, a.redirects <= MaxRedirects, a.cycle <= MaxCycles
    PROVE  /\ Left(a) = (RoundsLeft(a) * (Len(Addrs) + 1) + NodesLeft(a)) * (2 * MaxRedirects + 2)
                        + RequestsLeft(a)
           /\ RoundsLeft(a) \in Nat /\ NodesLeft(a) \in 0..Len(Addrs)
           /\ RequestsLeft(a) \in 0..((2 * MaxRedirects + 2) - 1)
  <1>1. PICK L \in Nat : L = Len(Addrs)
    <2>1. Len(Addrs) \in Nat
      BY AddrsAreNodes
    <2>. QED BY <2>1
  <1>2. PICK R \in Nat : R = MaxRedirects
    BY CliAssumption
  <1>3. PICK C \in Nat : C = MaxCycles
    BY CliAssumption
  <1>4. PICK at \in 1..L : at = a.at
    BY <1>1 DEF Attempt
  <1>5. PICK redirects \in Nat : redirects = a.redirects
    BY DEF Attempt
  <1>6. PICK cycle \in Nat : cycle = a.cycle
    BY DEF Attempt
  <1>7. C - cycle \in Nat /\ L - at + 1 \in 0..L
    BY <1>3, <1>6
  <1>8. /\ 2 * (R - redirects) + 0 \in 0..((2 * R + 2) - 1)
        /\ 2 * (R - redirects) + 1 \in 0..((2 * R + 2) - 1)
    BY <1>2, <1>5
  <1>9. RoundsLeft(a) \in Nat /\ NodesLeft(a) \in 0..L
    BY <1>1, <1>3, <1>4, <1>6, <1>7 DEF RoundsLeft, NodesLeft
  <1>10. RequestsLeft(a) \in 0..((2 * MaxRedirects + 2) - 1)
    BY <1>2, <1>5, <1>8 DEF RequestsLeft
  <1>11. a.pc # "status"
    BY DEF Attempt
  <1>. QED BY <1>1, <1>9, <1>10, <1>11, Zenon DEF Left, RoundsLeft, NodesLeft, RequestsLeft

LEMMA FurtherCounts ==
    ASSUME NEW d \in Attempt, NEW e \in Attempt, Further(e, d),
           d.redirects <= MaxRedirects, d.cycle <= MaxCycles
    PROVE  /\ e.redirects <= MaxRedirects /\ e.cycle <= MaxCycles
           /\ 0 <= Left(e) /\ Left(e) < Left(d)
  <1>1. PICK L \in Nat : L = Len(Addrs)
    <2>1. Len(Addrs) \in Nat
      BY AddrsAreNodes
    <2>. QED BY <2>1
  <1>2. PICK R \in Nat : R = MaxRedirects
    BY CliAssumption
  <1>3. PICK C \in Nat : C = MaxCycles
    BY CliAssumption
  <1>4. PICK i \in 1..L, j \in 1..L : i = d.at /\ j = e.at
    BY <1>1 DEF Attempt
  <1>5. PICK r \in Nat, s \in Nat : r = d.redirects /\ s = e.redirects
    BY DEF Attempt
  <1>6. PICK u \in Nat, v \in Nat : u = d.cycle /\ v = e.cycle
    BY DEF Attempt
  <1>7. \/ /\ d.pc \in {"dial", "await"} /\ v = u
           /\ e.pc = "dial" /\ j = i + 1 /\ s = 0
        \/ /\ d.pc \in {"dial", "await"} /\ v = u
           /\ e.pc = "pause" /\ s = r
        \/ d.pc = "dial" /\ e.pc = "await" /\ j = i /\ s = r /\ v = u
        \/ /\ d.pc = "await" /\ e.pc = "dial" /\ r < R
           /\ j = i /\ s = r + 1 /\ v = u
        \/ /\ d.pc = "pause" /\ e.pc = "dial" /\ u < C
           /\ j = 1 /\ s = 0 /\ v = u + 1
    BY <1>2, <1>3, <1>4, <1>5, <1>6 DEF Further, Onward
  <1>8. r <= R /\ u <= C
    BY <1>2, <1>3, <1>5, <1>6
  <1>9. s <= R /\ v <= C
    BY <1>7, <1>8
  <1>10. e.redirects <= MaxRedirects /\ e.cycle <= MaxCycles
    BY <1>2, <1>3, <1>5, <1>6, <1>9
  <1>11. /\ RoundsLeft(d) = C - u /\ RoundsLeft(e) = C - v
         /\ NodesLeft(d) = IF d.pc = "pause" THEN 0 ELSE L - i + 1
         /\ NodesLeft(e) = IF e.pc = "pause" THEN 0 ELSE L - j + 1
         /\ RequestsLeft(d) = 2 * (R - r) + (IF d.pc = "dial" THEN 1 ELSE 0)
         /\ RequestsLeft(e) = 2 * (R - s) + (IF e.pc = "dial" THEN 1 ELSE 0)
    BY <1>1, <1>2, <1>3, <1>4, <1>5, <1>6, Zenon DEF RoundsLeft, NodesLeft, RequestsLeft
  <1>12. \/ RoundsLeft(e) < RoundsLeft(d)
         \/ RoundsLeft(e) = RoundsLeft(d) /\ NodesLeft(e) < NodesLeft(d)
         \/ /\ RoundsLeft(e) = RoundsLeft(d) /\ NodesLeft(e) = NodesLeft(d)
            /\ RequestsLeft(e) < RequestsLeft(d)
    BY <1>7, <1>8, <1>9, <1>11
  <1>13. PICK K \in Nat : K = 2 * MaxRedirects + 2
    BY <1>2
  <1>14. /\ Left(d) = (RoundsLeft(d) * (L + 1) + NodesLeft(d)) * K + RequestsLeft(d)
         /\ Left(e) = (RoundsLeft(e) * (L + 1) + NodesLeft(e)) * K + RequestsLeft(e)
    BY <1>1, <1>10, <1>13, LeftFacts, Zenon
  <1>15. /\ RoundsLeft(d) \in Nat /\ NodesLeft(d) \in 0..L /\ RequestsLeft(d) \in 0..(K - 1)
         /\ RoundsLeft(e) \in Nat /\ NodesLeft(e) \in 0..L /\ RequestsLeft(e) \in 0..(K - 1)
    BY <1>1, <1>10, <1>13, LeftFacts
  <1>16. PICK x \in Nat, y \in Nat : x = RoundsLeft(d) /\ y = RoundsLeft(e)
    BY <1>15
  <1>17. PICK m \in 0..L, n \in 0..L : m = NodesLeft(d) /\ n = NodesLeft(e)
    BY <1>15
  <1>18. PICK p \in 0..(K - 1), q \in 0..(K - 1) : p = RequestsLeft(d) /\ q = RequestsLeft(e)
    BY <1>15
  <1>19. y < x \/ (y = x /\ n < m) \/ (y = x /\ n = m /\ q < p)
    BY <1>12, <1>16, <1>17, <1>18
  <1>20. 0 <= (y * (L + 1) + n) * K + q
         /\ (y * (L + 1) + n) * K + q < (x * (L + 1) + m) * K + p
    BY <1>19, CountsDown
  <1>. QED BY <1>10, <1>14, <1>16, <1>17, <1>18, <1>20

\* What the operators of the command do to its numbers.
LEMMA TryCounts ==
    ASSUME NEW d \in Attempt, NEW k \in Nat
    PROVE  LET e == Try(d, k)
           IN  e.pc = "dial" /\ e.at = k /\ e.redirects = 0 /\ e.cycle = d.cycle
  BY DEF Attempt, Try

LEMMA NextNodeCounts ==
    ASSUME NEW d \in Attempt, d.pc \in {"dial", "await"}
    PROVE  Onward(NextNode(d), d)
  <1>1. CASE d.at < Len(Addrs)
    <2>1. d.at + 1 \in Nat
      BY DEF Attempt
    <2>2. NextNode(d) = Try(d, d.at + 1)
      BY <1>1 DEF NextNode
    <2>. QED BY <1>1, <2>1, <2>2, TryCounts DEF Onward
  <1>2. CASE ~(d.at < Len(Addrs))
    <2>1. NextNode(d) = [d EXCEPT !.pc = "pause"]
      BY <1>2 DEF NextNode
    <2>. QED BY <2>1 DEF Attempt, Onward
  <1>. QED BY <1>1, <1>2

LEMMA FollowRedirectCounts ==
    ASSUME NEW d \in Attempt, d.pc = "await", NEW target
    PROVE  Further(FollowRedirect(d, target), d)
  <1>. DEFINE e == FollowRedirect(d, target)
  <1>1. CASE d.redirects < MaxRedirects
    <2>1. e = Redirected(d, target, d.redirects + 1)
      BY <1>1 DEF FollowRedirect, Redirected
    <2>2. /\ e.pc = "dial" /\ e.at = d.at /\ e.cycle = d.cycle
          /\ e.redirects = d.redirects + 1
      BY <2>1 DEF Attempt, Redirected
    <2>. QED BY <1>1, <2>2 DEF Further
  <1>2. CASE ~(d.redirects < MaxRedirects)
    <2>1. e = NextNode(d)
      BY <1>2 DEF FollowRedirect
    <2>. QED BY <2>1, NextNodeCounts DEF Further
  <1>. QED BY <1>1, <1>2

LEMMA CutCounts ==
    ASSUME NEW d \in Attempt, d.pc = "await"
    PROVE  LET e == NextNode([d EXCEPT !.cuts = @ + 1])
           IN  /\ Further(e, d)
               /\ Further([e EXCEPT !.settled = FALSE], d)
  <1>. DEFINE c == [d EXCEPT !.cuts = @ + 1]
              e == NextNode(c)
  <1>1. /\ c \in Attempt /\ c.pc = d.pc /\ c.at = d.at /\ c.redirects = d.redirects
        /\ c.cycle = d.cycle
    BY DEF Attempt
  <1>. HIDE DEF c
  <1>2. Onward(e, c) /\ SameCommand(e, c)
    BY <1>1, NextNodeCounts, NextNodeFacts
  <1>. HIDE DEF e
  <1>3. Onward(e, d)
    BY <1>1, <1>2 DEF Onward
  <1>4. PICK f : f = [e EXCEPT !.settled = FALSE]
    OBVIOUS
  <1>5. f.pc = e.pc /\ f.at = e.at /\ f.redirects = e.redirects /\ f.cycle = e.cycle
    BY <1>2, <1>4 DEF SameCommand, Attempt
  <1>6. Onward(f, d)
    BY <1>3, <1>5 DEF Onward
  <1>. QED BY <1>3, <1>4, <1>6 DEF Further, c, e

LEMMA CommandSteps ==
    ASSUME CliInv, [CliNext]_cliVars, Trying
    PROVE  cli' = Idle \/ Unchanged(cli') \/ Further(cli', cli)
  <1>. DEFINE Goal == cli' = Idle \/ Unchanged(cli') \/ Further(cli', cli)
  <1>. SUFFICES Goal
    OBVIOUS
  <1>1. cli \in Attempt /\ cli # Idle /\ cli.pc # "status"
    BY InvFacts, KindOfCommand DEF Trying, Idle
  <1>2. ASSUME NEW h \in Client, Dial(h) PROVE Goal
    <2>1. cli.pc = "dial" /\ cli' = [cli EXCEPT !.pc = "await", !.conn = h]
      BY <1>2 DEF Dial
    <2>2. /\ cli'.pc = "await" /\ cli'.at = cli.at /\ cli'.redirects = cli.redirects
          /\ cli'.cycle = cli.cycle
      BY <1>1, <2>1 DEF Attempt
    <2>. QED BY <2>1, <2>2 DEF Further
  <1>3. ASSUME NEW h \in Client, Handle(h) PROVE Goal
    <2>1. CASE GoesOn(h)
      BY <2>1 DEF GoesOn, user, Unchanged
    <2>2. ASSUME NEW status, Finishes(h, status) PROVE Goal
      <3>1. cli.pc = "await"
        BY <2>2 DEF Finishes, Awaits
      <3>2. \/ cli' = FollowRedirect(cli, Leaders!LeaderID(cli.node))
            \/ cli' = NextNode(cli)
            \/ cli' = Idle
        BY <2>2 DEF Finishes, Response, Retryable, Report
      <3>. QED BY <1>1, <3>1, <3>2, FollowRedirectCounts, NextNodeCounts DEF Further
    <2>. QED BY <1>3, <2>1, <2>2, InvFacts, HandleOutcome
  <1>4. CASE Unreached
    BY <1>1, <1>4, NextNodeCounts DEF Unreached, Further
  <1>5. CASE Cut
    BY <1>1, <1>5, CutCounts DEF Cut
  <1>6. CASE Retry
    <2>. DEFINE d == [cli EXCEPT !.cycle = @ + 1]
    <2>1. cli' = Try(d, 1) /\ cli.pc = "pause" /\ cli.cycle < MaxCycles
      BY <1>6 DEF Retry
    <2>2. d \in Attempt /\ d.cycle = cli.cycle + 1
      BY <1>1 DEF Attempt
    <2>. HIDE DEF d
    <2>. QED BY <2>1, <2>2, TryCounts DEF Further
  <1>7. CASE GiveUp
    BY <1>7 DEF GiveUp, Report
  <1>8. CASE Replicates \/ UNCHANGED cliVars
    BY <1>8 DEF Replicates, cliVars, user, Unchanged
  <1>9. ASSUME NEW n \in Node, Wins(n) \/ Adopts(n) \/ Follows(n) PROVE Goal
    BY <1>9, InvFacts, UnsettledFacts DEF Wins, Adopts, Follows
  <1>10. ASSUME NEW n \in Node, Restarts(n) PROVE Goal
    <2>1. CASE cli.pc = "await" /\ cli.node = n
      <3>1. cli' = [NextNode([cli EXCEPT !.cuts = @ + 1]) EXCEPT !.settled = FALSE]
        BY <1>10, <2>1 DEF Restarts, Reading
      <3>. QED BY <1>1, <2>1, <3>1, CutCounts
    <2>2. CASE ~(cli.pc = "await" /\ cli.node = n)
      <3>1. cli' = [cli EXCEPT !.settled = FALSE]
        BY <1>1, <1>10, <2>2 DEF Restarts, Reading
      <3>. QED BY <1>1, <3>1 DEF Unchanged
    <2>. QED BY <2>1, <2>2
  <1>11. ~RunStatus /\ ~ShowStatus /\ \A n \in Node : ~HandleStatus(n)
    BY <1>1 DEF RunStatus, ShowStatus, HandleStatus, Reading
  <1>12. \A method \in Method, k \in Key : ~RunCommand(method, k)
    BY <1>1 DEF RunCommand
  <1>. HIDE DEF Goal
  <1>. QED BY <1>2, <1>3, <1>4, <1>5, <1>6, <1>7, <1>8, <1>9, <1>10, <1>11, <1>12 DEF CliNext

LEMMA AddrsAreFinite == IsFiniteSet(ToSet(Addrs))
  <1>1. IsFiniteSet(DOMAIN Addrs)
    BY AddrsAreNodes, FS_Interval
  <1>2. Addrs \in Surjection(DOMAIN Addrs, ToSet(Addrs))
    <2>1. Addrs \in [DOMAIN Addrs -> ToSet(Addrs)]
      BY CliAssumption DEF ToSet
    <2>. QED BY <2>1 DEF Surjection, ToSet
  <1>. QED BY <1>1, <1>2, FS_Surjection

LEMMA BehindDrops ==
    ASSUME NEW S, IsFiniteSet(S), NEW st \in [S -> Reads], NEW n \in S, NEW x \in Reads,
           NEW reads, x.read \in reads => st[n].read \in reads
    PROVE  LET e == [st EXCEPT ![n] = x]
           IN  /\ Behind(e, reads) \in Nat /\ Behind(st, reads) \in Nat
               /\ Behind(e, reads) <= Behind(st, reads)
               /\ st[n].read \in reads /\ x.read \notin reads
                  => Behind(e, reads) < Behind(st, reads)
  <1>. DEFINE e == [st EXCEPT ![n] = x]
  <1>1. PICK old : old = {m \in S : st[m].read \in reads}
    OBVIOUS
  <1>2. PICK new : new = {m \in S : e[m].read \in reads}
    OBVIOUS
  <1>3. Behind(st, reads) = Cardinality(old) /\ Behind(e, reads) = Cardinality(new)
    BY <1>1, <1>2 DEF Behind
  <1>4. new \subseteq old
    BY <1>1, <1>2
  <1>5. st[n].read \in reads /\ x.read \notin reads => new # old
    BY <1>1, <1>2
  <1>6. old \subseteq S
    BY <1>1
  <1>. HIDE DEF e
  <1>7. IsFiniteSet(old)
    BY <1>6, FS_Subset
  <1>8. /\ Cardinality(new) \in Nat /\ Cardinality(old) \in Nat
        /\ Cardinality(new) <= Cardinality(old)
    BY <1>4, <1>7, FS_Subset, FS_CardinalityType
  <1>9. new # old => Cardinality(new) # Cardinality(old)
    BY <1>4, <1>7, FS_Subset
  <1>. QED BY <1>3, <1>5, <1>8, <1>9 DEF e

LEMMA NearerCounts ==
    ASSUME NEW d \in Survey, NEW n \in DOMAIN d.st, NEW x \in Reads,
           Nearer(x.read, d.st[n].read), NEW e, e = [d EXCEPT !.st[n] = x]
    PROVE  0 <= Left(e) /\ Left(e) < Left(d)
  <1>1. /\ d.pc = "status" /\ e.pc = "status" /\ d.st \in [ToSet(Addrs) -> Reads]
        /\ n \in ToSet(Addrs) /\ e.st = [d.st EXCEPT ![n] = x]
    BY DEF Survey
  <1>2. PICK st \in [ToSet(Addrs) -> Reads] : st = d.st
    BY <1>1
  <1>3. PICK a \in Nat, b \in Nat, c \in Nat :
           a = Behind(st, {"nothing"}) /\ b = Behind(st, {"nothing", "term"})
           /\ c = Behind(st, {"nothing", "term", "role"})
    <2>1. \A reads : Behind(st, reads) \in Nat
      BY <1>1, <1>2, AddrsAreFinite, BehindDrops
    <2>. QED BY <2>1
  <1>4. PICK p \in Nat, q \in Nat, r \in Nat :
           /\ p = Behind(e.st, {"nothing"}) /\ p <= a
           /\ q = Behind(e.st, {"nothing", "term"}) /\ q <= b
           /\ r = Behind(e.st, {"nothing", "term", "role"}) /\ r <= c
           /\ p < a \/ q < b \/ r < c
    <2>. DEFINE w == [st EXCEPT ![n] = x]
    <2>1. \A reads : (x.read \in reads => st[n].read \in reads) =>
             /\ Behind(w, reads) \in Nat
             /\ Behind(w, reads) <= Behind(st, reads)
             /\ st[n].read \in reads /\ x.read \notin reads
                => Behind(w, reads) < Behind(st, reads)
      BY <1>1, <1>2, AddrsAreFinite, BehindDrops
    <2>2. Nearer(x.read, st[n].read) /\ e.st = w
      BY <1>1, <1>2
    <2>. HIDE DEF w
    <2>3. Behind(w, {"nothing"}) \in Nat /\ Behind(w, {"nothing"}) <= a
      BY <1>3, <2>1, <2>2 DEF Nearer
    <2>4. Behind(w, {"nothing", "term"}) \in Nat /\ Behind(w, {"nothing", "term"}) <= b
      BY <1>3, <2>1, <2>2 DEF Nearer
    <2>5. /\ Behind(w, {"nothing", "term", "role"}) \in Nat
          /\ Behind(w, {"nothing", "term", "role"}) <= c
      BY <1>3, <2>1, <2>2 DEF Nearer
    <2>6. \/ Behind(w, {"nothing"}) < a
          \/ Behind(w, {"nothing", "term"}) < b
          \/ Behind(w, {"nothing", "term", "role"}) < c
      BY <1>3, <2>1, <2>2 DEF Nearer
    <2>. QED BY <2>2, <2>3, <2>4, <2>5, <2>6
  <1>5. Left(d) = a + b + c /\ Left(e) = p + q + r
    BY <1>1, <1>2, <1>3, <1>4 DEF Left
  <1>. QED BY <1>4, <1>5

LEMMA SurveySteps ==
    ASSUME CliInv, [CliNext]_cliVars, cli.pc = "status"
    PROVE  \/ cli' = Idle \/ Unchanged(cli')
           \/ \E n \in DOMAIN cli.st, x \in Reads :
                 Nearer(x.read, cli.st[n].read) /\ cli' = [cli EXCEPT !.st[n] = x]
  <1>. DEFINE Goal == \/ cli' = Idle \/ Unchanged(cli')
                      \/ \E n \in DOMAIN cli.st, x \in Reads :
                            Nearer(x.read, cli.st[n].read) /\ cli' = [cli EXCEPT !.st[n] = x]
  <1>. SUFFICES Goal
    OBVIOUS
  <1>1. cli \in Survey /\ cli # Idle /\ cli.st \in [ToSet(Addrs) -> Reads] /\ ~Trying
    BY InvFacts, KindOfCommand DEF Trying, Idle, Survey
  <1>2. ASSUME NEW h \in Client, Handle(h) PROVE Goal
    <2>1. GoesOn(h)
      BY <1>2, InvFacts, HandleOutcome DEF Finishes, Awaits
    <2>. QED BY <2>1 DEF GoesOn, user, Unchanged
  <1>3. CASE ShowStatus
    BY <1>3 DEF ShowStatus
  <1>4. CASE Replicates \/ UNCHANGED cliVars
    BY <1>4 DEF Replicates, cliVars, user, Unchanged
  <1>5. ASSUME NEW n \in Node, Wins(n) \/ Adopts(n) \/ Follows(n) PROVE Goal
    BY <1>5, InvFacts, UnsettledFacts DEF Wins, Adopts, Follows
  <1>6. ASSUME NEW n \in Node, HandleStatus(n) PROVE Goal
    <2>1. n \in DOMAIN cli.st
      BY <1>6 DEF HandleStatus, Reading
    <2>. QED BY <1>6, <2>1, HandleStatusReads
  <1>7. ASSUME NEW n \in Node, Restarts(n) PROVE Goal
    <2>1. CASE Reading(n)
      <3>1. n \in DOMAIN cli.st /\ cli.st[n].read \in {"nothing", "term", "role"}
        BY <1>1, <2>1 DEF Reading, Reads
      <3>2. PICK x \in Reads : x = [read |-> "lost"]
        BY DEF Reads
      <3>3. cli' = [cli EXCEPT !.st[n] = x]
        BY <1>7, <2>1, <3>2 DEF Restarts, Reading
      <3>. QED BY <3>1, <3>2, <3>3 DEF Nearer
    <2>2. CASE ~Reading(n)
      <3>1. cli' = [cli EXCEPT !.settled = FALSE]
        BY <1>1, <1>7, <2>2 DEF Restarts
      <3>. QED BY <1>1, <3>1 DEF Unchanged
    <2>. QED BY <2>1, <2>2
  <1>8. ~Unreached /\ ~Cut /\ ~Retry /\ ~GiveUp /\ ~RunStatus /\ \A h \in Client : ~Dial(h)
    BY <1>1 DEF Unreached, Cut, Retry, GiveUp, RunStatus, Dial
  <1>9. \A method \in Method, k \in Key : ~RunCommand(method, k)
    BY <1>1 DEF RunCommand
  <1>. HIDE DEF Goal
  <1>. QED BY <1>2, <1>3, <1>4, <1>5, <1>6, <1>7, <1>8, <1>9 DEF CliNext

LEMMA IdleSteps ==
    ASSUME CliInv, [CliNext]_cliVars, cli = Idle
    PROVE  \/ cli' = Idle \/ RunStatus
           \/ \E method \in Method, k \in Key : RunCommand(method, k)
  <1>1. cli.pc = "idle"
    BY DEF Idle
  <1>2. ASSUME NEW h \in Client, Handle(h) PROVE cli' = Idle
    <2>1. GoesOn(h)
      BY <1>1, <1>2, InvFacts, HandleOutcome DEF Finishes, Awaits
    <2>. QED BY <2>1 DEF GoesOn, user
  <1>3. CASE Replicates \/ UNCHANGED cliVars
    BY <1>3 DEF Replicates, cliVars, user
  <1>4. ASSUME NEW n \in Node, Wins(n) \/ Adopts(n) \/ Follows(n) PROVE cli' = Idle
    BY <1>4 DEF Wins, Adopts, Follows, Unsettled
  <1>5. ASSUME NEW n \in Node, Restarts(n) PROVE cli' = Idle
    BY <1>1, <1>5 DEF Restarts, Reading
  <1>6. /\ ~Unreached /\ ~Cut /\ ~Retry /\ ~GiveUp /\ ~ShowStatus
        /\ \A h \in Client : ~Dial(h)
        /\ \A n \in Node : ~HandleStatus(n)
    BY <1>1 DEF Unreached, Cut, Retry, GiveUp, ShowStatus, Dial, HandleStatus, Reading
  <1>. QED BY <1>2, <1>3, <1>4, <1>5, <1>6 DEF CliNext

LEMMA CommandCounts ==
    ASSUME CliInv, Bounded, [CliNext]_cliVars, Trying, Further(cli', cli)
    PROVE  /\ cli'.redirects <= MaxRedirects /\ cli'.cycle <= MaxCycles
           /\ 0 <= Left(cli') /\ Left(cli') < Left(cli)
  <1>1. cli \in Attempt
    BY InvFacts, KindOfCommand DEF Trying
  <1>2. cli' \in Attempt
    <2>1. cli' \in {Idle} \cup Attempt \cup Survey
      BY NextCli DEF CliInv, CliType
    <2>2. cli'.pc \in {"dial", "await", "pause"}
      BY DEF Further, Onward
    <2>3. \A d \in Survey : d.pc = "status"
      BY DEF Survey
    <2>4. Idle.pc = "idle"
      BY DEF Idle
    <2>. QED BY <2>1, <2>2, <2>3, <2>4
  <1>. QED BY <1>1, <1>2, FurtherCounts DEF Bounded

LEMMA BoundedStays ==
    ASSUME CliInv, Bounded, [CliNext]_cliVars
    PROVE  Bounded'
  <1>. SUFFICES ASSUME cli'.pc \in {"dial", "await", "pause"}
                PROVE  cli'.redirects <= MaxRedirects /\ cli'.cycle <= MaxCycles
    BY DEF Bounded, Trying
  <1>1. cli' # Idle /\ ~RunStatus
    BY DEF Idle, RunStatus
  <1>2. CASE cli = Idle
    <2>1. PICK method \in Method, k \in Key : RunCommand(method, k)
      BY <1>1, <1>2, IdleSteps
    <2>2. PICK d : d = [pc |-> "dial", method |-> method, key |-> k, at |-> 1, node |-> None,
                        redirects |-> 0, cycle |-> 1, conn |-> None,
                        first |-> arrivals + 1, cuts |-> 0, settled |-> FALSE]
      OBVIOUS
    <2>3. cli' = Try(d, 1)
      BY <2>1, <2>2 DEF RunCommand
    <2>4. cli'.redirects = 0 /\ cli'.cycle = 1
      BY <2>2, <2>3 DEF Try
    <2>. QED BY <2>4, CliAssumption
  <1>3. CASE cli.pc = "status"
    <2>1. cli \in Survey
      BY <1>3, InvFacts, KindOfCommand
    <2>2. cli'.pc = "status"
      BY <1>1, <1>3, <2>1, SurveySteps DEF Unchanged, Survey
    <2>. QED BY <2>2
  <1>4. CASE Trying
    <2>1. CASE Unchanged(cli')
      <3>1. cli \in Attempt
        BY <1>4, InvFacts, KindOfCommand DEF Trying
      <3>2. cli'.redirects = cli.redirects /\ cli'.cycle = cli.cycle
        BY <2>1, <3>1 DEF Unchanged, Attempt
      <3>. QED BY <1>4, <3>2 DEF Bounded
    <2>2. CASE Further(cli', cli)
      BY <1>4, <2>2, CommandCounts
    <2>. QED BY <1>1, <1>4, <2>1, <2>2, CommandSteps
  <1>. QED BY <1>2, <1>3, <1>4, InvFacts, KindOfCommand DEF Trying

LEMMA StepCounts ==
    ASSUME CliInv, Bounded, [CliNext]_cliVars,
           cli # Idle, cli' \notin {Idle, cli, [cli EXCEPT !.settled = FALSE]}
    PROVE  0 <= Left(cli') /\ Left(cli') < Left(cli)
  <1>1. ~Unchanged(cli') /\ cli' # Idle
    BY DEF Unchanged
  <1>2. CASE Trying
    BY <1>1, <1>2, CommandSteps, CommandCounts
  <1>3. CASE cli.pc = "status"
    <2>1. PICK n \in DOMAIN cli.st, x \in Reads :
             Nearer(x.read, cli.st[n].read) /\ cli' = [cli EXCEPT !.st[n] = x]
      BY <1>1, <1>3, SurveySteps
    <2>2. cli \in Survey
      BY <1>3, InvFacts, KindOfCommand
    <2>. QED BY <2>1, <2>2, NearerCounts
  <1>. QED BY <1>2, <1>3, InvFacts, KindOfCommand DEF Trying

\* cluster.do, executeRequest and fetchStatuses come to an end: however the
\* nodes redirect, fail to answer, restart or elect on the way, each step of a
\* command leaves fewer rounds, nodes, redirects and requests to it, or fewer
\* values to read, and never fewer than none.
THEOREM CommandsCountDown == CliSpec => EveryStepCountsDown
  <1>1. (\E l \in Node : CliInit(l)) => Bounded
    <2>1. ASSUME NEW l \in Node, CliInit(l) PROVE ~Trying
      BY <2>1 DEF CliInit, Trying, Idle
    <2>. QED BY <2>1 DEF Bounded
  <1>2. CliInv /\ Bounded /\ [CliNext]_cliVars => Bounded'
    BY BoundedStays
  <1>3. CliInv /\ Bounded /\ [CliNext]_cliVars
        => [cli # Idle /\ cli' \notin {Idle, cli, [cli EXCEPT !.settled = FALSE]}
            => 0 <= Left(cli') /\ Left(cli') < Left(cli)]_cliVars
    BY StepCounts
  <1>. QED BY <1>1, <1>2, <1>3, CliInvariant, PTL DEF CliSpec, EveryStepCountsDown
=============================================================================
