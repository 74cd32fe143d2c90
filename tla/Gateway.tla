------------------------------ MODULE Gateway -------------------------------
(***************************************************************************)
(* What clients see: the HTTP gateway of internal/transport/http_server.go *)
(* with the limits of limits.go, the gRPC service of handler.go, and the   *)
(* key-value store of internal/kvstore.                                    *)
(*                                                                         *)
(* A handler is not atomic: between its checks and ProposeCommand it holds *)
(* no lock, so each read of the node (IsLeader, KVStoreSize, Get) is a     *)
(* step of its own.  The consensus below ProposeCommand is what            *)
(* ReplicatedLog promises: one log that only grows and that each node      *)
(* applies at its own pace.  Several nodes may believe that they lead, and *)
(* only the latest leader chooses commands, those it holds in its log.     *)
(***************************************************************************)
EXTENDS Integers, Sequences, FiniteSets, SequencesExt

CONSTANTS Node, Client, Key,
          None,          \* no leader
          Method,        \* the methods that clients use
          Remembered,    \* the outcomes that the history answered keeps
          MaxKeys,       \* -max-keys, 0 for no limit
          MaxRequests,   \* bound: requests in a behaviour
          MaxElections,  \* bound: times a node becomes the leader
          MaxCrashes     \* bound: crashes

Http == {"GET", "PUT", "POST", "DELETE"}
Grpc == {"Get", "Set", "Delete"}

ASSUME GatewayAssumption ==
    /\ Method \subseteq Http \cup Grpc
    /\ Remembered \subseteq {"ok", "read", "error"}
    /\ {MaxKeys, MaxRequests, MaxElections, MaxCrashes} \subseteq Nat

VARIABLES chosen,     \* the commands of the replicated log, in order
          held,       \* the commands in each node's log that are not chosen (yet)
          applied,    \* how much of chosen each node has applied
          leads,      \* the nodes that take themselves for the leader
          leader,     \* the one of the latest term, if it still leads
          request,    \* what each client's handler is doing
          arrivals,   \* requests so far
          answered,   \* history: the requests that were proposed or read, and
                      \* have their answer
          elections, crashes

consensus == <<chosen, held, applied, leads, leader, elections, crashes>>

vars == <<consensus, request, arrivals, answered>>

Idle == [pc |-> "idle"]

Init == /\ chosen = <<>> /\ held = [n \in Node |-> {}]
        /\ applied = [n \in Node |-> 0]
        /\ leads = {} /\ leader = None
        /\ request = [c \in Client |-> Idle]
        /\ arrivals = 0 /\ answered = {}
        /\ elections = 0 /\ crashes = 0

-----------------------------------------------------------------------------
(* kvstore: a set command carries the id of its request as the value.        *)

Apply(data, cmd) ==
    CASE cmd.type = "set" -> [k \in DOMAIN data \cup {cmd.key} |->
                                 IF k = cmd.key THEN cmd.id ELSE data[k]]
      [] cmd.type = "delete" -> [k \in DOMAIN data \ {cmd.key} |-> data[k]]

Stores[p \in 0..Len(chosen)] ==
    IF p = 0 THEN [k \in {} |-> 0] ELSE Apply(Stores[p - 1], chosen[p])

\* The store after the first p commands.
StoreAfter(p) == Stores[p]

\* The store of node n.
Data(n) == StoreAfter(applied[n])

Exists(n, k) == k \in DOMAIN Data(n)

Lookup(data, k) == IF k \in DOMAIN data THEN data[k] ELSE None

Get(n, k) == Lookup(Data(n), k)

KVStoreSize(n) == Cardinality(DOMAIN Data(n))

Command(r) == [type |-> IF r.method \in {"DELETE", "Delete"} THEN "delete" ELSE "set",
               key |-> r.key, id |-> r.id]

-----------------------------------------------------------------------------
(* Handlers.                                                                 *)

\* A request reaches node n.  after: the requests that were answered before;
\* era: the leadership under which it arrived, or passed HandlerGet's check.
Arrive(c, n, method, k) ==
    /\ request[c] = Idle
    /\ arrivals < MaxRequests /\ arrivals' = arrivals + 1
    /\ request' = [request EXCEPT ![c] =
          [pc |-> "route", node |-> n, method |-> method, key |-> k, id |-> arrivals + 1,
           after |-> {a.id : a \in answered}, era |-> elections]]
    /\ UNCHANGED <<answered, consensus>>

At(c, pc) == request[c].pc = pc

Go(c, pc) == /\ request' = [request EXCEPT ![c].pc = pc]
             /\ UNCHANGED <<arrivals, answered, consensus>>

\* What is remembered of a request: all of it if it succeeded, nothing if the
\* handler turned it away.
Record(r, status) ==
    IF status \notin Remembered THEN {}
    ELSE IF status = "error" THEN {[id |-> r.id, status |-> status]}
    ELSE {[id |-> r.id, status |-> status, method |-> r.method, key |-> r.key,
          after |-> r.after, node |-> r.node, from |-> r.era, to |-> elections,
          value |-> IF status = "read" THEN Get(r.node, r.key) ELSE None]}

Answer(c, status) ==
    /\ request' = [request EXCEPT ![c] = Idle]
    /\ answered' = answered \cup Record(request[c], status)
    /\ UNCHANGED <<arrivals, consensus>>

IsLeader(n) == n \in leads

\* HTTP GET: any node answers, at once, from its own store.
HandleGet(c) == At(c, "route") /\ request[c].method = "GET" /\ Answer(c, "read")

\* gRPC Get goes on to its read.
Look(c) == /\ request' = [request EXCEPT ![c].pc = "get", ![c].era = elections]
           /\ UNCHANGED <<arrivals, answered, consensus>>

\* Mutant: any node answers.
HandlerGetAnyRole(c) == At(c, "route") /\ request[c].method = "Get" /\ Look(c)

\* gRPC Get, IsLeader: only a leader reads.
HandlerGet(c) ==
    /\ At(c, "route") /\ request[c].method = "Get"
    /\ IF IsLeader(request[c].node) THEN Look(c) ELSE Answer(c, "notLeader")

\* gRPC Get, its read: the node may lead no longer.
HandlerRead(c) == At(c, "get") /\ Answer(c, "read")

\* Mutant: a write that reaches the leader is proposed, like a gRPC Set.
RedirectOrPropose(c) ==
    /\ At(c, "route") /\ request[c].method \in Http \ {"GET"}
    /\ IF IsLeader(request[c].node) THEN Go(c, "propose") ELSE Go(c, "redirect")

\* redirectIfFollower, IsLeader: only a leader takes the write.
RedirectIfFollower(c) ==
    /\ At(c, "route") /\ request[c].method \in Http \ {"GET"}
    /\ IF IsLeader(request[c].node) THEN Go(c, "limits") ELSE Go(c, "redirect")

\* redirectIfFollower, LeaderID: 307 to the leader, or 503 if it knows of none.
Redirect(c, leaderID) ==
    At(c, "redirect") /\ Answer(c, IF leaderID = None THEN "unavailable" ELSE "redirect")

\* The gRPC writes: no limits, straight to the proposal.
LeaderWrite(c, method) ==
    /\ At(c, "route") /\ request[c].method = method
    /\ IF IsLeader(request[c].node) THEN Go(c, "propose") ELSE Answer(c, "notLeader")

HandlerSet(c) == LeaderWrite(c, "Set")

HandlerDelete(c) == LeaderWrite(c, "Delete")

\* What follows enforceWriteLimits.
Admitted(c) ==
    Go(c, CASE request[c].method = "PUT" -> "read"
            [] request[c].method = "POST" -> "exists"
            [] request[c].method = "DELETE" -> "propose")

\* enforceWriteLimits: the limiter (see RateLimiter) or the length of the key
\* may end the request; else the size of the store is read.
EnforceWriteLimits(c) ==
    /\ At(c, "limits")
    /\ \/ Answer(c, "refused")
       \/ IF /\ request[c].method # "DELETE"
             /\ MaxKeys > 0 /\ KVStoreSize(request[c].node) >= MaxKeys
          THEN Go(c, "full") ELSE Admitted(c)

\* enforceWriteLimits, its second read: a full store still takes a key it has.
StoreFull(c) ==
    /\ At(c, "full")
    /\ IF Exists(request[c].node, request[c].key) THEN Admitted(c) ELSE Answer(c, "refused")

\* handlePost: the key must not be there.
KeyExists(c) ==
    /\ At(c, "exists")
    /\ IF Exists(request[c].node, request[c].key) THEN Answer(c, "conflict") ELSE Go(c, "read")

\* readValue: the body is too large, or cannot be read, or is the value.
ReadValue(c) == At(c, "read") /\ (Answer(c, "refused") \/ Go(c, "propose"))

\* ProposeCommand appends to the log of a leader and blocks.
ProposeCommand(c) ==
    /\ At(c, "propose")
    /\ IF ~IsLeader(request[c].node) THEN Answer(c, "error")
       ELSE /\ held' = [held EXCEPT ![request[c].node] = @ \cup {Command(request[c])}]
            /\ request' = [request EXCEPT ![c].pc = "wait"]
            /\ UNCHANGED <<chosen, applied, leads, leader, arrivals, answered, elections, crashes>>

\* Mutant: the handler does not wait for the commit.
CommittedOnAppend(c) == At(c, "wait") /\ Answer(c, "ok")

\* ProposeCommand returns nil: the node has applied the command.
Committed(c) ==
    /\ At(c, "wait")
    /\ Contains(SubSeq(chosen, 1, applied[request[c].node]), Command(request[c]))
    /\ Answer(c, "ok")

\* Mutant: a failed proposal is reported as a success.
ProposalFailsSilently(c) == At(c, "wait") /\ Answer(c, "ok")

\* ProposeCommand returns an error: time is up or leadership lost.  The
\* command may be chosen all the same.
ProposalFails(c) == At(c, "wait") /\ Answer(c, "error")

-----------------------------------------------------------------------------
(* Consensus.                                                                *)

\* A majority holds the command, by the latest leader's count.
Choose(cmd) ==
    /\ leader # None /\ cmd \in held[leader]
    /\ chosen' = Append(chosen, cmd)
    /\ held' = [n \in Node |-> held[n] \ {cmd}]
    /\ UNCHANGED <<applied, leads, leader, request, arrivals, answered, elections, crashes>>

\* A command reaches another log, or is cut from one.
Replicate(n, cmd) ==
    /\ n # leader
    /\ \E log \in {held[n] \cup {cmd}, held[n] \ {cmd}} : held' = [held EXCEPT ![n] = log]
    /\ UNCHANGED <<chosen, applied, leads, leader, request, arrivals, answered, elections, crashes>>

ApplyNext(n) ==
    /\ applied[n] < Len(chosen)
    /\ applied' = [applied EXCEPT ![n] = @ + 1]
    /\ UNCHANGED <<chosen, held, leads, leader, request, arrivals, answered, elections, crashes>>

\* A new leader serves at once, whether or not it has applied what is chosen,
\* and even if it won a term that is past by now.
BecomeLeader(n) ==
    /\ n \notin leads /\ elections < MaxElections
    /\ leads' = leads \cup {n} /\ leader' \in {n, leader}
    /\ elections' = elections + 1
    /\ UNCHANGED <<chosen, held, applied, request, arrivals, answered, crashes>>

StepDown(n) ==
    /\ n \in leads /\ leads' = leads \ {n}
    /\ leader' = IF leader = n THEN None ELSE leader
    /\ UNCHANGED <<chosen, held, applied, request, arrivals, answered, elections, crashes>>

\* The store and the handlers of n are gone; their clients get an error.
Crash(n) ==
    LET here == {c \in Client : request[c] # Idle /\ request[c].node = n}
    IN  /\ crashes < MaxCrashes /\ crashes' = crashes + 1
        /\ applied' = [applied EXCEPT ![n] = 0]
        /\ leads' = leads \ {n}
        /\ leader' = IF leader = n THEN None ELSE leader
        /\ request' = [c \in Client |-> IF c \in here THEN Idle ELSE request[c]]
        /\ answered' = answered \cup UNION {Record(request[c], "error") : c \in here}
        /\ UNCHANGED <<chosen, held, elections, arrivals>>

Held == UNION {held[n] : n \in Node}

Next ==
    \/ \E c \in Client :
          \/ \E n \in Node, method \in Method, k \in Key : Arrive(c, n, method, k)
          \/ HandleGet(c) \/ HandlerGet(c) \/ HandlerRead(c)
          \/ HandlerSet(c) \/ HandlerDelete(c)
          \/ RedirectIfFollower(c)
          \/ \E leaderID \in Node \cup {None} : Redirect(c, leaderID)
          \/ EnforceWriteLimits(c) \/ StoreFull(c) \/ KeyExists(c)
          \/ ReadValue(c) \/ ProposeCommand(c) \/ Committed(c) \/ ProposalFails(c)
    \/ \E cmd \in Held : Choose(cmd) \/ \E n \in Node : Replicate(n, cmd)
    \/ \E n \in Node : ApplyNext(n) \/ BecomeLeader(n) \/ StepDown(n) \/ Crash(n)

Spec == Init /\ [][Next]_vars

-----------------------------------------------------------------------------
(* Properties.                                                               *)

Succeeded == {a \in answered : a.status = "ok"}

\* Where the command of request id stands in the log.
Places(id) == {p \in DOMAIN chosen : chosen[p].id = id}

\* ProposeCommand's answer: a write that succeeded stands in the log once.  A
\* command in the log, or in some node's log from where it may get there, is
\* that of a proposal that waits, succeeded or failed: a request that was
\* redirected, refused or in conflict never shows.
AnswersTruthful ==
    /\ \A a \in Succeeded : Cardinality(Places(a.id)) = 1
    /\ \A cmd \in Held \cup ToSet(chosen) :
          \/ \E c \in Client : At(c, "wait") /\ request[c].id = cmd.id
          \/ \E a \in answered : a.id = cmd.id /\ a.status \in {"ok", "error"}

\* README, "writes are fully replicated and safe": if a write succeeded before
\* another arrived, at whatever node, it stands before it in the log.
WritesInOrder ==
    \A a, b \in Succeeded : a.id \in b.after =>
        \A p \in Places(a.id), q \in Places(b.id) : p < q

\* Handler.Get, "reads are served from the leader": a node that led when it
\* took a write, and still when it checked its role for a later read of the key,
\* answers with the write's value or a later one, even if it is deposed and
\* others are elected before it reads its store.
LeaderReadsItsWrites ==
    \A a \in Succeeded, b \in answered :
        /\ b.status = "read" /\ b.method = "Get" /\ b.key = a.key
        /\ a.id \in b.after /\ a.node = b.node /\ a.from = b.from
        => \E p \in Places(a.id) : \E q \in p..Len(chosen) :
              b.value = Lookup(StoreAfter(q), b.key)

\* Between the creates a and b of one key it was deleted.
DeletedBetween(a, b) ==
    \E p \in Places(a.id), q \in Places(b.id), d \in DOMAIN chosen :
        p < d /\ d < q /\ chosen[d].type = "delete" /\ chosen[d].key = a.key

\* a and b created the same key, and a was answered before b arrived.
CreatedAgain(a, b) ==
    /\ a.method = "POST" /\ b.method = "POST" /\ a.key = b.key
    /\ a.id \in b.after

\* handlePost, "creates a key only if it does not already exist", with the one
\* exception the README makes, for concurrent creates: between two creates of a
\* key of which one was answered before the other arrived, the key was deleted.
CreateExclusive == \A a, b \in Succeeded : CreatedAgain(a, b) => DeletedBetween(a, b)

\* handlePost, under one leadership: CreateExclusive for two creates between
\* whose arrival and answer no other leader was elected.
CreateExclusiveUnderOneLeader ==
    \A a, b \in Succeeded :
        CreatedAgain(a, b) /\ a.from = b.to => DeletedBetween(a, b)

\* The write id was answered, before request b arrived, by the leader that b went
\* to, and no other leader was elected from its arrival to b's answer.
Settled(id, b) ==
    \E a \in Succeeded :
        a.id = id /\ a.id \in b.after /\ a.node = b.node /\ a.from = b.to

\* enforceWriteLimits, "rejects writes that would add a new key once the store
\* holds this many keys": the check and the write are apart, so the limit can
\* be passed, but never by a PUT or POST that found everything before it
\* settled.
KeyLimitPassedOnlyInRace ==
    \A b \in Succeeded : \A q \in Places(b.id) :
        /\ b.method \in {"PUT", "POST"} /\ MaxKeys > 0
        /\ b.key \notin DOMAIN StoreAfter(q - 1)
        /\ Cardinality(DOMAIN StoreAfter(q - 1)) >= MaxKeys
        => \E p \in 1..(q - 1) : ~Settled(chosen[p].id, b)
=============================================================================
