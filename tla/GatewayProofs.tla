---------------------------- MODULE GatewayProofs ----------------------------
(***************************************************************************)
(* What the clients of the HTTP gateway and of the gRPC service can rely   *)
(* on, for any number of nodes, clients, keys, requests, elections and     *)
(* crashes, whatever the handlers of other clients do between the steps of *)
(* one.                                                                    *)
(***************************************************************************)
EXTENDS Gateway, FiniteSetTheorems, SequenceTheorems, WellFoundedInduction, TLAPS

-----------------------------------------------------------------------------
(* The inductive invariant.                                                  *)

PC == {"route", "get", "limits", "redirect", "full", "exists", "read", "propose", "wait"}

Ticket == [pc : PC, node : Node, method : Method, key : Key, id : Nat,
           after : SUBSET Nat, era : Nat]

Entry == [type : {"set", "delete"}, key : Key, id : Nat]

Writes == {"PUT", "POST", "DELETE"}

\* The types, and that only the writes of HTTP come to enforceWriteLimits.
GatewayType ==
    /\ chosen \in Seq(Entry) /\ held \in [Node -> SUBSET Entry]
    /\ applied \in [Node -> Nat] /\ \A n \in Node : applied[n] <= Len(chosen)
    /\ request \in [Client -> Ticket \cup {Idle}]
    /\ \A c \in Client : request[c].pc \in {"limits", "full"} => request[c].method \in Writes
    /\ leads \subseteq Node /\ arrivals \in Nat /\ elections \in Nat

Live(c) == request[c] # Idle

AnsweredIds == {a.id : a \in answered}

\* Requests whose answer may be looked at.
Kept == {a \in answered : a.status \in {"ok", "read"}}

\* An id belongs to one handler, or to one that is gone, and what a request
\* came after was answered.
IdsSound ==
    /\ \A c \in Client : Live(c) =>
          /\ request[c].id \in 1..arrivals
          /\ request[c].after \subseteq AnsweredIds
          /\ request[c].era <= elections
          /\ \A d \in Client : Live(d) /\ request[d].id = request[c].id => d = c
    /\ \A a \in answered :
          /\ a.id \in 1..arrivals
          /\ \A c \in Client : Live(c) => request[c].id # a.id
    /\ \A b \in Kept : b.after \subseteq AnsweredIds

\* A command was proposed by a handler that waits or is gone.
Proposed(cmd) ==
    /\ cmd.id \in 1..arrivals
    /\ \A c \in Client : Live(c) /\ request[c].id = cmd.id => At(c, "wait")

\* The handler that proposed the command waits, or told its client.
Accounted(cmd) ==
    \/ \E c \in Client : At(c, "wait") /\ request[c].id = cmd.id
    \/ \E a \in answered : a.id = cmd.id /\ a.status \in {"ok", "error"}

\* No command is proposed or chosen twice, and a success stands in the log.
CommandsSound ==
    /\ \A cmd \in Held \cup ToSet(chosen) : Proposed(cmd)
    /\ {"ok", "error"} \subseteq Remembered => \A cmd \in Held \cup ToSet(chosen) : Accounted(cmd)
    /\ \A k, m \in Held : k.id = m.id => k = m
    /\ \A k \in Held, p \in DOMAIN chosen : chosen[p].id # k.id
    /\ \A p, q \in DOMAIN chosen : chosen[p].id = chosen[q].id => p = q
    /\ \A a \in Succeeded : \E p \in DOMAIN chosen : chosen[p].id = a.id

Earlier(x, y) == \A p \in Places(x), q \in Places(y) : p < q

\* What was answered before a request arrived stands before it in the log.
OrderSound ==
    /\ \A a \in Succeeded : \A c \in Client :
          Live(c) /\ a.id \in request[c].after => Earlier(a.id, request[c].id)
    /\ WritesInOrder

\* The write of record a was answered before request t arrived, by t's node,
\* and it had itself arrived under the leadership era.
AnsweredBy(a, t, era) == a.id \in t.after /\ a.node = t.node /\ a.from = era

\* A gRPC Get that has passed its check reads a store that has every write which
\* the leadership that it found had answered, whoever leads by now.
ReadsSound ==
    \A a \in Succeeded, c \in Client :
        At(c, "get") /\ AnsweredBy(a, request[c], request[c].era)
        => \E p \in Places(a.id) : p <= applied[a.node]

\* A node that has led since before it took a write has applied it.
LeadersSound ==
    /\ \A a \in Succeeded :
          /\ a.from \in 0..elections
          /\ a.from = elections /\ a.node \in leads
             => \E p \in Places(a.id) : p <= applied[a.node]
    /\ LeaderReadsItsWrites

GatewayInv ==
    /\ GatewayType /\ IdsSound /\ CommandsSound /\ OrderSound
    /\ LeadersSound /\ ReadsSound

-----------------------------------------------------------------------------
(* What the steps of a handler are.                                          *)

\* The two checks of a write: enforceWriteLimits (there is room for the key)
\* and handlePost (the key is absent).
Kinds == {"room", "absent"}

\* The check lets a write of key k pass on the store after m commands.
Admits(kind, k, m) ==
    IF kind = "room"
    THEN k \in DOMAIN StoreAfter(m) \/ ~(Cardinality(DOMAIN StoreAfter(m)) >= MaxKeys)
    ELSE k \notin DOMAIN StoreAfter(m)

\* The writes that a check is for, and where their handler is past it.
Guards(kind, method) ==
    IF kind = "room" THEN MaxKeys > 0 /\ method \in {"PUT", "POST"} ELSE method = "POST"

Beyond(kind) ==
    IF kind = "room" THEN {"exists", "read", "propose", "wait"} ELSE {"read", "propose", "wait"}

\* The handler of c is past redirectIfFollower.
Inside(c) == request[c].method \in Writes /\ request[c].pc \notin {"route", "redirect"}

\* A handler goes on to pc only if it has found what it must: the leader, on
\* its way in, and then room for the key and that it is absent.
Checks(c, pc) ==
    /\ request[c].method \in Writes /\ pc \notin {"route", "redirect"}
       => Inside(c) \/ IsLeader(request[c].node)
    /\ \A kind \in Kinds : Guards(kind, request[c].method) /\ pc \in Beyond(kind) =>
          \/ request[c].pc \in Beyond(kind)
          \/ Inside(c) /\ Admits(kind, request[c].key, applied[request[c].node])

\* What the handler of c is doing when it has gone on to pc.
Moved(c, pc) ==
    IF pc = "get" THEN [request[c] EXCEPT !.pc = pc, !.era = elections]
    ELSE [request[c] EXCEPT !.pc = pc]

\* The handler of c goes on.
Goes(c, pc) ==
    /\ request' = [request EXCEPT ![c] = Moved(c, pc)]
    /\ UNCHANGED <<arrivals, answered, consensus>>
    /\ Live(c) /\ ~At(c, "wait")
    /\ pc \in PC \ {"wait"}
    /\ pc = "get" => IsLeader(request[c].node)
    /\ pc \in {"limits", "full"} => request[c].method \in Writes
    /\ Checks(c, pc)

\* The handler of c answers.
Answers(c, status) ==
    /\ Answer(c, status) /\ Live(c)
    /\ At(c, "wait") => status \in {"ok", "error"}
    /\ status = "ok" => At(c, "wait") /\
          Contains(SubSeq(chosen, 1, applied[request[c].node]), Command(request[c]))
    /\ status = "read" /\ request[c].method = "Get" => At(c, "get")

\* The handler of c hands its command to the log of its node.
Proposes(c) ==
    /\ ProposeCommand(c) /\ Live(c) /\ At(c, "propose") /\ ~At(c, "wait")
    /\ held' = [held EXCEPT ![request[c].node] = @ \cup {Command(request[c])}]
    /\ request' = [request EXCEPT ![c].pc = "wait"]
    /\ UNCHANGED <<chosen, applied, leads, leader, arrivals, answered, elections, crashes>>

Handles(c) ==
    \/ HandleGet(c) \/ HandlerGet(c) \/ HandlerRead(c) \/ HandlerSet(c) \/ HandlerDelete(c)
    \/ RedirectIfFollower(c)
    \/ \E leaderID \in Node \cup {None} : Redirect(c, leaderID)
    \/ EnforceWriteLimits(c) \/ StoreFull(c) \/ KeyExists(c)
    \/ ReadValue(c) \/ ProposeCommand(c) \/ Committed(c) \/ ProposalFails(c)

LEMMA HandlerCases ==
    ASSUME GatewayType, NEW c \in Client, Handles(c)
    PROVE  (\E pc : Goes(c, pc)) \/ (\E status : Answers(c, status)) \/ Proposes(c)
  <1>. DEFINE Goal == (\E pc : Goes(c, pc)) \/ (\E status : Answers(c, status)) \/ Proposes(c)
  <1>. SUFFICES Goal
    OBVIOUS
  <1>1. \A pc \in PC : At(c, pc) => Live(c)
    BY DEF At, Live, Idle, PC
  <1>2. ASSUME NEW pc, NEW old \in PC \ {"wait"}, At(c, old), Go(c, pc),
               pc \in PC \ {"wait", "get"},
               pc \in {"limits", "full"} => request[c].method \in Writes, Checks(c, pc)
        PROVE  Goal
    <2>1. Live(c) /\ ~At(c, "wait")
      BY <1>1, <1>2 DEF At
    <2>2. request' = [request EXCEPT ![c] = Moved(c, pc)]
      BY <1>2 DEF Go, Moved
    <2>. QED BY <1>2, <2>1, <2>2 DEF Goes, Go
  <1>3. ASSUME NEW status, NEW old \in PC \ {"wait"}, At(c, old), Answer(c, status),
               status # "ok",
               status = "read" /\ request[c].method = "Get" => At(c, "get")
        PROVE  Goal
    <2>1. Live(c) /\ ~At(c, "wait")
      BY <1>1, <1>3 DEF At
    <2>. QED BY <1>3, <2>1 DEF Answers
  <1>. HIDE DEF Goal
  <1>4. CASE HandleGet(c) \/ HandlerGet(c) \/ HandlerRead(c)
    <2>1. CASE HandleGet(c) \/ HandlerRead(c)
      BY <1>3, <2>1 DEF HandleGet, HandlerRead, PC
    <2>2. ASSUME At(c, "route"), request[c].method = "Get", Look(c), IsLeader(request[c].node)
          PROVE  Goal
      <3>1. Live(c) /\ ~At(c, "wait")
        BY <1>1, <2>2 DEF At, PC
      <3>2. Checks(c, "get")
        BY <2>2 DEF Checks, Writes, Beyond
      <3>3. request' = [request EXCEPT ![c] = Moved(c, "get")]
        BY <2>2 DEF Look, Moved
      <3>4. Goes(c, "get")
        BY <2>2, <3>1, <3>2, <3>3 DEF Goes, Look, PC
      <3>. QED BY <3>4 DEF Goal
    <2>3. CASE HandlerGet(c)
      BY <1>3, <2>2, <2>3 DEF HandlerGet, PC
    <2>. QED BY <1>4, <2>1, <2>3
  <1>5. CASE HandlerSet(c) \/ HandlerDelete(c)
    <2>1. PICK method \in {"Set", "Delete"} : LeaderWrite(c, method)
      BY <1>5 DEF HandlerSet, HandlerDelete
    <2>2. request[c].method \notin Writes /\ At(c, "route")
      BY <2>1 DEF LeaderWrite, Writes
    <2>3. Checks(c, "propose")
      BY <2>2 DEF Checks, Guards, Writes
    <2>. QED BY <1>2, <1>3, <2>1, <2>2, <2>3 DEF LeaderWrite, PC
  <1>6. CASE RedirectIfFollower(c)
    <2>1. At(c, "route") /\ request[c].method \in Writes
      BY <1>6 DEF RedirectIfFollower, Http, Writes
    <2>2. (IsLeader(request[c].node) => Checks(c, "limits")) /\ Checks(c, "redirect")
      BY DEF Checks, Beyond
    <2>. QED BY <1>2, <1>6, <2>1, <2>2 DEF RedirectIfFollower, PC
  <1>7. ASSUME NEW leaderID, Redirect(c, leaderID) PROVE Goal
    BY <1>3, <1>7 DEF Redirect, PC
  <1>8. ASSUME NEW old \in {"limits", "full"}, At(c, old), Admitted(c),
               request[c].method # "DELETE" /\ MaxKeys > 0
               => Admits("room", request[c].key, applied[request[c].node])
        PROVE  Goal
    <2>1. request[c].method \in Writes /\ Inside(c)
      BY <1>8 DEF At, GatewayType, Inside
    <2>2. PICK pc \in {"read", "exists", "propose"} :
             /\ Go(c, pc)
             /\ request[c].method = CASE pc = "read" -> "PUT" [] pc = "exists" -> "POST"
                                      [] pc = "propose" -> "DELETE"
      BY <1>8, <2>1 DEF Admitted, Writes
    <2>3. Checks(c, pc)
      <3>1. ASSUME NEW kind \in Kinds, Guards(kind, request[c].method), pc \in Beyond(kind)
            PROVE  Admits(kind, request[c].key, applied[request[c].node])
        <4>1. kind = "room"
          BY <2>2, <3>1 DEF Kinds, Guards, Beyond
        <4>. QED BY <1>8, <3>1, <4>1 DEF Guards
      <3>. QED BY <2>1, <3>1 DEF Checks
    <2>. QED BY <1>2, <1>8, <2>2, <2>3 DEF PC
  <1>9. CASE EnforceWriteLimits(c)
    <2>1. /\ At(c, "limits")
          /\ \/ Answer(c, "refused") \/ Go(c, "full")
             \/ /\ Admitted(c)
                /\ request[c].method # "DELETE" /\ MaxKeys > 0
                   => ~(KVStoreSize(request[c].node) >= MaxKeys)
      BY <1>9 DEF EnforceWriteLimits
    <2>2. request[c].method \in Writes
      BY <2>1 DEF At, GatewayType
    <2>3. ~(KVStoreSize(request[c].node) >= MaxKeys)
          => Admits("room", request[c].key, applied[request[c].node])
      BY Zenon DEF Admits, KVStoreSize, Data
    <2>4. Checks(c, "full")
      BY <2>1, <2>2 DEF Checks, Beyond, Inside, At
    <2>. QED BY <1>2, <1>3, <1>8, <2>1, <2>2, <2>3, <2>4 DEF PC
  <1>10. CASE StoreFull(c)
    <2>1. /\ At(c, "full")
          /\ Answer(c, "refused") \/ (Admitted(c) /\ Exists(request[c].node, request[c].key))
      BY <1>10 DEF StoreFull
    <2>2. Exists(request[c].node, request[c].key)
          => Admits("room", request[c].key, applied[request[c].node])
      BY Zenon DEF Admits, Exists, Data
    <2>. QED BY <1>3, <1>8, <2>1, <2>2 DEF PC
  <1>11. CASE KeyExists(c) \/ ReadValue(c)
    <2>1. CASE KeyExists(c)
      <3>1. /\ At(c, "exists")
            /\ \/ Answer(c, "conflict")
               \/ ~Exists(request[c].node, request[c].key) /\ Go(c, "read")
        BY <2>1 DEF KeyExists
      <3>2. ASSUME ~Exists(request[c].node, request[c].key) PROVE Checks(c, "read")
        <4>1. Admits("absent", request[c].key, applied[request[c].node])
          BY <3>2 DEF Admits, Exists, Data
        <4>2. Guards("absent", request[c].method) => Inside(c)
          BY <3>1 DEF Guards, Inside, Writes, At
        <4>3. request[c].pc \in Beyond("room") /\ (request[c].method \in Writes => Inside(c))
          BY <3>1 DEF At, Beyond, Inside
        <4>. QED BY <4>1, <4>2, <4>3 DEF Checks, Kinds
      <3>. QED BY <1>2, <1>3, <3>1, <3>2 DEF PC
    <2>2. CASE ReadValue(c)
      <3>1. At(c, "read") /\ (Answer(c, "refused") \/ Go(c, "propose"))
        BY <2>2 DEF ReadValue
      <3>2. Checks(c, "propose")
        BY <3>1 DEF Checks, Kinds, Beyond, Inside, At
      <3>. QED BY <1>2, <1>3, <3>1, <3>2 DEF PC
    <2>. QED BY <1>11, <2>1, <2>2
  <1>12. CASE ProposeCommand(c)
    <2>1. At(c, "propose") /\ Live(c) /\ ~At(c, "wait")
      BY <1>1, <1>12 DEF ProposeCommand, At, PC
    <2>2. CASE IsLeader(request[c].node)
      BY <1>12, <2>1, <2>2 DEF ProposeCommand, Proposes, Goal
    <2>3. CASE ~IsLeader(request[c].node)
      BY <1>3, <1>12, <2>1, <2>3 DEF ProposeCommand, PC
    <2>. QED BY <2>2, <2>3
  <1>13. CASE Committed(c)
    <2>1. Answers(c, "ok")
      BY <1>1, <1>13 DEF Committed, Answers, PC
    <2>. QED BY <2>1 DEF Goal
  <1>14. CASE ProposalFails(c)
    <2>1. Answers(c, "error")
      BY <1>1, <1>14 DEF ProposalFails, Answers, PC
    <2>. QED BY <2>1 DEF Goal
  <1>. QED BY <1>4, <1>5, <1>6, <1>7, <1>9, <1>10, <1>11, <1>12, <1>13, <1>14 DEF Handles

-----------------------------------------------------------------------------
(* What keeps each part of the invariant.                                    *)

\* Handler c, if there is one, is still there with its request.
Same(c) ==
    /\ (request'[c] # Idle) <=> Live(c)
    /\ Live(c) => /\ request'[c].id = request[c].id
                  /\ request'[c].after = request[c].after
                  /\ request'[c].era \in {request[c].era, elections}

\* The log keeps what it has.
Grew ==
    /\ chosen \in Seq(Entry) /\ chosen' \in Seq(Entry) /\ Len(chosen) <= Len(chosen')
    /\ \A p \in 1..Len(chosen) : chosen'[p] = chosen[p]

LEMMA IdsStay ==
    ASSUME GatewayType, IdsSound, \A c \in Client : Same(c), answered' = answered,
           arrivals' = arrivals, elections' \in Nat, elections <= elections'
    PROVE  IdsSound'
  <1>1. \A c \in Client : Live(c) => request[c].era \in Nat
    BY DEF GatewayType, Live, Ticket
  <1>2. elections \in Nat
    BY DEF GatewayType
  <1>. QED BY <1>1, <1>2 DEF IdsSound, Same, Live, AnsweredIds, Kept

LEMMA CommandsStay ==
    ASSUME CommandsSound, \A c \in Client : Same(c),
           \A c \in Client : request'[c].pc = "wait" <=> At(c, "wait"),
           chosen' = chosen, Held' \subseteq Held, answered' = answered, arrivals' = arrivals
    PROVE  CommandsSound'
  <1>1. \A cmd : Proposed(cmd) => Proposed(cmd)'
    BY DEF Proposed, Same, Live, At
  <1>2. \A cmd : Accounted(cmd) => Accounted(cmd)'
    <2>. SUFFICES ASSUME NEW cmd, Accounted(cmd) PROVE Accounted(cmd)'
      OBVIOUS
    <2>1. CASE \E a \in answered : a.id = cmd.id /\ a.status \in {"ok", "error"}
      BY <2>1 DEF Accounted
    <2>2. ASSUME NEW c \in Client, At(c, "wait"), request[c].id = cmd.id PROVE Accounted(cmd)'
      <3>1. Live(c)
        BY <2>2 DEF At, Live, Idle
      <3>. QED BY <2>2, <3>1 DEF Accounted, Same, At
    <2>. QED BY <2>1, <2>2 DEF Accounted
  <1>3. Succeeded' = Succeeded
    BY DEF Succeeded
  <1>. QED BY <1>1, <1>2, <1>3 DEF CommandsSound

LEMMA OrderStays ==
    ASSUME OrderSound, \A c \in Client : Same(c), chosen' = chosen, answered' = answered
    PROVE  OrderSound'
  <1>1. Succeeded' = Succeeded /\ \A id : Places(id)' = Places(id)
    BY DEF Succeeded, Places
  <1>2. \A x, y : Earlier(x, y)' <=> Earlier(x, y)
    BY <1>1 DEF Earlier
  <1>3. WritesInOrder'
    BY <1>1 DEF OrderSound, WritesInOrder
  <1>. QED BY <1>1, <1>2, <1>3 DEF OrderSound, Same, Live

LEMMA LeastNumber ==
    ASSUME NEW S \in SUBSET Nat, S # {}
    PROVE  \E x \in S : \A y \in S : x <= y
  <1>. DEFINE less == OpToRel(<, Nat)
  <1>1. IsWellFoundedOn(less, Nat)
    BY NatLessThanWellFounded
  <1>2. PICK y \in S : \A z \in S : ~ (<<z, y>> \in less)
    <2>. HIDE DEF less
    <2>. QED BY <1>1, WFMin
  <1>3. \A z \in S : ~(z < y)
    BY <1>2 DEF OpToRel
  <1>. QED BY <1>3

EmptyStore == [k \in {} |-> 0]

\* f is the store after each of the first n commands of log.
Runs(log, n, f) ==
    f = [p \in 0..n |-> IF p = 0 THEN EmptyStore ELSE Apply(f[p - 1], log[p])]

LEMMA RunExists ==
    ASSUME NEW log, NEW n \in Nat
    PROVE  \E f : Runs(log, n, f)
  <1>. DEFINE Missing == {k \in Nat : ~\E f : Runs(log, k, f)}
  <1>1. Missing = {}
    <2>. SUFFICES ASSUME Missing # {} PROVE FALSE
      OBVIOUS
    <2>1. Missing \in SUBSET Nat
      OBVIOUS
    <2>2. PICK k \in Missing : \A l \in Missing : k <= l
      <3>. HIDE DEF Missing
      <3>. QED BY <2>1, LeastNumber
    <2>3. CASE k = 0
      <3>. DEFINE g == [p \in 0..0 |-> EmptyStore]
      <3>1. g = [p \in 0..0 |-> IF p = 0 THEN EmptyStore ELSE Apply(g[p - 1], log[p])]
        OBVIOUS
      <3>2. Runs(log, 0, g)
        BY <3>1, Zenon DEF Runs
      <3>. QED BY <2>2, <2>3, <3>2, Zenon
    <2>4. CASE k # 0
      <3>1. k - 1 \in Nat /\ k - 1 \notin Missing /\ k \in Nat
        <4>1. k \in Nat
          BY <2>1
        <4>. HIDE DEF Missing
        <4>. QED BY <2>2, <2>4, <4>1
      <3>2. PICK f : Runs(log, k - 1, f)
        BY <3>1, Zenon
      <3>. DEFINE g == [p \in 0..k |-> IF p = 0 THEN EmptyStore ELSE Apply(f[p - 1], log[p])]
      <3>3. \A p \in 0..k : g[p] = IF p = 0 THEN EmptyStore ELSE Apply(f[p - 1], log[p])
        BY Zenon
      <3>4. \A p \in 0..(k - 1) : f[p] = IF p = 0 THEN EmptyStore ELSE Apply(f[p - 1], log[p])
        BY <3>2, Zenon DEF Runs
      <3>5. \A p \in 0..k : p \in 0..(k - 1) \/ p = k
        BY <3>1
      <3>6. \A p \in 0..k : p # 0 => p - 1 \in 0..(k - 1) /\ p - 1 \in 0..k
        BY <3>1
      <3>7. \A p \in 0..(k - 1) : p \in 0..k
        BY <3>1
      <3>8. DOMAIN g = 0..k /\ g = [p \in 0..k |-> g[p]]
        BY Zenon
      <3>. HIDE DEF g, Missing
      <3>9. \A p \in 0..(k - 1) : g[p] = f[p]
        BY <3>3, <3>4, <3>7, Zenon
      <3>10. \A p \in 0..k : g[p] = IF p = 0 THEN EmptyStore ELSE Apply(g[p - 1], log[p])
        BY <3>3, <3>6, <3>9, Zenon
      <3>11. g = [p \in 0..k |-> IF p = 0 THEN EmptyStore ELSE Apply(g[p - 1], log[p])]
        BY <3>8, <3>10, Zenon
      <3>12. Runs(log, k, g)
        BY <3>11, Zenon DEF Runs
      <3>. QED BY <2>2, <3>12, Zenon DEF Missing
    <2>. QED BY <2>3, <2>4, Zenon
  <1>. QED BY <1>1, Zenon

Run(log, n) == CHOOSE f : Runs(log, n, f)

LEMMA RunFacts ==
    ASSUME NEW log, NEW n \in Nat
    PROVE  /\ Run(log, n)[0] = EmptyStore
           /\ \A p \in 1..n : Run(log, n)[p] = Apply(Run(log, n)[p - 1], log[p])
  <1>. DEFINE f == Run(log, n)
  <1>1. Runs(log, n, f)
    BY RunExists, Zenon DEF Run
  <1>. HIDE DEF f
  <1>2. \A p \in 0..n : f[p] = IF p = 0 THEN EmptyStore ELSE Apply(f[p - 1], log[p])
    BY <1>1, Zenon DEF Runs
  <1>3. 0 \in 0..n /\ \A p \in 1..n : p \in 0..n /\ p # 0
    OBVIOUS
  <1>4. f[0] = EmptyStore /\ \A p \in 1..n : f[p] = Apply(f[p - 1], log[p])
    BY <1>2, <1>3, Zenon
  <1>. QED BY <1>4 DEF f

\* Stores are what their first commands make them.
LEMMA RunsAgree ==
    ASSUME NEW s, NEW t, NEW k \in Nat, NEW m \in Nat, NEW n \in Nat, n <= k, n <= m,
           \A p \in 1..n : s[p] = t[p]
    PROVE  \A p \in 0..n : Run(s, k)[p] = Run(t, m)[p]
  <1>. DEFINE f == Run(s, k)
              g == Run(t, m)
              Bad == {p \in 0..n : f[p] # g[p]}
  <1>0. /\ f[0] = g[0]
        /\ \A p \in 1..n : f[p] = Apply(f[p - 1], s[p])
        /\ \A p \in 1..n : g[p] = Apply(g[p - 1], t[p])
    <2>1. \A p \in 1..n : p \in 1..k /\ p \in 1..m
      OBVIOUS
    <2>. QED BY <2>1, RunFacts, Zenon
  <1>. HIDE DEF f, g
  <1>1. Bad = {}
    <2>. SUFFICES ASSUME Bad # {} PROVE FALSE
      OBVIOUS
    <2>1. Bad \in SUBSET Nat
      OBVIOUS
    <2>2. PICK b \in Bad : \A l \in Bad : b <= l
      <3>. HIDE DEF Bad
      <3>. QED BY <2>1, LeastNumber
    <2>3. b \in 0..n /\ b # 0 /\ f[b] # g[b]
      BY <1>0, <2>2
    <2>4. b \in 1..n /\ b - 1 \in 0..n /\ b - 1 \notin Bad
      <3>. HIDE DEF Bad
      <3>. QED BY <2>2, <2>3
    <2>5. f[b - 1] = g[b - 1]
      BY <2>4, Zenon
    <2>6. f[b] = g[b]
      BY <1>0, <2>4, <2>5, Zenon
    <2>. QED BY <2>3, <2>6
  <1>. QED BY <1>1, Zenon DEF f, g

LEMMA StoresRun == Stores = Run(chosen, Len(chosen))
  BY Zenon DEF Stores, Run, Runs, EmptyStore

\* What the store was after the first q commands it stays.
LEMMA StoreStays ==
    ASSUME Grew, NEW q \in 0..Len(chosen)
    PROVE  StoreAfter(q)' = StoreAfter(q)
  <1>1. /\ Len(chosen) \in Nat /\ Len(chosen') \in Nat /\ q \in Nat /\ q <= Len(chosen)
        /\ q <= Len(chosen') /\ \A p \in 1..q : p \in 1..Len(chosen)
    BY DEF Grew
  <1>2. \A p \in 1..q : chosen[p] = chosen'[p]
    BY <1>1 DEF Grew
  <1>3. PICK s, t, k, m : s = chosen /\ t = chosen' /\ k = Len(chosen) /\ m = Len(chosen')
    BY Zenon
  <1>4. Stores = Run(s, k)
    BY <1>3, StoresRun, Zenon
  <1>5. Stores' = Run(t, m)
    <2>1. Stores' = CHOOSE f : f = [p \in 0..Len(chosen') |->
                                       IF p = 0 THEN EmptyStore ELSE Apply(f[p - 1], chosen'[p])]
      BY Zenon DEF Stores, EmptyStore
    <2>. QED BY <1>3, <2>1, Zenon DEF Run, Runs
  <1>6. \A p \in 0..q : Run(s, k)[p] = Run(t, m)[p]
    <2>1. k \in Nat /\ m \in Nat /\ q <= k /\ q <= m /\ \A p \in 1..q : s[p] = t[p]
      BY <1>1, <1>2, <1>3
    <2>2. q \in Nat
      BY <1>1
    <2>3. \A n \in Nat : n <= k /\ n <= m /\ (\A p \in 1..n : s[p] = t[p])
                         => \A p \in 0..n : Run(s, k)[p] = Run(t, m)[p]
      <3>. SUFFICES ASSUME NEW n \in Nat, n <= k, n <= m, \A p \in 1..n : s[p] = t[p]
                    PROVE  \A p \in 0..n : Run(s, k)[p] = Run(t, m)[p]
        OBVIOUS
      <3>1. k \in Nat /\ m \in Nat
        BY <2>1
      <3>. QED BY <3>1, RunsAgree
    <2>. QED BY <2>1, <2>2, <2>3, Zenon
  <1>7. q \in 0..q
    BY <1>1
  <1>. QED BY <1>4, <1>5, <1>6, <1>7, Zenon DEF StoreAfter

LEMMA PlacesGrow ==
    ASSUME Grew, NEW id
    PROVE  Places(id) \subseteq Places(id)'
  BY DEF Grew, Places

\* A read that met a write still does.
LEMMA ReadsStay ==
    ASSUME Grew, NEW a, NEW b,
           \E p \in Places(a.id) : \E q \in p..Len(chosen) :
              b.value = Lookup(StoreAfter(q), b.key)
    PROVE  \E p \in Places(a.id)' : \E q \in p..Len(chosen') :
              b.value = Lookup(StoreAfter(q)', b.key)
  <1>0. PICK p \in Places(a.id) : \E q \in p..Len(chosen) : b.value = Lookup(StoreAfter(q), b.key)
    OBVIOUS
  <1>1. PICK q \in p..Len(chosen) : b.value = Lookup(StoreAfter(q), b.key)
    BY <1>0
  <1>2. p \in 1..Len(chosen) /\ Len(chosen) \in Nat /\ Len(chosen') \in Nat
    BY DEF Places, Grew
  <1>3. q \in 0..Len(chosen) /\ q \in p..Len(chosen')
    BY <1>1, <1>2 DEF Grew
  <1>4. Lookup(StoreAfter(q)', b.key) = Lookup(StoreAfter(q), b.key)
    <2>1. StoreAfter(q)' = StoreAfter(q)
      BY <1>3, StoreStays
    <2>. HIDE DEF StoreAfter
    <2>. QED BY <2>1 DEF Lookup
  <1>. QED BY <1>1, <1>3, <1>4, PlacesGrow

LEMMA LeadersStay ==
    ASSUME GatewayType, LeadersSound, Grew, answered' = answered,
           elections' \in Nat, elections <= elections',
           elections' = elections => \A n \in leads' : n \in leads /\ applied[n] <= applied'[n],
           applied' \in [Node -> Nat]
    PROVE  LeadersSound'
  <1>1. \A n \in Node : applied[n] \in Nat /\ applied'[n] \in Nat
    BY DEF GatewayType
  <1>2. Succeeded' = Succeeded
    BY DEF Succeeded
  <1>3. LeaderReadsItsWrites'
    BY <1>2, ReadsStay DEF LeadersSound, LeaderReadsItsWrites
  <1>4. ASSUME NEW a \in Succeeded
        PROVE  /\ a.from \in 0..elections'
               /\ a.from = elections' /\ a.node \in leads'
                  => \E p \in Places(a.id)' : p <= applied'[a.node]
    <2>1. a.from \in 0..elections /\ elections \in Nat
      BY DEF LeadersSound, GatewayType
    <2>2. ASSUME a.from = elections', a.node \in leads'
          PROVE  \E p \in Places(a.id)' : p <= applied'[a.node]
      <3>1. a.from = elections /\ a.node \in leads /\ a.node \in Node
            /\ applied[a.node] <= applied'[a.node]
        BY <2>1, <2>2 DEF GatewayType
      <3>2. PICK p \in Places(a.id) : p <= applied[a.node]
        BY <3>1 DEF LeadersSound
      <3>3. p \in Nat
        BY DEF Places, Grew
      <3>. QED BY <1>1, <3>1, <3>2, <3>3, PlacesGrow
    <2>. QED BY <2>1, <2>2
  <1>. QED BY <1>2, <1>3, <1>4 DEF LeadersSound

\* A Get that was past its check is at it still, and one that has just passed it
\* found the leader.
LEMMA GetsStay ==
    ASSUME GatewayType, LeadersSound, ReadsSound, Grew, answered' = answered,
           applied' \in [Node -> Nat], \A n \in Node : applied[n] <= applied'[n],
           \A c \in Client : request'[c].pc = "get" =>
              \/ request'[c] = request[c]
              \/ request'[c].era = elections /\ request'[c].node \in leads
    PROVE  ReadsSound'
  <1>. SUFFICES ASSUME NEW a \in Succeeded, NEW c \in Client, request'[c].pc = "get",
                       AnsweredBy(a, request'[c], request'[c].era)
                PROVE  \E p \in Places(a.id)' : p <= applied'[a.node]
    BY DEF ReadsSound, Succeeded, At, AnsweredBy
  <1>1. a.node \in Node /\ \E p \in Places(a.id) : p <= applied[a.node]
    <2>1. CASE request'[c] = request[c]
      <3>1. At(c, "get") /\ request[c].node \in Node
        BY <2>1 DEF At, GatewayType, Ticket, Idle
      <3>. QED BY <2>1, <3>1 DEF ReadsSound, AnsweredBy
    <2>2. CASE request'[c].era = elections /\ request'[c].node \in leads
      BY <2>2 DEF LeadersSound, AnsweredBy, GatewayType
    <2>. QED BY <2>1, <2>2
  <1>2. PICK p \in Places(a.id) : p <= applied[a.node]
    BY <1>1
  <1>3. p \in Nat /\ applied[a.node] \in Nat /\ applied'[a.node] \in Nat
    BY <1>1 DEF Places, Grew, GatewayType
  <1>. QED BY <1>1, <1>2, <1>3, PlacesGrow

-----------------------------------------------------------------------------
(* The handlers.                                                             *)

\* A handler moves on with its request.
LEMMA GoingOn ==
    ASSUME GatewayType, NEW c \in Client, NEW pc \in PC, Live(c),
           request' = [request EXCEPT ![c] = Moved(c, pc)]
    PROVE  /\ request' \in [Client -> Ticket \cup {Idle}]
           /\ \A d \in Client : Same(d)
           /\ request'[c].pc = pc /\ request'[c].method = request[c].method
           /\ request'[c].node = request[c].node
           /\ pc = "get" => request'[c].era = elections
           /\ \A d \in Client \ {c} : request'[d] = request[d]
  <1>1. request \in [Client -> Ticket \cup {Idle}] /\ request[c] \in Ticket
    BY DEF GatewayType, Live
  <1>. DEFINE r == Moved(c, pc)
  <1>2. elections \in Nat
    BY DEF GatewayType
  <1>3. /\ r \in Ticket /\ r.pc = pc /\ r.method = request[c].method /\ r.node = request[c].node
        /\ r.id = request[c].id /\ r.after = request[c].after
        /\ r.era \in {request[c].era, elections} /\ (pc = "get" => r.era = elections)
    <2>1. CASE pc = "get"
      BY <1>1, <1>2, <2>1 DEF Ticket, Moved
    <2>2. CASE pc # "get"
      BY <1>1, <2>2 DEF Ticket, Moved
    <2>. QED BY <2>1, <2>2
  <1>. HIDE DEF r
  <1>4. request'[c] = r /\ \A d \in Client \ {c} : request'[d] = request[d]
    BY <1>1 DEF r
  <1>5. r # Idle
    BY <1>3 DEF Idle, PC
  <1>6. request' \in [Client -> Ticket \cup {Idle}]
    BY <1>1, <1>3 DEF r
  <1>7. \A d \in Client : Same(d)
    BY <1>3, <1>4, <1>5 DEF Same, Live
  <1>. QED BY <1>3, <1>4, <1>6, <1>7

LEMMA HeldStays ==
    ASSUME held' = held
    PROVE  Held' = Held
  BY DEF Held

LEMMA GoesKeeps ==
    ASSUME GatewayInv, NEW c \in Client, NEW pc, Goes(c, pc)
    PROVE  GatewayInv'
  <1>1. /\ request' = [request EXCEPT ![c] = Moved(c, pc)] /\ Live(c) /\ pc \in PC
        /\ UNCHANGED <<arrivals, answered, chosen, held, applied, leads, elections>>
    BY DEF Goes, consensus
  <1>2. GatewayType /\ IdsSound /\ CommandsSound /\ OrderSound /\ LeadersSound /\ ReadsSound
    BY DEF GatewayInv
  <1>3. /\ request' \in [Client -> Ticket \cup {Idle}] /\ \A d \in Client : Same(d)
        /\ request'[c].pc = pc /\ request'[c].method = request[c].method
        /\ request'[c].node = request[c].node /\ (pc = "get" => request'[c].era = elections)
        /\ \A d \in Client \ {c} : request'[d] = request[d]
    BY <1>1, <1>2, GoingOn
  <1>4. Grew /\ elections \in Nat /\ elections' = elections
    BY <1>1, <1>2 DEF Grew, GatewayType
  <1>5. GatewayType'
    <2>1. pc \in {"limits", "full"} => request[c].method \in Writes
      BY DEF Goes
    <2>. QED BY <1>1, <1>2, <1>3, <2>1 DEF GatewayType
  <1>6. IdsSound'
    BY <1>1, <1>2, <1>3, <1>4, IdsStay
  <1>7. CommandsSound'
    <2>1. \A d \in Client : request'[d].pc = "wait" <=> At(d, "wait")
      BY <1>3 DEF At, Goes
    <2>. QED BY <1>1, <1>2, <1>3, <2>1, CommandsStay, HeldStays
  <1>8. OrderSound'
    BY <1>1, <1>2, <1>3, OrderStays
  <1>9. LeadersSound'
    BY <1>1, <1>2, <1>4, LeadersStay DEF GatewayType
  <1>10. ReadsSound'
    <2>1. pc = "get" => request[c].node \in leads
      BY DEF Goes, IsLeader
    <2>2. applied' \in [Node -> Nat] /\ \A n \in Node : applied[n] <= applied'[n]
      BY <1>1, <1>2 DEF GatewayType
    <2>. QED BY <1>1, <1>2, <1>3, <1>4, <2>1, <2>2, GetsStay
  <1>. QED BY <1>5, <1>6, <1>7, <1>8, <1>9, <1>10 DEF GatewayInv

\* A handler's command is one that nobody has proposed yet.
LEMMA ProposesCommands ==
    ASSUME GatewayType, IdsSound, CommandsSound, NEW c \in Client, Live(c), ~At(c, "wait"),
           NEW new, new.id = request[c].id, Held' \subseteq Held \cup {new},
           \A d \in Client : Same(d), request'[c].pc = "wait",
           \A d \in Client \ {c} : request'[d] = request[d],
           chosen' = chosen, answered' = answered, arrivals' = arrivals
    PROVE  CommandsSound'
  <1>1. \A cmd \in Held \cup ToSet(chosen) : cmd.id # new.id
    BY DEF CommandsSound, Proposed
  <1>2. \A cmd \in Held \cup ToSet(chosen) : Proposed(cmd)'
    <2>. SUFFICES ASSUME NEW cmd \in Held \cup ToSet(chosen) PROVE Proposed(cmd)'
      OBVIOUS
    <2>1. Proposed(cmd) /\ cmd.id # request[c].id
      BY <1>1 DEF CommandsSound
    <2>. QED BY <2>1 DEF Proposed, Same, Live, At
  <1>3. Proposed(new)'
    BY DEF Proposed, IdsSound, Same, Live, At
  <1>4. \A cmd : Accounted(cmd) => Accounted(cmd)'
    <2>. SUFFICES ASSUME NEW cmd, Accounted(cmd) PROVE Accounted(cmd)'
      OBVIOUS
    <2>1. CASE \E a \in answered : a.id = cmd.id /\ a.status \in {"ok", "error"}
      BY <2>1 DEF Accounted
    <2>2. ASSUME NEW d \in Client, At(d, "wait"), request[d].id = cmd.id PROVE Accounted(cmd)'
      <3>1. d # c
        BY <2>2
      <3>. QED BY <2>2, <3>1 DEF Accounted, At
    <2>. QED BY <2>1, <2>2 DEF Accounted
  <1>5. Accounted(new)'
    BY DEF Accounted, At, Same
  <1>6. Succeeded' = Succeeded /\ ToSet(chosen') = ToSet(chosen)
    BY DEF Succeeded
  <1>7. \A p \in DOMAIN chosen : chosen[p].id # new.id
    BY <1>1 DEF ToSet
  <1>8. \A cmd \in Held' \cup ToSet(chosen') : Proposed(cmd)'
    BY <1>2, <1>3, <1>6
  <1>9. {"ok", "error"} \subseteq Remembered =>
            \A cmd \in Held' \cup ToSet(chosen') : Accounted(cmd)'
    BY <1>4, <1>5, <1>6 DEF CommandsSound
  <1>10. \A k, m \in Held' : k.id = m.id => k = m
    BY <1>1 DEF CommandsSound
  <1>11. \A k \in Held', p \in DOMAIN chosen' : chosen'[p].id # k.id
    BY <1>7 DEF CommandsSound
  <1>. QED BY <1>6, <1>8, <1>9, <1>10, <1>11 DEF CommandsSound

LEMMA ProposesKeeps ==
    ASSUME GatewayInv, NEW c \in Client, Proposes(c)
    PROVE  GatewayInv'
  <1>. DEFINE new == Command(request[c])
  <1>1. /\ request' = [request EXCEPT ![c].pc = "wait"] /\ Live(c) /\ ~At(c, "wait")
        /\ held' = [held EXCEPT ![request[c].node] = @ \cup {new}]
        /\ UNCHANGED <<arrivals, answered, chosen, applied, leads, elections>>
    BY DEF Proposes
  <1>2. GatewayType /\ IdsSound /\ CommandsSound /\ OrderSound /\ LeadersSound /\ ReadsSound
    BY DEF GatewayInv
  <1>3. /\ request' \in [Client -> Ticket \cup {Idle}] /\ \A d \in Client : Same(d)
        /\ request'[c].pc = "wait" /\ request'[c].method = request[c].method
        /\ \A d \in Client \ {c} : request'[d] = request[d]
    <2>1. request' = [request EXCEPT ![c] = Moved(c, "wait")]
      BY <1>1 DEF Moved
    <2>. QED BY <1>1, <1>2, <2>1, GoingOn DEF PC
  <1>4. Grew /\ elections \in Nat /\ elections' = elections
    BY <1>1, <1>2 DEF Grew, GatewayType
  <1>5. new \in Entry /\ new.id = request[c].id
    BY <1>1, <1>2 DEF GatewayType, Live, Ticket, Command, Entry
  <1>. HIDE DEF new
  <1>6. request[c].node \in Node /\ held \in [Node -> SUBSET Entry]
    BY <1>1, <1>2 DEF GatewayType, Live, Ticket
  <1>7. held' \in [Node -> SUBSET Entry] /\ Held' \subseteq Held \cup {new}
    BY <1>1, <1>5, <1>6 DEF Held
  <1>8. GatewayType'
    BY <1>1, <1>2, <1>3, <1>7 DEF GatewayType
  <1>9. IdsSound'
    BY <1>1, <1>2, <1>3, <1>4, IdsStay
  <1>10. CommandsSound'
    BY <1>1, <1>2, <1>3, <1>5, <1>7, ProposesCommands
  <1>11. OrderSound'
    BY <1>1, <1>2, <1>3, OrderStays
  <1>12. LeadersSound'
    BY <1>1, <1>2, <1>4, LeadersStay DEF GatewayType
  <1>13. ReadsSound'
    <2>1. applied' \in [Node -> Nat] /\ \A n \in Node : applied[n] <= applied'[n]
      BY <1>1, <1>2 DEF GatewayType
    <2>. QED BY <1>1, <1>2, <1>3, <1>4, <2>1, GetsStay
  <1>. QED BY <1>8, <1>9, <1>10, <1>11, <1>12, <1>13 DEF GatewayInv

-----------------------------------------------------------------------------
(* The consensus.                                                            *)

\* Steps that touch neither the handlers nor the log.
LEMMA ConsensusKeeps ==
    ASSUME GatewayInv,
           UNCHANGED <<chosen, request, answered, arrivals>>,
           held' \in [Node -> SUBSET Entry], Held' \subseteq Held,
           applied' \in [Node -> Nat], \A n \in Node : applied'[n] <= Len(chosen),
           leads' \subseteq Node, elections' \in Nat, elections <= elections',
           \A n \in Node : applied[n] <= applied'[n],
           elections' = elections => leads' \subseteq leads
    PROVE  GatewayInv'
  <1>1. GatewayType /\ IdsSound /\ CommandsSound /\ OrderSound /\ LeadersSound /\ ReadsSound
    BY DEF GatewayInv
  <1>2. \A c \in Client : Same(c) /\ (request'[c].pc = "wait" <=> At(c, "wait"))
    BY DEF Same, Live, At
  <1>3. Grew
    BY <1>1 DEF Grew, GatewayType
  <1>4. GatewayType'
    BY <1>1 DEF GatewayType
  <1>5. IdsSound'
    BY <1>1, <1>2, IdsStay
  <1>6. CommandsSound'
    BY <1>1, <1>2, CommandsStay
  <1>7. OrderSound'
    BY <1>1, <1>2, OrderStays
  <1>8. LeadersSound'
    BY <1>1, <1>3, LeadersStay DEF GatewayType
  <1>9. ReadsSound'
    BY <1>1, <1>3, GetsStay
  <1>. QED BY <1>4, <1>5, <1>6, <1>7, <1>8, <1>9 DEF GatewayInv

LEMMA ReplicateKeeps ==
    ASSUME GatewayInv, NEW cmd \in Held, NEW n \in Node, Replicate(n, cmd)
    PROVE  GatewayInv'
  <1>1. GatewayType /\ UNCHANGED <<chosen, applied, leads, request, arrivals, answered, elections>>
    BY DEF GatewayInv, Replicate
  <1>2. PICK log \in {held[n] \cup {cmd}, held[n] \ {cmd}} : held' = [held EXCEPT ![n] = log]
    BY DEF Replicate
  <1>3. held \in [Node -> SUBSET Entry] /\ cmd \in Entry /\ log \subseteq Held
    BY <1>1 DEF GatewayType, Held
  <1>4. held' \in [Node -> SUBSET Entry] /\ Held' \subseteq Held
    BY <1>2, <1>3 DEF Held
  <1>5. /\ applied' \in [Node -> Nat] /\ \A m \in Node : applied'[m] <= Len(chosen)
        /\ leads' \subseteq Node /\ elections' \in Nat /\ elections <= elections'
        /\ leads' \subseteq leads /\ \A m \in Node : applied[m] <= applied'[m]
    BY <1>1 DEF GatewayType
  <1>. QED BY <1>1, <1>4, <1>5, ConsensusKeeps

LEMMA ApplyNextKeeps ==
    ASSUME GatewayInv, NEW n \in Node, ApplyNext(n)
    PROVE  GatewayInv'
  <1>1. /\ GatewayType /\ applied[n] < Len(chosen) /\ applied' = [applied EXCEPT ![n] = @ + 1]
        /\ UNCHANGED <<chosen, held, leads, request, arrivals, answered, elections>>
    BY DEF GatewayInv, ApplyNext
  <1>2. Len(chosen) \in Nat /\ applied \in [Node -> Nat]
    BY <1>1 DEF GatewayType
  <1>3. /\ applied' \in [Node -> Nat] /\ \A m \in Node : applied'[m] <= Len(chosen)
        /\ leads' \subseteq leads /\ \A m \in Node : applied[m] <= applied'[m]
    BY <1>1, <1>2 DEF GatewayType
  <1>4. /\ leads' \subseteq Node /\ elections' \in Nat /\ elections <= elections'
        /\ held' \in [Node -> SUBSET Entry] /\ Held' \subseteq Held
    BY <1>1, HeldStays DEF GatewayType
  <1>. QED BY <1>1, <1>3, <1>4, ConsensusKeeps

LEMMA RolesKeep ==
    ASSUME GatewayInv, NEW n \in Node, BecomeLeader(n) \/ StepDown(n)
    PROVE  GatewayInv'
  <1>1. /\ GatewayType
        /\ UNCHANGED <<chosen, held, applied, request, arrivals, answered>>
    BY DEF GatewayInv, BecomeLeader, StepDown
  <1>2. /\ applied' \in [Node -> Nat] /\ \A m \in Node : applied'[m] <= Len(chosen)
        /\ held' \in [Node -> SUBSET Entry] /\ Held' \subseteq Held
        /\ \A m \in Node : applied[m] <= applied'[m]
    BY <1>1, HeldStays DEF GatewayType
  <1>3. CASE BecomeLeader(n)
    <2>1. leads' \subseteq Node /\ elections' \in Nat /\ elections <= elections' /\ elections' # elections
      BY <1>1, <1>3 DEF BecomeLeader, GatewayType
    <2>. QED BY <1>1, <1>2, <2>1, ConsensusKeeps
  <1>4. CASE StepDown(n)
    <2>1. /\ leads' \subseteq Node /\ elections' \in Nat /\ elections <= elections'
          /\ leads' \subseteq leads /\ \A m \in Node : applied[m] <= applied'[m]
      BY <1>1, <1>4 DEF StepDown, GatewayType
    <2>. QED BY <1>1, <1>2, <2>1, ConsensusKeeps
  <1>. QED BY <1>3, <1>4

LEMMA ChooseCommands ==
    ASSUME GatewayType, CommandsSound, NEW cmd \in Held, Grew,
           Len(chosen') = Len(chosen) + 1, chosen'[Len(chosen) + 1] = cmd,
           Held' \subseteq Held \ {cmd},
           UNCHANGED <<request, answered, arrivals>>
    PROVE  CommandsSound'
  <1>0. Len(chosen) \in Nat /\ DOMAIN chosen = 1..Len(chosen)
        /\ DOMAIN chosen' = 1..(Len(chosen) + 1)
    BY DEF Grew
  <1>. DEFINE new == Len(chosen) + 1
  <1>1. \A p \in DOMAIN chosen' : \/ p \in DOMAIN chosen /\ chosen'[p] = chosen[p]
                                  \/ p = new /\ chosen'[p] = cmd
    BY <1>0 DEF Grew
  <1>2. Held' \cup ToSet(chosen') \subseteq Held \cup ToSet(chosen)
    BY <1>1 DEF ToSet
  <1>3. \A k : (Proposed(k)' <=> Proposed(k)) /\ (Accounted(k)' <=> Accounted(k))
    BY DEF Proposed, Accounted, Live, At
  <1>4. \A k, m \in Held' : k.id = m.id => k = m
    BY DEF CommandsSound
  <1>5. \A k \in Held', p \in DOMAIN chosen' : chosen'[p].id # k.id
    BY <1>1 DEF CommandsSound
  <1>6. \A p, q \in DOMAIN chosen' : chosen'[p].id = chosen'[q].id => p = q
    BY <1>1 DEF CommandsSound
  <1>7. \A a \in Succeeded' : \E p \in DOMAIN chosen' : chosen'[p].id = a.id
    BY <1>0 DEF CommandsSound, Succeeded, Grew
  <1>. QED BY <1>2, <1>3, <1>4, <1>5, <1>6, <1>7 DEF CommandsSound

LEMMA ChooseKeeps ==
    ASSUME GatewayInv, NEW cmd \in Held, Choose(cmd)
    PROVE  GatewayInv'
  <1>1. /\ GatewayType /\ IdsSound /\ CommandsSound /\ OrderSound /\ LeadersSound
        /\ ReadsSound
        /\ chosen' = Append(chosen, cmd) /\ held' = [n \in Node |-> held[n] \ {cmd}]
        /\ UNCHANGED <<applied, leads, request, arrivals, answered, elections>>
    BY DEF GatewayInv, Choose
  <1>2. cmd \in Entry /\ held \in [Node -> SUBSET Entry] /\ chosen \in Seq(Entry)
    BY <1>1 DEF GatewayType, Held
  <1>3. held' \in [Node -> SUBSET Entry] /\ Held' \subseteq Held \ {cmd}
    BY <1>1, <1>2 DEF Held
  <1>4. /\ chosen' \in Seq(Entry) /\ Len(chosen) \in Nat /\ Len(chosen') = Len(chosen) + 1
        /\ chosen'[Len(chosen) + 1] = cmd
        /\ \A p \in 1..Len(chosen) : chosen'[p] = chosen[p]
    BY <1>1, <1>2
  <1>5. Grew
    BY <1>2, <1>4 DEF Grew
  <1>6. \A c \in Client : Same(c)
    BY <1>1 DEF Same, Live
  <1>7. GatewayType'
    <2>1. \A n \in Node : applied'[n] <= Len(chosen')
      BY <1>1, <1>4 DEF GatewayType
    <2>. QED BY <1>1, <1>3, <1>4, <2>1 DEF GatewayType
  <1>8. elections \in Nat /\ elections' = elections
    BY <1>1 DEF GatewayType
  <1>9. IdsSound'
    BY <1>1, <1>6, <1>8, IdsStay
  <1>10. CommandsSound'
    BY <1>1, <1>3, <1>4, <1>5, ChooseCommands
  <1>11. Succeeded' = Succeeded
    BY <1>1 DEF Succeeded
  <1>12. ASSUME NEW a \in Succeeded, NEW p \in Places(a.id)' PROVE p \in Places(a.id)
    <2>1. PICK p0 \in DOMAIN chosen : chosen[p0].id = a.id
      BY <1>1 DEF CommandsSound
    <2>2. p0 \in DOMAIN chosen' /\ chosen'[p0].id = a.id
      BY <1>4, <2>1, <1>2
    <2>3. p0 = p
      BY <1>10, <2>2 DEF CommandsSound, Places
    <2>. QED BY <2>1, <2>3 DEF Places
  <1>13. OrderSound'
    <2>1. ASSUME NEW a \in Succeeded, NEW y, Earlier(a.id, y) PROVE Earlier(a.id, y)'
      <3>. SUFFICES ASSUME NEW p \in Places(a.id)', NEW q \in Places(y)' PROVE p < q
        BY DEF Earlier
      <3>1. p \in Places(a.id) /\ p \in 1..Len(chosen)
        BY <1>2, <1>12 DEF Places
      <3>2. q \in 1..(Len(chosen) + 1) /\ chosen'[q].id = y
        BY <1>4 DEF Places
      <3>3. CASE q \in 1..Len(chosen)
        <4>1. q \in Places(y)
          BY <1>2, <1>4, <3>2, <3>3 DEF Places
        <4>. QED BY <3>1, <4>1, <2>1 DEF Earlier
      <3>. QED BY <1>4, <3>1, <3>2, <3>3
    <2>2. (\A a \in Succeeded : \A c \in Client :
             Live(c) /\ a.id \in request[c].after => Earlier(a.id, request[c].id))'
      <3>. SUFFICES ASSUME NEW a \in Succeeded, NEW c \in Client, Live(c), a.id \in request[c].after
                    PROVE  \A p \in Places(a.id)', q \in DOMAIN chosen' :
                               chosen'[q].id = request[c].id => p < q
        BY <1>1, <1>11 DEF Live, Earlier, Places
      <3>1. PICK y : y = request[c].id
        OBVIOUS
      <3>2. Earlier(a.id, y)
        BY <1>1, <3>1 DEF OrderSound
      <3>3. Earlier(a.id, y)'
        BY <2>1, <3>2
      <3>. QED BY <3>1, <3>3 DEF Earlier, Places
    <2>3. WritesInOrder'
      BY <1>1, <1>11, <1>12 DEF OrderSound, WritesInOrder
    <2>. QED BY <1>11, <2>2, <2>3 DEF OrderSound, Live, Earlier, Places
  <1>14. LeadersSound'
    <2>1. applied \in [Node -> Nat] /\ \A n \in leads : n \in Node /\ applied[n] <= applied[n]
      BY <1>1 DEF GatewayType
    <2>. QED BY <1>1, <1>5, <1>8, <2>1, LeadersStay
  <1>15. ReadsSound'
    <2>1. applied \in [Node -> Nat] /\ \A n \in Node : applied[n] <= applied[n]
      BY <1>1 DEF GatewayType
    <2>. QED BY <1>1, <1>5, <2>1, GetsStay
  <1>. QED BY <1>7, <1>9, <1>10, <1>13, <1>14, <1>15 DEF GatewayInv

-----------------------------------------------------------------------------
(* Requests and their answers.                                               *)

LEMMA ArriveKeeps ==
    ASSUME GatewayInv, NEW c \in Client, NEW n \in Node, NEW method \in Method, NEW k \in Key,
           Arrive(c, n, method, k)
    PROVE  GatewayInv'
  <1>. DEFINE new == [pc |-> "route", node |-> n, method |-> method, key |-> k,
                      id |-> arrivals + 1, after |-> AnsweredIds, era |-> elections]
  <1>1. /\ request[c] = Idle /\ arrivals' = arrivals + 1
        /\ request' = [request EXCEPT ![c] = new]
        /\ UNCHANGED <<answered, chosen, held, applied, leads, elections>>
    BY DEF Arrive, consensus, AnsweredIds
  <1>2. GatewayType /\ IdsSound /\ CommandsSound /\ OrderSound /\ LeadersSound
        /\ ReadsSound
    BY DEF GatewayInv
  <1>3. arrivals \in Nat /\ elections \in Nat /\ request \in [Client -> Ticket \cup {Idle}]
    BY <1>2 DEF GatewayType
  <1>4. AnsweredIds \subseteq 1..arrivals /\ AnsweredIds' = AnsweredIds
    BY <1>1, <1>2 DEF AnsweredIds, IdsSound
  <1>5. new \in Ticket
    BY <1>3, <1>4 DEF Ticket, PC
  <1>6. /\ new.id = arrivals + 1 /\ new.after = AnsweredIds /\ new.era = elections
        /\ new.pc = "route" /\ new # Idle
    BY DEF Idle
  <1>. HIDE DEF new
  <1>7. request'[c] = new /\ \A d \in Client \ {c} : request'[d] = request[d]
    BY <1>1, <1>3
  <1>8. GatewayType'
    <2>1. request' \in [Client -> Ticket \cup {Idle}]
      BY <1>1, <1>3, <1>5
    <2>2. \A d \in Client : request'[d].pc \in {"limits", "full"} => request'[d].method \in Writes
      BY <1>2, <1>6, <1>7 DEF GatewayType
    <2>. QED BY <1>1, <1>2, <2>1, <2>2 DEF GatewayType
  <1>9. IdsSound'
    <2>1. ASSUME NEW d \in Client, Live(d)'
          PROVE  /\ request'[d].id \in 1..arrivals'
                 /\ request'[d].after \subseteq AnsweredIds'
                 /\ request'[d].era <= elections'
                 /\ \A e \in Client : Live(e)' /\ request'[e].id = request'[d].id => e = d
                 /\ \A a \in answered : request'[d].id # a.id
      BY <1>1, <1>2, <1>3, <1>4, <1>6, <1>7, <2>1 DEF IdsSound, Live
    <2>2. \A a \in answered : a.id \in 1..arrivals'
      BY <1>1, <1>2, <1>3 DEF IdsSound
    <2>3. \A b \in Kept' : b.after \subseteq AnsweredIds'
      BY <1>1, <1>2, <1>4 DEF IdsSound, Kept
    <2>. QED BY <1>1, <2>1, <2>2, <2>3 DEF IdsSound
  <1>10. \A cmd \in Held \cup ToSet(chosen) : cmd.id \in 1..arrivals
    BY <1>2 DEF CommandsSound, Proposed
  <1>11. CommandsSound'
    <2>1. \A cmd \in Held \cup ToSet(chosen) : Proposed(cmd)'
      <3>. SUFFICES ASSUME NEW cmd \in Held \cup ToSet(chosen) PROVE Proposed(cmd)'
        OBVIOUS
      <3>1. Proposed(cmd)
        BY <1>2 DEF CommandsSound
      <3>. QED BY <1>1, <1>3, <1>6, <1>7, <3>1 DEF Proposed, Live, At
    <2>2. \A cmd : Accounted(cmd) => Accounted(cmd)'
      <3>. SUFFICES ASSUME NEW cmd, Accounted(cmd) PROVE Accounted(cmd)'
        OBVIOUS
      <3>1. CASE \E a \in answered : a.id = cmd.id /\ a.status \in {"ok", "error"}
        BY <1>1, <3>1 DEF Accounted
      <3>2. ASSUME NEW d \in Client, At(d, "wait"), request[d].id = cmd.id
            PROVE  Accounted(cmd)'
        <4>1. d # c
          BY <1>1, <3>2 DEF At, Idle
        <4>. QED BY <1>7, <3>2, <4>1 DEF Accounted, At
      <3>. QED BY <3>1, <3>2 DEF Accounted
    <2>3. Held' = Held /\ Succeeded' = Succeeded /\ chosen' = chosen
      BY <1>1 DEF Held, Succeeded
    <2>. QED BY <1>2, <2>1, <2>2, <2>3 DEF CommandsSound
  <1>12. OrderSound'
    <2>1. Succeeded' = Succeeded /\ \A id : Places(id)' = Places(id)
      BY <1>1 DEF Succeeded, Places
    <2>2. WritesInOrder'
      BY <1>2, <2>1 DEF OrderSound, WritesInOrder
    <2>3. \A p \in DOMAIN chosen : chosen[p].id # arrivals + 1
      BY <1>3, <1>10 DEF ToSet
    <2>4. (\A a \in Succeeded : \A d \in Client :
             Live(d) /\ a.id \in request[d].after => Earlier(a.id, request[d].id))'
      <3>. SUFFICES ASSUME NEW a \in Succeeded, NEW d \in Client, Live(d)', a.id \in request'[d].after
                    PROVE  \A p \in Places(a.id), q \in DOMAIN chosen :
                               chosen[q].id = request'[d].id => p < q
        BY <1>1, <2>1 DEF Live, Earlier, Places
      <3>1. CASE d = c
        BY <1>6, <1>7, <2>3, <3>1
      <3>2. CASE d # c
        <4>1. Earlier(a.id, request[d].id)
          BY <1>2, <1>7, <3>2 DEF OrderSound, Live
        <4>. QED BY <1>7, <3>2, <4>1 DEF Earlier, Places
      <3>. QED BY <3>1, <3>2
    <2>. QED BY <2>2, <2>4 DEF OrderSound
  <1>13. LeadersSound'
    <2>1. /\ applied \in [Node -> Nat] /\ Grew
          /\ \A m \in leads : m \in Node /\ applied[m] <= applied[m]
      BY <1>1, <1>2 DEF GatewayType, Grew
    <2>. QED BY <1>1, <1>2, <1>3, <2>1, LeadersStay
  <1>14. ReadsSound'
    <2>1. /\ applied \in [Node -> Nat] /\ Grew
          /\ \A m \in Node : applied[m] <= applied[m]
      BY <1>1, <1>2 DEF GatewayType, Grew
    <2>2. \A d \in Client : request'[d].pc = "get" => request'[d] = request[d]
      BY <1>6, <1>7
    <2>. QED BY <1>1, <1>2, <2>1, <2>2, GetsStay
  <1>. QED BY <1>8, <1>9, <1>11, <1>12, <1>13, <1>14 DEF GatewayInv

\* a is the record of the answer to handler c.
Records(a, c) ==
    /\ a.id = request[c].id /\ (a.status = "ok" => At(c, "wait"))
    /\ a.status = "read" /\ a.method = "Get" => At(c, "get")
    /\ a.status \in {"ok", "read"} =>
          /\ a.after = request[c].after /\ a.node = request[c].node
          /\ a.method = request[c].method /\ a.key = request[c].key
          /\ a.from = request[c].era /\ a.to = elections

\* The handlers in C end, each with its answer, as they do one at a time when
\* they answer and all at once when their node crashes.
Closes(C) ==
    /\ C \subseteq Client /\ \A c \in C : Live(c)
    /\ request' = [d \in Client |-> IF d \in C THEN Idle ELSE request[d]]
    /\ UNCHANGED <<chosen, held, arrivals, elections>>
    /\ applied' \in [Node -> Nat] /\ \A n \in Node : applied'[n] <= applied[n]
    /\ leads' \subseteq leads /\ \A n \in leads' : applied'[n] = applied[n]
    /\ \A d \in Client \ C : Live(d) => applied'[request[d].node] = applied[request[d].node]
    /\ leader' \in {leader, None}
    /\ answered \subseteq answered'
    /\ \A a \in answered' \ answered :
          /\ \E c \in C : Records(a, c)
          /\ a.status = "ok" => \E p \in Places(a.id) : p <= applied[a.node]
          /\ a.status = "read" /\ a.method = "Get" => a.value = Get(a.node, a.key)
    /\ {"ok", "error"} \subseteq Remembered => \A c \in C : At(c, "wait") =>
          \E a \in answered' : a.id = request[c].id /\ a.status \in {"ok", "error"}

LEMMA ClosesHandlers ==
    ASSUME GatewayType, NEW C, Closes(C)
    PROVE  /\ \A c \in C : request'[c] = Idle
           /\ \A d \in Client \ C : request'[d] = request[d]
           /\ request' \in [Client -> Ticket \cup {Idle}]
  BY DEF Closes, GatewayType

LEMMA ClosesTypes ==
    ASSUME GatewayType, NEW C, Closes(C)
    PROVE  GatewayType'
  <1>1. /\ \A c \in C : request'[c] = Idle
        /\ \A d \in Client \ C : request'[d] = request[d]
        /\ request' \in [Client -> Ticket \cup {Idle}]
    BY ClosesHandlers
  <1>2. \A d \in Client : request'[d].pc \in {"limits", "full"} => request'[d].method \in Writes
    BY <1>1 DEF GatewayType, Idle
  <1>3. \A n \in Node : applied'[n] <= Len(chosen)
    BY DEF Closes, GatewayType
  <1>. QED BY <1>1, <1>2, <1>3 DEF Closes, GatewayType

LEMMA ClosesIds ==
    ASSUME GatewayType, IdsSound, NEW C, Closes(C)
    PROVE  IdsSound'
  <1>1. /\ \A c \in C : Live(c) /\ c \in Client /\ request'[c] = Idle
        /\ \A d \in Client \ C : request'[d] = request[d]
        /\ UNCHANGED <<arrivals, elections>> /\ answered \subseteq answered'
    BY ClosesHandlers DEF Closes
  <1>2. AnsweredIds \subseteq AnsweredIds'
    BY <1>1 DEF AnsweredIds
  <1>3. \A d \in Client : Live(d)' => d \notin C /\ Live(d) /\ request'[d] = request[d]
    BY <1>1 DEF Live
  <1>4. ASSUME NEW a \in answered'
        PROVE  /\ a.id \in 1..arrivals
               /\ \A d \in Client : Live(d)' => request'[d].id # a.id
    <2>1. CASE a \in answered
      BY <1>3, <2>1 DEF IdsSound
    <2>2. CASE a \notin answered
      <3>1. PICK c \in C : a.id = request[c].id
        BY <2>2 DEF Closes, Records
      <3>. QED BY <1>1, <1>3, <3>1 DEF IdsSound
    <2>. QED BY <2>1, <2>2
  <1>5. ASSUME NEW b \in Kept' PROVE b.after \subseteq AnsweredIds
    <2>1. CASE b \in answered
      BY <2>1 DEF IdsSound, Kept
    <2>2. CASE b \notin answered
      <3>1. PICK c \in C : b.after = request[c].after
        BY <2>2 DEF Closes, Records, Kept
      <3>. QED BY <1>1, <3>1 DEF IdsSound
    <2>. QED BY <2>1, <2>2
  <1>6. ASSUME NEW d \in Client, Live(d)'
        PROVE  /\ request'[d].id \in 1..arrivals
               /\ request'[d].after \subseteq AnsweredIds
               /\ request'[d].era <= elections
               /\ \A e \in Client : Live(e)' /\ request'[e].id = request'[d].id => e = d
    BY <1>3, <1>6 DEF IdsSound
  <1>. QED BY <1>1, <1>2, <1>4, <1>5, <1>6 DEF IdsSound

LEMMA ClosesCommands ==
    ASSUME GatewayType, CommandsSound, NEW C, Closes(C)
    PROVE  CommandsSound'
  <1>1. /\ \A c \in C : Live(c) /\ c \in Client /\ request'[c] = Idle
        /\ \A d \in Client \ C : request'[d] = request[d]
        /\ UNCHANGED <<chosen, held, arrivals>> /\ answered \subseteq answered'
    BY ClosesHandlers DEF Closes
  <1>2. \A cmd : Proposed(cmd) => Proposed(cmd)'
    BY <1>1 DEF Proposed, Live, At
  <1>3. ASSUME {"ok", "error"} \subseteq Remembered, NEW cmd, Accounted(cmd)
        PROVE  Accounted(cmd)'
    <2>1. CASE \E a \in answered : a.id = cmd.id /\ a.status \in {"ok", "error"}
      BY <1>1, <2>1 DEF Accounted
    <2>2. ASSUME NEW d \in Client, At(d, "wait"), request[d].id = cmd.id
          PROVE  Accounted(cmd)'
      <3>1. CASE d \in C
        BY <1>3, <2>2, <3>1 DEF Closes, Accounted
      <3>2. CASE d \notin C
        BY <1>1, <2>2, <3>2 DEF Accounted, At
      <3>. QED BY <3>1, <3>2
    <2>. QED BY <1>3, <2>1, <2>2 DEF Accounted
  <1>4. \A a \in Succeeded' : \E p \in DOMAIN chosen : chosen[p].id = a.id
    BY DEF Succeeded, CommandsSound, Closes, Places
  <1>5. Held' = Held
    BY <1>1, HeldStays
  <1>. QED BY <1>1, <1>2, <1>3, <1>4, <1>5 DEF CommandsSound

LEMMA ClosesOrder ==
    ASSUME GatewayType, IdsSound, OrderSound, NEW C, Closes(C)
    PROVE  OrderSound'
  <1>1. /\ \A c \in C : Live(c) /\ c \in Client /\ request'[c] = Idle
        /\ \A d \in Client \ C : request'[d] = request[d]
        /\ chosen' = chosen /\ answered \subseteq answered'
    BY ClosesHandlers DEF Closes
  <1>2. \A id : Places(id)' = Places(id)
    BY <1>1 DEF Places
  <1>3. ASSUME NEW a \in Succeeded', a.id \in AnsweredIds PROVE a \in Succeeded
    BY <1>1, <1>3 DEF Succeeded, AnsweredIds, IdsSound, Closes, Records
  <1>4. ASSUME NEW b \in Kept'
        PROVE  b \in Kept \/ \E c \in C : b.id = request[c].id /\ b.after = request[c].after
    BY DEF Kept, Closes, Records
  <1>5. ASSUME NEW a \in Succeeded', NEW b \in Succeeded', a.id \in b.after,
               NEW p \in Places(a.id), NEW q \in Places(b.id)
        PROVE  p < q
    <2>1. CASE b \in Kept
      <3>1. b.after \subseteq AnsweredIds /\ b \in Succeeded
        BY <2>1 DEF IdsSound, Kept, Succeeded
      <3>2. a \in Succeeded
        BY <1>3, <1>5, <3>1
      <3>. QED BY <1>5, <3>1, <3>2 DEF OrderSound, WritesInOrder
    <2>2. CASE b \notin Kept
      <3>0. b \in Kept'
        BY DEF Kept, Succeeded
      <3>1. PICK c \in C : b.id = request[c].id /\ b.after = request[c].after
        BY <1>4, <2>2, <3>0
      <3>2. Live(c) /\ c \in Client /\ a.id \in request[c].after
        BY <1>1, <1>5, <3>1
      <3>3. a \in Succeeded
        BY <1>3, <3>2 DEF IdsSound
      <3>4. Earlier(a.id, request[c].id)
        BY <3>2, <3>3 DEF OrderSound
      <3>. QED BY <3>1, <3>4 DEF Earlier
    <2>. QED BY <2>1, <2>2
  <1>6. WritesInOrder'
    BY <1>2, <1>5 DEF WritesInOrder
  <1>7. (\A a \in Succeeded : \A d \in Client :
           Live(d) /\ a.id \in request[d].after => Earlier(a.id, request[d].id))'
    <2>. SUFFICES ASSUME NEW a \in Succeeded', NEW d \in Client, Live(d)', a.id \in request'[d].after
                  PROVE  \A p \in Places(a.id), q \in DOMAIN chosen :
                             chosen[q].id = request'[d].id => p < q
      BY <1>1, <1>2 DEF Live, Earlier, Places
    <2>1. Live(d) /\ request'[d] = request[d]
      BY <1>1 DEF Live
    <2>2. a \in Succeeded
      BY <1>3, <2>1 DEF IdsSound
    <2>3. Earlier(a.id, request[d].id)
      BY <2>1, <2>2 DEF OrderSound
    <2>. QED BY <2>1, <2>3 DEF Earlier, Places
  <1>. QED BY <1>6, <1>7 DEF OrderSound

LEMMA ClosesLeaders ==
    ASSUME GatewayType, IdsSound, LeadersSound, ReadsSound, NEW C, Closes(C)
    PROVE  LeadersSound'
  <1>1. /\ C \subseteq Client /\ \A c \in C : Live(c)
        /\ chosen' = chosen /\ elections' = elections /\ answered \subseteq answered'
    BY DEF Closes
  <1>2. \A id : Places(id)' = Places(id)
    BY <1>1 DEF Places
  <1>3. ASSUME NEW a \in Succeeded', a.id \in AnsweredIds PROVE a \in Succeeded
    BY <1>1, <1>3 DEF Succeeded, AnsweredIds, IdsSound, Closes, Records
  <1>4. ASSUME NEW a \in Succeeded'
        PROVE  /\ a.from \in 0..elections
               /\ a.from = elections /\ a.node \in leads
                  => \E p \in Places(a.id) : p <= applied[a.node]
    <2>1. CASE a \in Succeeded
      BY <2>1 DEF LeadersSound
    <2>2. CASE a \notin Succeeded
      <3>1. a \in answered' \ answered /\ a.status = "ok"
        BY <2>2 DEF Succeeded
      <3>2. PICK c \in C : a.from = request[c].era
        BY <3>1 DEF Closes, Records
      <3>3. request[c].era \in Nat /\ request[c].era <= elections /\ elections \in Nat
        BY <1>1 DEF GatewayType, IdsSound, Live, Ticket
      <3>. QED BY <3>1, <3>2, <3>3 DEF Closes
    <2>. QED BY <2>1, <2>2
  <1>5. ASSUME NEW a \in Succeeded', a.from = elections, a.node \in leads'
        PROVE  \E p \in Places(a.id) : p <= applied'[a.node]
    BY <1>4, <1>5 DEF Closes
  <1>6. ASSUME NEW a \in Succeeded', NEW b \in answered', b.status = "read", b.method = "Get",
               b.key = a.key, a.id \in b.after, a.node = b.node, a.from = b.from
        PROVE  \E p \in Places(a.id) : \E q \in p..Len(chosen) :
                  b.value = Lookup(StoreAfter(q), b.key)
    <2>1. CASE b \in answered
      <3>1. a.id \in AnsweredIds
        BY <1>6, <2>1 DEF IdsSound, Kept
      <3>. QED BY <1>3, <1>6, <2>1, <3>1 DEF LeadersSound, LeaderReadsItsWrites
    <2>2. CASE b \notin answered
      <3>1. PICK c \in C : Records(b, c)
        BY <2>2 DEF Closes
      <3>2. /\ b.after = request[c].after /\ b.node = request[c].node /\ b.from = request[c].era
            /\ At(c, "get") /\ c \in Client
        BY <1>1, <1>6, <3>1 DEF Records
      <3>3. b.node \in Node /\ b.value = Get(b.node, b.key)
        BY <1>1, <1>6, <2>2, <3>2 DEF Closes, GatewayType, Live, Ticket
      <3>4. a \in Succeeded
        BY <1>1, <1>3, <1>6, <3>2 DEF IdsSound
      <3>5. PICK p \in Places(a.id) : p <= applied[b.node]
        BY <1>6, <3>2, <3>4 DEF ReadsSound, AnsweredBy
      <3>6. applied[b.node] \in p..Len(chosen)
        BY <3>3, <3>5 DEF GatewayType, Places
      <3>7. b.value = Lookup(StoreAfter(applied[b.node]), b.key)
        BY <3>3 DEF Get, Data
      <3>. QED BY <3>6, <3>7
    <2>. QED BY <2>1, <2>2
  <1>7. \A q : StoreAfter(q)' = StoreAfter(q)
    BY <1>1 DEF StoreAfter, Stores
  <1>8. LeaderReadsItsWrites'
    BY <1>1, <1>2, <1>6, <1>7 DEF LeaderReadsItsWrites
  <1>. QED BY <1>1, <1>2, <1>4, <1>5, <1>8 DEF LeadersSound

LEMMA ClosesReads ==
    ASSUME GatewayType, IdsSound, ReadsSound, NEW C, Closes(C)
    PROVE  ReadsSound'
  <1>. SUFFICES ASSUME NEW a \in Succeeded', NEW d \in Client, request'[d].pc = "get",
                       AnsweredBy(a, request'[d], request'[d].era)
                PROVE  \E p \in Places(a.id)' : p <= applied'[a.node]
    BY DEF ReadsSound, At, AnsweredBy
  <1>1. d \notin C /\ request'[d] = request[d]
    BY ClosesHandlers DEF Idle
  <1>2. Live(d) /\ At(d, "get")
    BY <1>1 DEF Live, At, Idle
  <1>3. a.id \in AnsweredIds /\ a.node = request[d].node
    BY <1>1, <1>2 DEF IdsSound, AnsweredBy
  <1>4. a \in Succeeded
    BY <1>3 DEF Succeeded, AnsweredIds, IdsSound, Closes, Records
  <1>5. \E p \in Places(a.id) : p <= applied[a.node]
    BY <1>1, <1>2, <1>4 DEF ReadsSound
  <1>6. applied'[a.node] = applied[a.node] /\ chosen' = chosen
    BY <1>1, <1>2, <1>3 DEF Closes
  <1>. QED BY <1>5, <1>6 DEF Places

LEMMA ClosesKeeps ==
    ASSUME GatewayInv, NEW C, Closes(C)
    PROVE  GatewayInv'
  BY ClosesTypes, ClosesIds, ClosesCommands, ClosesOrder, ClosesLeaders, ClosesReads
     DEF GatewayInv

LEMMA RecordFacts ==
    ASSUME NEW c \in Client, NEW status, NEW a \in Record(request[c], status),
           status = "ok" => At(c, "wait"),
           status = "read" /\ request[c].method = "Get" => At(c, "get")
    PROVE  /\ a.status = status /\ Records(a, c)
           /\ status \in {"ok", "read"} => a.node = request[c].node
           /\ status = "read" => /\ a.method = request[c].method
                                 /\ a.value = Get(a.node, a.key)
  BY GatewayAssumption DEF Record, Records

LEMMA RecordThere ==
    ASSUME NEW c \in Client, NEW status \in Remembered
    PROVE  \E a \in Record(request[c], status) : a.id = request[c].id /\ a.status = status
  <1>1. CASE status = "error"
    BY <1>1 DEF Record
  <1>2. CASE status # "error"
    BY <1>2 DEF Record
  <1>. QED BY <1>1, <1>2

\* A success is a command that the node has applied.
LEMMA SuccessApplied ==
    ASSUME GatewayType, NEW c \in Client, Live(c),
           Contains(SubSeq(chosen, 1, applied[request[c].node]), Command(request[c]))
    PROVE  \E p \in Places(request[c].id) : p <= applied[request[c].node]
  <1>. DEFINE q == applied[request[c].node]
              s == SubSeq(chosen, 1, q)
  <1>1. chosen \in Seq(Entry) /\ q \in Nat /\ q <= Len(chosen)
    BY DEF GatewayType, Live, Ticket
  <1>. HIDE DEF q
  <1>2. Len(s) = q /\ \A p \in 1..q : s[p] = chosen[p]
    BY <1>1, SubSeqProperties
  <1>3. PICK p \in 1..Len(s) : s[p] = Command(request[c])
    BY DEF Contains, q
  <1>4. p \in 1..Len(chosen) /\ chosen[p].id = request[c].id /\ p <= q
    BY <1>1, <1>2, <1>3 DEF Command
  <1>5. p \in Places(request[c].id)
    BY <1>1, <1>4 DEF Places
  <1>. QED BY <1>4, <1>5 DEF q

LEMMA AnswersCloses ==
    ASSUME GatewayInv, NEW c \in Client, NEW status, Answers(c, status)
    PROVE  \E C : Closes(C)
  <1>1. /\ GatewayType /\ Live(c)
        /\ request' = [request EXCEPT ![c] = Idle]
        /\ answered' = answered \cup Record(request[c], status)
        /\ UNCHANGED <<chosen, held, applied, leads, leader, arrivals, elections>>
    BY DEF GatewayInv, Answers, Answer, consensus
  <1>2. request' = [d \in Client |-> IF d \in {c} THEN Idle ELSE request[d]]
    BY <1>1 DEF GatewayType
  <1>3. /\ applied' \in [Node -> Nat] /\ \A n \in Node : applied'[n] <= applied[n]
        /\ leads' \subseteq leads /\ \A n \in leads' : applied'[n] = applied[n]
        /\ \A n : applied'[n] = applied[n]
    BY <1>1 DEF GatewayType
  <1>4. ASSUME NEW a \in answered' \ answered
        PROVE  /\ Records(a, c)
               /\ a.status = "ok" => \E p \in Places(a.id) : p <= applied[a.node]
               /\ a.status = "read" /\ a.method = "Get" => a.value = Get(a.node, a.key)
    <2>1. a \in Record(request[c], status)
      BY <1>1
    <2>2. /\ a.status = status /\ Records(a, c)
          /\ status \in {"ok", "read"} => a.node = request[c].node
          /\ status = "read" => /\ a.method = request[c].method
                                /\ a.value = Get(a.node, a.key)
      BY <2>1, RecordFacts DEF Answers
    <2>3. ASSUME a.status = "ok" PROVE \E p \in Places(a.id) : p <= applied[a.node]
      <3>1. \E p \in Places(request[c].id) : p <= applied[request[c].node]
        BY <1>1, <2>2, <2>3, SuccessApplied DEF Answers
      <3>. QED BY <2>2, <2>3, <3>1 DEF Records
    <2>. QED BY <2>2, <2>3
  <1>5. ASSUME {"ok", "error"} \subseteq Remembered, At(c, "wait")
        PROVE  \E a \in answered' : a.id = request[c].id /\ a.status \in {"ok", "error"}
    <2>1. status \in {"ok", "error"} /\ status \in Remembered
      BY <1>5 DEF Answers
    <2>. QED BY <1>1, <2>1, RecordThere
  <1>6. Closes({c})
    BY <1>1, <1>2, <1>3, <1>4, <1>5 DEF Closes
  <1>. QED BY <1>6

LEMMA CrashCloses ==
    ASSUME GatewayInv, NEW n \in Node, Crash(n)
    PROVE  \E C : Closes(C)
  <1>. DEFINE C == {c \in Client : request[c] # Idle /\ request[c].node = n}
  <1>1. /\ GatewayType
        /\ applied' = [applied EXCEPT ![n] = 0] /\ leads' = leads \ {n}
        /\ request' = [c \in Client |-> IF c \in C THEN Idle ELSE request[c]]
        /\ answered' = answered \cup UNION {Record(request[c], "error") : c \in C}
        /\ leader' \in {leader, None}
        /\ UNCHANGED <<chosen, held, elections, arrivals>>
    BY DEF GatewayInv, Crash
  <1>2. /\ applied' \in [Node -> Nat] /\ \A m \in Node : applied'[m] <= applied[m]
        /\ leads' \subseteq leads /\ \A m \in leads' : applied'[m] = applied[m]
    BY <1>1 DEF GatewayType
  <1>3. /\ C \subseteq Client /\ \A c \in C : Live(c)
        /\ \A d \in Client \ C : Live(d) => applied'[request[d].node] = applied[request[d].node]
    <2>1. \A d \in Client : Live(d) => request[d].node \in Node
      BY <1>1 DEF GatewayType, Live, Ticket
    <2>. QED BY <1>1, <2>1 DEF Live, GatewayType
  <1>. HIDE DEF C
  <1>4. ASSUME NEW a \in answered' \ answered
        PROVE  a.status = "error" /\ \E c \in C : Records(a, c)
    <2>1. PICK c \in C : a \in Record(request[c], "error")
      BY <1>1
    <2>2. c \in Client /\ Live(c)
      BY <1>3
    <2>3. a.status = "error" /\ Records(a, c)
      <3>. DEFINE status == "error"
      <3>1. status # "ok" /\ status # "read"
        OBVIOUS
      <3>. QED BY <1>1, <2>1, <2>2, <3>1, RecordFacts
    <2>. QED BY <2>3
  <1>5. ASSUME {"ok", "error"} \subseteq Remembered, NEW c \in C
        PROVE  \E a \in answered' : a.id = request[c].id /\ a.status \in {"ok", "error"}
    <2>1. PICK a \in Record(request[c], "error") : a.id = request[c].id /\ a.status = "error"
      BY <1>3, <1>5, RecordThere
    <2>2. a \in answered'
      BY <1>1, <2>1
    <2>. QED BY <2>1, <2>2
  <1>6. Closes(C)
    BY <1>1, <1>2, <1>3, <1>4, <1>5 DEF Closes
  <1>. QED BY <1>6

-----------------------------------------------------------------------------
(* The theorems.                                                             *)

LEMMA InitGateway == Init => GatewayInv
  <1>. SUFFICES ASSUME Init PROVE GatewayInv
    OBVIOUS
  <1>1. GatewayType
    BY DEF Init, GatewayType, Idle
  <1>2. \A c \in Client : ~Live(c)
    BY DEF Init, Live
  <1>3. Succeeded = {} /\ Kept = {} /\ Held = {} /\ ToSet(chosen) = {} /\ DOMAIN chosen = {}
    BY DEF Init, Succeeded, Kept, Held, ToSet
  <1>4. IdsSound
    BY <1>2, <1>3 DEF Init, IdsSound
  <1>5. CommandsSound
    BY <1>3 DEF CommandsSound
  <1>6. OrderSound
    BY <1>3 DEF OrderSound, WritesInOrder
  <1>7. LeadersSound
    BY <1>3 DEF LeadersSound, LeaderReadsItsWrites
  <1>8. ReadsSound
    BY <1>3 DEF ReadsSound
  <1>. QED BY <1>1, <1>4, <1>5, <1>6, <1>7, <1>8 DEF GatewayInv

LEMMA StutterKeeps ==
    ASSUME GatewayInv, UNCHANGED vars
    PROVE  GatewayInv'
  <1>1. GatewayType /\ UNCHANGED <<chosen, request, answered, arrivals, held, applied, leads, elections>>
    BY DEF GatewayInv, vars, consensus
  <1>2. /\ applied' \in [Node -> Nat] /\ \A m \in Node : applied'[m] <= Len(chosen)
        /\ leads' \subseteq Node /\ elections' \in Nat /\ elections <= elections'
        /\ held' \in [Node -> SUBSET Entry] /\ Held' \subseteq Held
        /\ leads' \subseteq leads /\ \A m \in Node : applied[m] <= applied'[m]
    BY <1>1, HeldStays DEF GatewayType
  <1>. QED BY <1>1, <1>2, ConsensusKeeps

LEMMA NextGateway ==
    ASSUME GatewayInv, Next
    PROVE  GatewayInv'
  <1>1. ASSUME NEW c \in Client, NEW n \in Node, NEW method \in Method, NEW k \in Key,
               Arrive(c, n, method, k)
        PROVE  GatewayInv'
    BY <1>1, ArriveKeeps
  <1>2. ASSUME NEW c \in Client, Handles(c) PROVE GatewayInv'
    <2>1. (\E pc : Goes(c, pc)) \/ (\E status : Answers(c, status)) \/ Proposes(c)
      BY <1>2, HandlerCases DEF GatewayInv
    <2>. QED BY <2>1, GoesKeeps, AnswersCloses, ClosesKeeps, ProposesKeeps
  <1>3. ASSUME NEW cmd \in Held, Choose(cmd) \/ \E n \in Node : Replicate(n, cmd)
        PROVE  GatewayInv'
    BY <1>3, ChooseKeeps, ReplicateKeeps
  <1>4. ASSUME NEW n \in Node, ApplyNext(n) \/ BecomeLeader(n) \/ StepDown(n) \/ Crash(n)
        PROVE  GatewayInv'
    BY <1>4, ApplyNextKeeps, RolesKeep, CrashCloses, ClosesKeeps
  <1>. QED BY <1>1, <1>2, <1>3, <1>4 DEF Next, Handles

\* The state of the gateway is what its handlers suppose, however their steps
\* interleave with each other, with elections and with crashes: a request has
\* one handler, a command is proposed by one request and stands in the log
\* once, and the node that leads has applied the writes that it answered.
THEOREM GatewayInvariant == Spec => []GatewayInv
  <1>1. GatewayInv /\ [Next]_vars => GatewayInv'
    BY NextGateway, StutterKeeps
  <1>. QED BY InitGateway, <1>1, PTL DEF Spec

\* ProposeCommand's answer: a write that a client was told of as done stands in
\* the log exactly once, and every command in a log is that of a request that
\* waits, was done or got an error, never of one that was turned away.
THEOREM AnswersAreTruthful ==
    ASSUME {"ok", "error"} \subseteq Remembered
    PROVE  Spec => []AnswersTruthful
  <1>1. GatewayInv => AnswersTruthful
    <2>. SUFFICES ASSUME GatewayInv PROVE AnswersTruthful
      OBVIOUS
    <2>1. CommandsSound
      BY DEF GatewayInv
    <2>2. ASSUME NEW a \in Succeeded PROVE Cardinality(Places(a.id)) = 1
      <3>1. PICK p \in DOMAIN chosen : chosen[p].id = a.id
        BY <2>1 DEF CommandsSound
      <3>2. Places(a.id) = {p}
        BY <2>1, <3>1 DEF CommandsSound, Places
      <3>. QED BY <3>2, FS_Singleton
    <2>3. \A cmd \in Held \cup ToSet(chosen) : Accounted(cmd)
      BY <2>1 DEF CommandsSound
    <2>. QED BY <2>2, <2>3 DEF AnswersTruthful, Accounted
  <1>. QED BY <1>1, GatewayInvariant, PTL

\* README, "writes are fully replicated and safe": a write that was answered
\* before another arrived, at whatever node, stands before it in the log.
THEOREM WritesStayInOrder == Spec => []WritesInOrder
  <1>1. GatewayInv => WritesInOrder
    BY DEF GatewayInv, OrderSound
  <1>. QED BY <1>1, GatewayInvariant, PTL

\* Handler.Get, "reads are served from the leader": a node that led when it took
\* a write and led on until it checked its role for a later read answers with
\* that write's value or a later one, however often the leadership changes
\* between the check and the read.
THEOREM LeadersReadTheirWrites == Spec => []LeaderReadsItsWrites
  <1>1. GatewayInv => LeaderReadsItsWrites
    BY DEF GatewayInv, LeadersSound
  <1>. QED BY <1>1, GatewayInvariant, PTL

-----------------------------------------------------------------------------
(* The races.  What a handler has checked stays true of the commands that    *)
(* were settled before its request arrived.                                  *)

\* The check passed on a store that had every such write, and that is older than
\* the command of t.
Passed(kind, t, era) ==
    \E m \in 0..Len(chosen) :
        /\ Admits(kind, t.key, m)
        /\ \A a \in Succeeded : AnsweredBy(a, t, era) => \A p \in Places(a.id) : p <= m
        /\ \A q \in Places(t.id) : m < q

\* A handler that has got past redirectIfFollower runs on a node whose store has
\* every such write, whether or not it still leads.
SeenSound ==
    \A c \in Client, a \in Succeeded :
        Live(c) /\ Inside(c) /\ AnsweredBy(a, request[c], elections)
        => \A p \in Places(a.id) : p <= applied[request[c].node]

CheckSound ==
    \A c \in Client, kind \in Kinds : \A t \in {request[c]}, era \in {elections} :
        Live(c) /\ Guards(kind, t.method) /\ t.pc \in Beyond(kind) => Passed(kind, t, era)

DoneSound ==
    \A b \in Succeeded, kind \in Kinds : Guards(kind, b.method) => Passed(kind, b, b.to)

\* The command id was proposed on node n by a request of the present leadership,
\* which waits or succeeded.
Source(id, n) ==
    \/ \E c \in Client : /\ At(c, "wait") /\ request[c].id = id
                         /\ request[c].era = elections /\ request[c].node = n
    \/ \E a \in Succeeded : a.id = id /\ a.from = elections /\ a.node = n

ChosenIds == {chosen[p].id : p \in DOMAIN chosen}

HeldIds(n) == {cmd.id : cmd \in held[n]}

\* Of the commands of the present leadership only the leader's are chosen.
EraSound ==
    /\ leader \in Node \cup {None}
    /\ leader # None =>
          \A n \in Node, id \in HeldIds(leader) \cup ChosenIds : Source(id, n) => n = leader
    /\ \A n, m \in Node, i, j \in ChosenIds : Source(i, n) /\ Source(j, m) => n = m

\* A write that was answered before another arrived arrived no later than it.
AfterSound ==
    \A a \in Succeeded, c \in Client :
        Live(c) /\ a.id \in request[c].after => a.from <= request[c].era

\* Two writes of one leadership, one answered before the other arrived, were
\* taken by one node.
NodeSound ==
    /\ \A a \in Succeeded : a.node \in Node
    /\ \A a, b \in Succeeded : a.id \in b.after /\ a.from = b.to => a.node = b.node

\* A command says what its request asked for.
TextSound ==
    \A cmd \in Held \cup ToSet(chosen) :
        /\ \A c \in Client : At(c, "wait") /\ request[c].id = cmd.id => cmd = Command(request[c])
        /\ \A a \in Succeeded : a.id = cmd.id => cmd = Command(a)

RaceInv ==
    /\ SeenSound /\ CheckSound /\ DoneSound /\ EraSound
    /\ AfterSound /\ NodeSound /\ TextSound

-----------------------------------------------------------------------------
(* What every step does, as far as the races go.                             *)

\* Handler c has its request still, and went on only past checks that let it.
Carried(c) ==
    /\ Live(c) /\ Checks(c, request'[c].pc)
    /\ request'[c].id = request[c].id /\ request'[c].after = request[c].after
    /\ \/ request'[c].era = request[c].era
       \/ request'[c].pc = "get" /\ request'[c].era = elections
    /\ request'[c].node = request[c].node
    /\ request'[c].method = request[c].method /\ request'[c].key = request[c].key
    /\ applied[request[c].node] <= applied'[request[c].node]

\* Handler c has a request that has just arrived.
JustArrived(c) ==
    /\ request'[c].pc = "route"
    /\ request'[c].after = AnsweredIds /\ request'[c].era = elections

\* Handler c is there and has proposed nothing.
Before(c) == Live(c) /\ ~At(c, "wait")

\* Unless another leader is elected, the log of the leader grows by the commands
\* of its own handlers, and only its commands are chosen.
LeaderAlone ==
    /\ leader' \in {leader, None}
    /\ leader # None => \A cmd \in held'[leader] :
          \/ cmd \in held[leader]
          \/ \E c \in Client : Before(c) /\ cmd.id = request[c].id /\ request[c].node = leader
    /\ \A p \in DOMAIN chosen' \ DOMAIN chosen : leader # None /\ chosen'[p] \in held[leader]

Evolves ==
    /\ Grew /\ elections' \in Nat /\ elections <= elections'
    /\ leader' \in Node \cup {None}
    /\ \A c \in Client : Carried(c) \/ request'[c] = Idle \/ JustArrived(c)
    /\ \A a \in Succeeded' :
          \/ a \in Succeeded
          \/ chosen' = chosen /\ \E c \in Client : At(c, "wait") /\ Records(a, c)
    /\ \A cmd \in Held' \cup ToSet(chosen') :
          \/ cmd \in Held \cup ToSet(chosen)
          \/ \E c \in Client : Before(c) /\ cmd = Command(request[c])
    /\ elections' = elections => LeaderAlone

LEMMA AdmitsStays ==
    ASSUME Grew, NEW kind, NEW k, NEW m \in 0..Len(chosen), Admits(kind, k, m)
    PROVE  Admits(kind, k, m)'
  <1>1. StoreAfter(m)' = StoreAfter(m)
    BY StoreStays
  <1>. QED BY <1>1, Zenon DEF Admits

\* A success has its place, and no other.
LEMMA PlacesStay ==
    ASSUME GatewayInv, GatewayInv', Grew, NEW a \in Succeeded
    PROVE  Places(a.id)' = Places(a.id)
  <1>1. Places(a.id) \subseteq Places(a.id)'
    BY PlacesGrow
  <1>2. PICK p0 \in DOMAIN chosen : chosen[p0].id = a.id
    BY DEF GatewayInv, CommandsSound
  <1>3. p0 \in Places(a.id) /\ p0 \in Places(a.id)'
    BY <1>1, <1>2 DEF Places
  <1>4. \A p \in Places(a.id)' : p = p0
    <2>1. \A p, q \in DOMAIN chosen' : chosen'[p].id = chosen'[q].id => p = q
      BY DEF GatewayInv, CommandsSound
    <2>. QED BY <1>3, <2>1 DEF Places
  <1>. QED BY <1>1, <1>3, <1>4

LEMMA OnePlace ==
    ASSUME GatewayInv, NEW id, NEW p \in Places(id), NEW q \in Places(id)
    PROVE  p = q
  BY DEF GatewayInv, CommandsSound, Places

\* Of the requests that were answered, none becomes a success.
LEMMA OldSuccess ==
    ASSUME GatewayInv, Evolves, NEW a \in Succeeded', a.id \in AnsweredIds
    PROVE  a \in Succeeded
  <1>1. ASSUME NEW c \in Client, At(c, "wait"), Records(a, c) PROVE FALSE
    <2>1. Live(c) /\ a.id = request[c].id
      BY <1>1 DEF At, Live, Idle, Records
    <2>2. PICK b \in answered : b.id = a.id
      BY DEF AnsweredIds
    <2>. QED BY <2>1, <2>2 DEF GatewayInv, IdsSound
  <1>. QED BY <1>1 DEF Evolves

\* What has passed a check has passed it for good, also under another leader.
LEMMA PassedStays ==
    ASSUME GatewayInv, GatewayInv', Evolves,
           NEW kind, NEW t, NEW u, NEW e, NEW f,
           u.key = t.key, u.id = t.id, u.after = t.after, u.node = t.node,
           t.after \subseteq AnsweredIds,
           f = e \/ \A a \in Succeeded : a.from # f,
           Passed(kind, t, e)
    PROVE  Passed(kind, u, f)'
  <1>1. PICK m \in 0..Len(chosen) :
           /\ Admits(kind, t.key, m)
           /\ \A a \in Succeeded : AnsweredBy(a, t, e) => \A p \in Places(a.id) : p <= m
           /\ \A q \in Places(t.id) : m < q
    BY DEF Passed
  <1>2. Grew /\ Len(chosen) \in Nat /\ Len(chosen') \in Nat /\ m \in 0..Len(chosen')
    BY DEF Evolves, Grew
  <1>3. Admits(kind, u.key, m)'
    <2>1. PICK k : k = t.key
      OBVIOUS
    <2>2. Admits(kind, k, m)
      BY <1>1, <2>1
    <2>3. Admits(kind, k, m)'
      BY <1>2, <2>2, AdmitsStays
    <2>. QED BY <2>1, <2>3
  <1>4. ASSUME NEW a \in Succeeded', AnsweredBy(a, u, f), NEW p \in Places(a.id)'
        PROVE  p <= m
    <2>1. a.id \in t.after /\ a.node = t.node /\ a.from = f
      BY <1>4 DEF AnsweredBy
    <2>2. a \in Succeeded
      BY <2>1, OldSuccess
    <2>3. AnsweredBy(a, t, e)
      BY <2>1, <2>2 DEF AnsweredBy
    <2>4. p \in Places(a.id)
      BY <1>2, <1>4, <2>2, PlacesStay
    <2>. QED BY <1>1, <2>2, <2>3, <2>4
  <1>5. ASSUME NEW q \in Places(u.id)' PROVE m < q
    <2>1. q \in 1..Len(chosen') /\ chosen'[q].id = t.id
      BY <1>2 DEF Places, Grew
    <2>2. CASE q \in 1..Len(chosen)
      <3>1. chosen[q].id = t.id /\ q \in DOMAIN chosen
        BY <1>2, <2>1, <2>2 DEF Grew
      <3>. QED BY <1>1, <3>1 DEF Places
    <2>. QED BY <1>2, <2>1, <2>2
  <1>. QED BY <1>2, <1>3, <1>4, <1>5 DEF Passed, AnsweredBy

\* What a request came after was answered.
LEMMA AfterAnswered ==
    ASSUME GatewayInv
    PROVE  /\ \A c \in Client : Live(c) => request[c].after \subseteq AnsweredIds
           /\ \A b \in Succeeded : b.after \subseteq AnsweredIds
  BY DEF GatewayInv, IdsSound, Kept, Succeeded

LEMMA ErasKnown ==
    ASSUME GatewayInv, Evolves
    PROVE  /\ elections \in Nat /\ elections' \in Nat
           /\ \A a \in Succeeded : a.from \in Nat /\ a.from <= elections
           /\ elections' # elections => \A a \in Succeeded : a.from # elections'
  <1>1. elections \in Nat /\ elections' \in Nat /\ elections <= elections'
    BY DEF GatewayInv, GatewayType, Evolves
  <1>2. \A a \in Succeeded : a.from \in Nat /\ a.from <= elections
    BY <1>1 DEF GatewayInv, LeadersSound
  <1>3. elections' # elections => elections < elections'
    BY <1>1
  <1>. QED BY <1>1, <1>2, <1>3

LEMMA SeenStays ==
    ASSUME GatewayInv, GatewayInv', SeenSound, Evolves
    PROVE  SeenSound'
  <1>. SUFFICES ASSUME NEW c \in Client, NEW a \in Succeeded', Live(c)', Inside(c)',
                       AnsweredBy(a, request[c], elections)', NEW p \in Places(a.id)'
                PROVE  p <= applied'[request'[c].node]
    BY DEF SeenSound
  <1>1. Carried(c)
    BY DEF Evolves, JustArrived, Live, Inside
  <1>2. a.id \in request[c].after /\ a.node = request[c].node /\ a.from = elections'
    BY <1>1 DEF Carried, AnsweredBy
  <1>3. a \in Succeeded
    BY <1>1, <1>2, AfterAnswered, OldSuccess DEF Carried
  <1>4. elections' = elections
    BY <1>2, <1>3, ErasKnown
  <1>5. p \in Places(a.id)
    BY <1>3, PlacesStay DEF Evolves
  <1>6. Inside(c) \/ IsLeader(request[c].node)
    BY <1>1 DEF Carried, Checks, Inside
  <1>7. p <= applied[request[c].node]
    <2>1. CASE Inside(c)
      BY <1>1, <1>2, <1>3, <1>4, <1>5, <2>1 DEF SeenSound, AnsweredBy, Carried
    <2>2. CASE IsLeader(request[c].node)
      <3>1. PICK q \in Places(a.id) : q <= applied[a.node]
        BY <1>2, <1>3, <1>4, <2>2 DEF GatewayInv, LeadersSound, IsLeader
      <3>. QED BY <1>2, <1>5, <3>1, OnePlace
    <2>. QED BY <1>6, <2>1, <2>2
  <1>8. request[c].node \in Node /\ p \in Nat
    BY <1>1, <1>5 DEF Carried, GatewayInv, GatewayType, Live, Ticket, Places
  <1>9. applied[request[c].node] \in Nat /\ applied'[request[c].node] \in Nat
    BY <1>8 DEF GatewayInv, GatewayType
  <1>. QED BY <1>1, <1>7, <1>8, <1>9 DEF Carried

\* A check that passes now passes on all that was settled.
LEMMA CheckPasses ==
    ASSUME GatewayInv, SeenSound, NEW c \in Client, Live(c), ~At(c, "wait"), Inside(c),
           NEW kind, NEW t, NEW e, t = request[c], e = elections,
           Admits(kind, t.key, applied[t.node])
    PROVE  Passed(kind, t, e)
  <1>1. t.node \in Node
    BY DEF GatewayInv, GatewayType, Live, Ticket
  <1>2. applied[t.node] \in 0..Len(chosen)
    BY <1>1 DEF GatewayInv, GatewayType
  <1>3. \A a \in Succeeded : AnsweredBy(a, t, e) => \A p \in Places(a.id) : p <= applied[t.node]
    BY DEF SeenSound
  <1>4. ASSUME NEW q \in Places(t.id) PROVE FALSE
    <2>1. q \in DOMAIN chosen /\ chosen[q] \in ToSet(chosen) /\ chosen[q].id = request[c].id
      BY DEF Places, ToSet
    <2>. QED BY <2>1 DEF GatewayInv, CommandsSound, Proposed
  <1>. QED BY <1>2, <1>3, <1>4 DEF Passed

LEMMA CheckStays ==
    ASSUME GatewayInv, GatewayInv', SeenSound, CheckSound, Evolves
    PROVE  CheckSound'
  <1>. SUFFICES ASSUME NEW c \in Client, NEW kind \in Kinds, NEW u, NEW f,
                       u = request'[c], f = elections',
                       Live(c)', Guards(kind, u.method), u.pc \in Beyond(kind)
                PROVE  Passed(kind, u, f)'
    BY DEF CheckSound
  <1>1. Carried(c)
    BY DEF Evolves, JustArrived, Live, Beyond
  <1>2. PICK t, e : t = request[c] /\ e = elections
    OBVIOUS
  <1>3. /\ u.key = t.key /\ u.id = t.id /\ u.after = t.after /\ u.node = t.node
        /\ u.method = t.method /\ Live(c)
    BY <1>1, <1>2 DEF Carried
  <1>4. t.after \subseteq AnsweredIds
    BY <1>2, <1>3, AfterAnswered
  <1>5. f = e \/ \A a \in Succeeded : a.from # f
    BY <1>2, ErasKnown
  <1>6. t.pc \in Beyond(kind) \/ (Inside(c) /\ Admits(kind, t.key, applied[t.node]))
    BY <1>1, <1>2, <1>3 DEF Carried, Checks
  <1>7. Passed(kind, t, e)
    <2>1. CASE t.pc \in Beyond(kind)
      BY <1>2, <1>3, <2>1 DEF CheckSound
    <2>2. CASE t.pc \notin Beyond(kind)
      <3>1. ~At(c, "wait")
        BY <1>2, <2>2 DEF At, Beyond
      <3>. QED BY <1>2, <1>3, <1>6, <2>2, <3>1, CheckPasses
    <2>. QED BY <2>1, <2>2
  <1>. QED BY <1>3, <1>4, <1>5, <1>7, PassedStays

LEMMA DoneStays ==
    ASSUME GatewayInv, GatewayInv', CheckSound, DoneSound, Evolves
    PROVE  DoneSound'
  <1>. SUFFICES ASSUME NEW b \in Succeeded', NEW kind \in Kinds, Guards(kind, b.method)
                PROVE  Passed(kind, b, b.to)'
    BY DEF DoneSound
  <1>1. CASE b \in Succeeded
    <2>1. b.after \subseteq AnsweredIds /\ Passed(kind, b, b.to)
      BY <1>1, AfterAnswered DEF DoneSound
    <2>2. PICK f : f = b.to
      OBVIOUS
    <2>. QED BY <2>1, <2>2, PassedStays
  <1>2. ASSUME NEW c \in Client, At(c, "wait"), Records(b, c)
        PROVE  Passed(kind, b, b.to)'
    <2>1. PICK t, e : t = request[c] /\ e = elections
      OBVIOUS
    <2>2. /\ b.key = t.key /\ b.id = t.id /\ b.after = t.after /\ b.node = t.node
          /\ b.method = t.method /\ b.to = e
      BY <1>2, <2>1 DEF Records, Succeeded
    <2>3. Live(c) /\ t.pc \in Beyond(kind)
      BY <1>2, <2>1 DEF At, Live, Idle, Beyond
    <2>4. Passed(kind, t, e)
      BY <2>1, <2>2, <2>3 DEF CheckSound
    <2>5. t.after \subseteq AnsweredIds
      BY <2>1, <2>3, AfterAnswered
    <2>6. Passed(kind, b, e)'
      BY <2>2, <2>4, <2>5, PassedStays
    <2>. QED BY <2>2, <2>6
  <1>. QED BY <1>1, <1>2 DEF Evolves

LEMMA AfterStays ==
    ASSUME GatewayInv, AfterSound, Evolves
    PROVE  AfterSound'
  <1>. SUFFICES ASSUME NEW a \in Succeeded', NEW c \in Client, Live(c)', a.id \in request'[c].after
                PROVE  a.from <= request'[c].era
    BY DEF AfterSound
  <1>1. CASE Carried(c)
    <2>1. a \in Succeeded
      BY <1>1, AfterAnswered, OldSuccess DEF Carried
    <2>2. a.from <= request[c].era /\ a.from <= elections
      BY <1>1, <2>1, ErasKnown DEF AfterSound, Carried
    <2>. QED BY <1>1, <2>2 DEF Carried
  <1>2. CASE JustArrived(c)
    <2>1. a \in Succeeded
      BY <1>2, OldSuccess DEF JustArrived
    <2>. QED BY <1>2, <2>1, ErasKnown DEF JustArrived
  <1>. QED BY <1>1, <1>2 DEF Evolves, Live

LEMMA NodeStays ==
    ASSUME GatewayInv, GatewayInv', AfterSound, NodeSound, EraSound, Evolves
    PROVE  NodeSound'
  <1>0. ASSUME NEW a \in Succeeded' PROVE a.node \in Node
    <2>1. ASSUME NEW c \in Client, At(c, "wait"), Records(a, c) PROVE a.node \in Node
      BY <2>1 DEF Records, Succeeded, At, Idle, GatewayInv, GatewayType, Ticket
    <2>. QED BY <2>1 DEF Evolves, NodeSound
  <1>. SUFFICES ASSUME NEW a \in Succeeded', NEW b \in Succeeded', a.id \in b.after, a.from = b.to
                PROVE  a.node = b.node
    BY <1>0 DEF NodeSound
  <1>1. CASE b \in Succeeded
    <2>1. a \in Succeeded
      BY <1>1, AfterAnswered, OldSuccess
    <2>. QED BY <1>1, <2>1 DEF NodeSound
  <1>2. ASSUME NEW c \in Client, At(c, "wait"), Records(b, c), chosen' = chosen
        PROVE  a.node = b.node
    <2>1. Live(c) /\ c \in Client
      BY <1>2 DEF At, Live, Idle
    <2>2. /\ b.id = request[c].id /\ b.after = request[c].after /\ b.node = request[c].node
          /\ b.to = elections
      BY <1>2 DEF Records, Succeeded
    <2>3. a \in Succeeded
      BY <2>1, <2>2, AfterAnswered, OldSuccess
    <2>4. request[c].era = elections
      <3>1. request[c].era \in Nat /\ request[c].era <= elections /\ elections \in Nat
        BY <2>1 DEF GatewayInv, GatewayType, IdsSound, Live, Ticket
      <3>2. a.from <= request[c].era /\ a.from = elections
        BY <2>1, <2>2, <2>3 DEF AfterSound
      <3>. QED BY <3>1, <3>2
    <2>5. PICK p \in DOMAIN chosen : chosen[p].id = a.id
      BY <2>3 DEF GatewayInv, CommandsSound
    <2>6. PICK q \in DOMAIN chosen : chosen[q].id = b.id
      BY <1>2 DEF GatewayInv, CommandsSound
    <2>7. Source(a.id, a.node) /\ a.id \in ChosenIds
      BY <2>2, <2>3, <2>5 DEF Source, ChosenIds
    <2>8. Source(b.id, b.node) /\ b.id \in ChosenIds
      BY <1>2, <2>2, <2>4, <2>6 DEF Source, ChosenIds
    <2>9. a.node \in Node /\ b.node \in Node
      BY <1>0
    <2>. QED BY <2>7, <2>8, <2>9 DEF EraSound
  <1>. QED BY <1>1, <1>2 DEF Evolves

LEMMA TextStays ==
    ASSUME GatewayInv, TextSound, Evolves
    PROVE  TextSound'
  <1>. SUFFICES ASSUME NEW cmd \in Held' \cup ToSet(chosen')
                PROVE  /\ \A c \in Client : At(c, "wait")' /\ request'[c].id = cmd.id
                                            => cmd = Command(request'[c])
                       /\ \A a \in Succeeded' : a.id = cmd.id => cmd = Command(a)
    BY DEF TextSound
  <1>1. ASSUME NEW d \in Client, At(d, "wait")'
        PROVE  Carried(d) /\ Live(d) /\ Command(request'[d]) = Command(request[d])
               /\ request'[d].id = request[d].id
    <2>1. request'[d].pc = "wait"
      BY <1>1 DEF At
    <2>2. Carried(d)
      BY <2>1 DEF Evolves, JustArrived, Idle
    <2>. QED BY <2>2 DEF Carried, Command
  <1>2. ASSUME NEW a \in Succeeded', NEW d \in Client, At(d, "wait"), Records(a, d)
        PROVE  Command(a) = Command(request[d]) /\ a.id = request[d].id /\ Live(d)
    <2>1. /\ a.id = request[d].id /\ a.method = request[d].method /\ a.key = request[d].key
      BY <1>2 DEF Records, Succeeded
    <2>. QED BY <1>2, <2>1 DEF Command, At, Live, Idle
  <1>3. CASE cmd \in Held \cup ToSet(chosen)
    <2>1. \A d \in Client : Live(d) /\ request[d].id = cmd.id => At(d, "wait")
      BY <1>3 DEF GatewayInv, CommandsSound, Proposed
    <2>2. ASSUME NEW d \in Client, At(d, "wait")', request'[d].id = cmd.id
          PROVE  cmd = Command(request'[d])
      <3>1. Live(d) /\ Command(request'[d]) = Command(request[d]) /\ request[d].id = cmd.id
        BY <1>1, <2>2
      <3>2. At(d, "wait")
        BY <2>1, <3>1
      <3>. QED BY <1>3, <3>1, <3>2 DEF TextSound
    <2>3. ASSUME NEW a \in Succeeded', a.id = cmd.id PROVE cmd = Command(a)
      <3>1. CASE a \in Succeeded
        BY <1>3, <2>3, <3>1 DEF TextSound
      <3>2. ASSUME NEW d \in Client, At(d, "wait"), Records(a, d) PROVE cmd = Command(a)
        BY <1>2, <1>3, <2>3, <3>2 DEF TextSound
      <3>. QED BY <3>1, <3>2 DEF Evolves
    <2>. QED BY <2>2, <2>3
  <1>4. ASSUME NEW c \in Client, Before(c), cmd = Command(request[c])
        PROVE  /\ \A d \in Client : At(d, "wait")' /\ request'[d].id = cmd.id
                                    => cmd = Command(request'[d])
               /\ \A a \in Succeeded' : a.id = cmd.id => cmd = Command(a)
    <2>1. cmd.id = request[c].id /\ Live(c) /\ ~At(c, "wait")
      BY <1>4 DEF Command, Before
    <2>2. \A d \in Client : Live(d) /\ request[d].id = cmd.id => d = c
      BY <2>1 DEF GatewayInv, IdsSound
    <2>3. ASSUME NEW d \in Client, At(d, "wait")', request'[d].id = cmd.id
          PROVE  cmd = Command(request'[d])
      <3>1. d = c /\ Command(request'[d]) = Command(request[d])
        BY <1>1, <2>2, <2>3
      <3>. QED BY <1>4, <3>1
    <2>4. ASSUME NEW a \in Succeeded', a.id = cmd.id PROVE FALSE
      <3>1. CASE a \in Succeeded
        BY <2>1, <2>4, <3>1 DEF GatewayInv, IdsSound, Succeeded
      <3>2. ASSUME NEW d \in Client, At(d, "wait"), Records(a, d) PROVE FALSE
        BY <1>2, <2>1, <2>2, <2>4, <3>2
      <3>. QED BY <3>1, <3>2 DEF Evolves
    <2>. QED BY <2>3, <2>4
  <1>. QED BY <1>3, <1>4 DEF Evolves

\* No command that is in a log gets another source.
LEMMA SourceStays ==
    ASSUME GatewayInv, Evolves, NEW id, NEW n, Source(id, n)'
    PROVE  /\ elections' = elections
           /\ \/ Source(id, n)
              \/ \E c \in Client : Before(c) /\ id = request[c].id /\ n = request[c].node
  <1>1. ASSUME NEW a \in Succeeded', a.id = id, a.from = elections', a.node = n
        PROVE  elections' = elections /\ Source(id, n)
    <2>1. CASE a \in Succeeded
      <3>1. elections' = elections
        BY <1>1, <2>1, ErasKnown
      <3>. QED BY <1>1, <2>1, <3>1 DEF Source
    <2>2. ASSUME NEW c \in Client, At(c, "wait"), Records(a, c)
          PROVE  elections' = elections /\ Source(id, n)
      <3>1. Live(c)
        BY <2>2 DEF At, Live, Idle
      <3>2. a.id = request[c].id /\ a.node = request[c].node /\ a.from = request[c].era
        BY <2>2 DEF Records, Succeeded
      <3>3. /\ request[c].era \in Nat /\ request[c].era <= elections
            /\ elections \in Nat /\ elections' \in Nat /\ elections <= elections'
        BY <3>1 DEF GatewayInv, GatewayType, IdsSound, Live, Ticket, Evolves
      <3>4. elections' = elections
        BY <1>1, <3>2, <3>3
      <3>. QED BY <1>1, <2>2, <3>2, <3>4 DEF Source
    <2>. QED BY <2>1, <2>2 DEF Evolves
  <1>2. ASSUME NEW c \in Client, At(c, "wait")', request'[c].id = id,
               request'[c].era = elections', request'[c].node = n
        PROVE  /\ elections' = elections
               /\ Source(id, n) \/ (Before(c) /\ id = request[c].id /\ n = request[c].node)
    <2>1. Carried(c)
      BY <1>2 DEF Evolves, At, JustArrived, Idle
    <2>2. /\ Live(c) /\ request[c].id = id /\ request[c].era = elections'
          /\ request[c].node = n
      BY <1>2, <2>1 DEF Carried, At
    <2>3. /\ request[c].era \in Nat /\ request[c].era <= elections
          /\ elections \in Nat /\ elections' \in Nat /\ elections <= elections'
      BY <2>2 DEF GatewayInv, GatewayType, IdsSound, Live, Ticket, Evolves
    <2>4. elections' = elections
      BY <2>2, <2>3
    <2>5. CASE At(c, "wait")
      BY <2>2, <2>4, <2>5 DEF Source
    <2>6. CASE ~At(c, "wait")
      BY <2>2, <2>4, <2>6 DEF Before
    <2>. QED BY <2>5, <2>6, <2>4
  <1>3. \/ \E c \in Client : /\ At(c, "wait")' /\ request'[c].id = id
                             /\ request'[c].era = elections' /\ request'[c].node = n
        \/ \E a \in Succeeded' : a.id = id /\ a.from = elections' /\ a.node = n
    BY DEF Source
  <1>. QED BY <1>1, <1>2, <1>3

LEMMA EraStays ==
    ASSUME GatewayInv, GatewayInv', EraSound, Evolves
    PROVE  EraSound'
  <1>1. leader' \in Node \cup {None}
    BY DEF Evolves
  <1>2. CASE elections' # elections
    <2>1. \A id, n : ~Source(id, n)'
      BY <1>2, SourceStays
    <2>. QED BY <1>1, <2>1 DEF EraSound
  <1>3. CASE elections' = elections
    <2>1. LeaderAlone /\ Grew
      BY <1>3 DEF Evolves
    <2>2. \A cmd \in Held \cup ToSet(chosen), c \in Client : Before(c) => cmd.id # request[c].id
      BY DEF GatewayInv, CommandsSound, Proposed, Before
    <2>3. ASSUME NEW id \in ChosenIds, NEW n \in Node, Source(id, n)'
          PROVE  Source(id, n)
      <3>1. PICK cmd \in ToSet(chosen) : id = cmd.id
        BY DEF ChosenIds, ToSet
      <3>. QED BY <2>2, <2>3, <3>1, SourceStays
    <2>4. ASSUME leader # None, NEW id \in HeldIds(leader), NEW n \in Node, Source(id, n)'
          PROVE  n = leader
      <3>1. PICK cmd \in Held : id = cmd.id
        BY <2>4 DEF EraSound, Held, HeldIds
      <3>2. Source(id, n)
        BY <2>2, <2>4, <3>1, SourceStays
      <3>. QED BY <2>4, <3>2 DEF EraSound
    <2>5. ASSUME NEW id \in ChosenIds' \ ChosenIds
          PROVE  leader # None /\ id \in HeldIds(leader)
      <3>1. PICK p \in DOMAIN chosen' : chosen'[p].id = id
        BY DEF ChosenIds
      <3>2. p \notin DOMAIN chosen
        BY <2>1, <3>1 DEF Grew, ChosenIds
      <3>. QED BY <2>1, <3>1, <3>2 DEF LeaderAlone, HeldIds
    <2>6. ASSUME leader # None, NEW id \in ChosenIds', NEW n \in Node, Source(id, n)'
          PROVE  n = leader
      <3>1. CASE id \in ChosenIds
        BY <2>3, <2>6, <3>1 DEF EraSound
      <3>2. CASE id \notin ChosenIds
        BY <2>4, <2>5, <2>6, <3>2
      <3>. QED BY <3>1, <3>2
    <2>7. ASSUME NEW n \in Node, NEW m \in Node, NEW i \in ChosenIds', NEW j \in ChosenIds',
                 Source(i, n)', Source(j, m)'
          PROVE  n = m
      <3>1. CASE leader # None
        BY <2>6, <2>7, <3>1
      <3>2. CASE leader = None
        <4>1. i \in ChosenIds /\ j \in ChosenIds
          BY <2>5, <3>2
        <4>. QED BY <2>3, <2>7, <4>1 DEF EraSound
      <3>. QED BY <3>1, <3>2
    <2>8. ASSUME leader # None, NEW cmd \in held'[leader], NEW id, id = cmd.id,
                 NEW n \in Node, Source(id, n)'
          PROVE  n = leader
      <3>1. CASE cmd \in held[leader]
        BY <2>4, <2>8, <3>1 DEF HeldIds
      <3>2. ASSUME NEW c \in Client, Before(c), id = request[c].id, request[c].node = leader
            PROVE  n = leader
        <4>1. ~Source(id, n)
          BY <3>2 DEF Source, Before, GatewayInv, IdsSound, Succeeded, At, Live, Idle
        <4>2. PICK d \in Client : Before(d) /\ id = request[d].id /\ n = request[d].node
          BY <2>8, <4>1, SourceStays
        <4>3. d = c
          BY <3>2, <4>2 DEF GatewayInv, IdsSound, Before
        <4>. QED BY <3>2, <4>2, <4>3
      <3>. QED BY <2>1, <2>8, <3>1, <3>2 DEF LeaderAlone
    <2>9. leader' # None => leader' = leader /\ leader # None
      BY <2>1 DEF LeaderAlone
    <2>10. ASSUME leader' # None, NEW n \in Node, NEW id \in (HeldIds(leader) \cup ChosenIds)',
                  Source(id, n)'
           PROVE  n = leader'
      <3>1. CASE id \in ChosenIds'
        BY <2>6, <2>9, <2>10, <3>1
      <3>2. CASE id \in HeldIds(leader)'
        <4>1. PICK cmd \in held'[leader] : id = cmd.id
          BY <2>9, <2>10, <3>2 DEF HeldIds
        <4>. QED BY <2>8, <2>9, <2>10, <4>1
      <3>. QED BY <3>1, <3>2
    <2>. QED BY <1>1, <2>7, <2>10 DEF EraSound
  <1>. QED BY <1>2, <1>3

LEMMA RaceKept ==
    ASSUME GatewayInv, GatewayInv', RaceInv, Evolves
    PROVE  RaceInv'
  <1>1. /\ SeenSound /\ CheckSound /\ DoneSound /\ EraSound
        /\ AfterSound /\ NodeSound /\ TextSound
    BY DEF RaceInv
  <1>2. SeenSound' /\ CheckSound' /\ DoneSound'
    BY <1>1, SeenStays, CheckStays, DoneStays
  <1>3. EraSound' /\ AfterSound' /\ NodeSound' /\ TextSound'
    BY <1>1, EraStays, AfterStays, NodeStays, TextStays
  <1>. QED BY <1>2, <1>3 DEF RaceInv

-----------------------------------------------------------------------------
(* The steps.                                                                *)

LEMMA ChecksHere ==
    ASSUME NEW c \in Client
    PROVE  Checks(c, request[c].pc)
  BY DEF Checks, Inside

\* Handler c keeps its request, at pc.
LEMMA CarriedOn ==
    ASSUME GatewayInv, NEW c \in Client, Live(c), NEW pc, Checks(c, pc),
           request'[c] = Moved(c, pc),
           applied[request[c].node] <= applied'[request[c].node]
    PROVE  Carried(c)
  <1>1. request[c] \in Ticket
    BY DEF GatewayInv, GatewayType, Live
  <1>2. PICK t \in Ticket : t = request[c]
    BY <1>1
  <1>3. request'[c] = IF pc = "get" THEN [t EXCEPT !.pc = pc, !.era = elections]
                      ELSE [t EXCEPT !.pc = pc]
    BY <1>2 DEF Moved
  <1>4. /\ request'[c].pc = pc /\ request'[c].id = t.id /\ request'[c].after = t.after
        /\ request'[c].era = t.era \/ (pc = "get" /\ request'[c].era = elections)
        /\ request'[c].node = t.node
        /\ request'[c].method = t.method /\ request'[c].key = t.key
    BY <1>3 DEF Ticket
  <1>. QED BY <1>2, <1>4 DEF Carried

LEMMA CarriedAlong ==
    ASSUME GatewayInv, NEW c \in Client, Live(c), request'[c] = request[c],
           applied[request[c].node] <= applied'[request[c].node]
    PROVE  Carried(c)
  BY ChecksHere DEF Carried

LEMMA AppliedNat ==
    ASSUME GatewayInv
    PROVE  /\ \A n \in Node : applied[n] \in Nat
           /\ \A c \in Client : Live(c) => request[c].node \in Node
  BY DEF GatewayInv, GatewayType, Live, Ticket

\* Steps that leave the handlers and the log alone.
LEMMA QuietEvolves ==
    ASSUME GatewayInv, UNCHANGED <<chosen, request, answered>>, Held' \subseteq Held,
           elections' \in Nat, elections <= elections', leader' \in Node \cup {None},
           \A n \in Node : applied[n] <= applied'[n],
           elections' = elections =>
              /\ leader' \in {leader, None}
              /\ leader # None => held'[leader] \subseteq held[leader]
    PROVE  Evolves
  <1>1. Grew
    BY DEF GatewayInv, GatewayType, Grew
  <1>2. ASSUME NEW c \in Client, request[c] # Idle PROVE Carried(c)
    BY <1>2, AppliedNat, CarriedAlong DEF Live
  <1>3. Succeeded' = Succeeded
    BY DEF Succeeded
  <1>4. elections' = elections => LeaderAlone
    BY DEF LeaderAlone
  <1>. QED BY <1>1, <1>2, <1>3, <1>4 DEF Evolves

LEMMA GoesEvolves ==
    ASSUME GatewayInv, EraSound, NEW c \in Client, NEW pc, Goes(c, pc)
    PROVE  Evolves
  <1>1. /\ request' = [request EXCEPT ![c] = Moved(c, pc)] /\ Live(c) /\ Checks(c, pc)
        /\ UNCHANGED <<answered, chosen, held, applied, leader, elections>>
    BY DEF Goes, consensus
  <1>2. Grew /\ elections \in Nat /\ request \in [Client -> Ticket \cup {Idle}]
    BY <1>1 DEF GatewayInv, GatewayType, Grew
  <1>3. ASSUME NEW d \in Client, request'[d] # Idle PROVE Carried(d)
    <2>1. \A n \in Node : applied[n] <= applied'[n]
      BY <1>1, AppliedNat
    <2>2. CASE d = c
      BY <1>1, <1>2, <2>1, <2>2, AppliedNat, CarriedOn
    <2>3. CASE d # c
      BY <1>1, <1>2, <1>3, <2>1, <2>3, AppliedNat, CarriedAlong DEF Live
    <2>. QED BY <2>2, <2>3
  <1>4. Succeeded' = Succeeded /\ Held' = Held
    BY <1>1, HeldStays DEF Succeeded
  <1>5. LeaderAlone
    BY <1>1 DEF LeaderAlone
  <1>. QED BY <1>1, <1>2, <1>3, <1>4, <1>5 DEF Evolves, EraSound

LEMMA ProposesEvolves ==
    ASSUME GatewayInv, EraSound, NEW c \in Client, Proposes(c)
    PROVE  Evolves
  <1>. DEFINE new == Command(request[c])
  <1>1. /\ request' = [request EXCEPT ![c].pc = "wait"]
        /\ Live(c) /\ ~At(c, "wait") /\ At(c, "propose")
        /\ held' = [held EXCEPT ![request[c].node] = @ \cup {new}]
        /\ UNCHANGED <<answered, chosen, applied, leader, elections>>
    BY DEF Proposes
  <1>2. /\ Grew /\ elections \in Nat /\ request \in [Client -> Ticket \cup {Idle}]
        /\ held \in [Node -> SUBSET Entry] /\ request[c].node \in Node
    BY <1>1, AppliedNat DEF GatewayInv, GatewayType, Grew
  <1>3. new.id = request[c].id
    BY DEF Command
  <1>4. Checks(c, "wait")
    BY <1>1 DEF Checks, Kinds, Beyond, Inside, At
  <1>. HIDE DEF new
  <1>5. ASSUME NEW d \in Client, request'[d] # Idle PROVE Carried(d)
    <2>1. \A n \in Node : applied[n] <= applied'[n]
      BY <1>1, AppliedNat
    <2>2. CASE d = c
      <3>1. request'[c] = Moved(c, "wait")
        BY <1>1, <1>2 DEF Moved
      <3>. QED BY <1>1, <1>2, <1>4, <2>1, <2>2, <3>1, AppliedNat, CarriedOn
    <2>3. CASE d # c
      BY <1>1, <1>2, <1>5, <2>1, <2>3, AppliedNat, CarriedAlong DEF Live
    <2>. QED BY <2>2, <2>3
  <1>6. Succeeded' = Succeeded
    BY <1>1 DEF Succeeded
  <1>7. \A n \in Node : \A cmd \in held'[n] : cmd \in held[n] \/ (cmd = new /\ n = request[c].node)
    BY <1>1, <1>2
  <1>8. Before(c)
    BY <1>1 DEF Before
  <1>9. \A cmd \in Held' : cmd \in Held \/ cmd = new
    BY <1>7 DEF Held
  <1>10. LeaderAlone
    <2>1. leader # None => leader \in Node
      BY DEF EraSound
    <2>. QED BY <1>1, <1>3, <1>7, <1>8, <2>1 DEF LeaderAlone
  <1>11. \A cmd \in Held' \cup ToSet(chosen') :
            cmd \in Held \cup ToSet(chosen) \/ \E d \in Client : Before(d) /\ cmd = Command(request[d])
    BY <1>1, <1>8, <1>9 DEF new
  <1>. QED BY <1>1, <1>2, <1>5, <1>6, <1>10, <1>11 DEF Evolves, EraSound

LEMMA ClosesEvolves ==
    ASSUME GatewayInv, EraSound, NEW C, Closes(C)
    PROVE  Evolves
  <1>1. /\ C \subseteq Client /\ UNCHANGED <<chosen, held, elections>>
        /\ \A d \in Client \ C : Live(d) => applied'[request[d].node] = applied[request[d].node]
        /\ leader' \in {leader, None}
    BY DEF Closes
  <1>2. Grew /\ elections \in Nat
    BY <1>1 DEF GatewayInv, GatewayType, Grew
  <1>3. ASSUME NEW d \in Client, request'[d] # Idle PROVE Carried(d)
    <2>1. d \notin C /\ request'[d] = request[d]
      BY <1>3, ClosesHandlers DEF GatewayInv
    <2>2. applied[request[d].node] <= applied'[request[d].node]
      BY <1>1, <1>3, <2>1, AppliedNat DEF Live
    <2>. QED BY <1>3, <2>1, <2>2, CarriedAlong DEF Live
  <1>4. ASSUME NEW a \in Succeeded', a \notin Succeeded
        PROVE  \E c \in Client : At(c, "wait") /\ Records(a, c)
    <2>1. a \in answered' \ answered /\ a.status = "ok"
      BY <1>4 DEF Succeeded
    <2>2. PICK c \in C : Records(a, c)
      BY <2>1 DEF Closes
    <2>. QED BY <1>1, <2>1, <2>2 DEF Records
  <1>5. Held' = Held
    BY <1>1, HeldStays
  <1>6. LeaderAlone
    BY <1>1 DEF LeaderAlone
  <1>. QED BY <1>1, <1>2, <1>3, <1>4, <1>5, <1>6 DEF Evolves, EraSound

LEMMA ChooseEvolves ==
    ASSUME GatewayInv, EraSound, NEW cmd \in Held, Choose(cmd)
    PROVE  Evolves
  <1>1. /\ leader # None /\ cmd \in held[leader] /\ leader \in Node
        /\ chosen' = Append(chosen, cmd) /\ held' = [n \in Node |-> held[n] \ {cmd}]
        /\ UNCHANGED <<applied, leader, request, answered, elections>>
    BY DEF Choose, EraSound
  <1>2. /\ chosen \in Seq(Entry) /\ cmd \in Entry /\ elections \in Nat
        /\ Len(chosen) \in Nat
    BY DEF GatewayInv, GatewayType, Held
  <1>3. /\ chosen' \in Seq(Entry) /\ Len(chosen') = Len(chosen) + 1
        /\ chosen'[Len(chosen) + 1] = cmd
        /\ \A p \in 1..Len(chosen) : chosen'[p] = chosen[p]
    BY <1>1, <1>2
  <1>4. Grew
    BY <1>2, <1>3 DEF Grew
  <1>5. ASSUME NEW c \in Client, request[c] # Idle PROVE Carried(c)
    BY <1>1, <1>5, AppliedNat, CarriedAlong DEF Live
  <1>6. Succeeded' = Succeeded
    BY <1>1 DEF Succeeded
  <1>7. \A p \in DOMAIN chosen' : p \in DOMAIN chosen \/ p = Len(chosen) + 1
    BY <1>2, <1>3
  <1>8. Held' \subseteq Held
    BY <1>1 DEF Held
  <1>9. ToSet(chosen') \subseteq ToSet(chosen) \cup {cmd}
    BY <1>2, <1>3, <1>7 DEF ToSet
  <1>10. LeaderAlone
    BY <1>1, <1>3, <1>7 DEF LeaderAlone
  <1>. QED BY <1>1, <1>2, <1>4, <1>5, <1>6, <1>8, <1>9, <1>10 DEF Evolves

LEMMA ArriveEvolves ==
    ASSUME GatewayInv, EraSound, NEW c \in Client, NEW n \in Node, NEW method \in Method,
           NEW k \in Key, Arrive(c, n, method, k)
    PROVE  Evolves
  <1>. DEFINE new == [pc |-> "route", node |-> n, method |-> method, key |-> k,
                      id |-> arrivals + 1, after |-> AnsweredIds, era |-> elections]
  <1>1. /\ request' = [request EXCEPT ![c] = new]
        /\ UNCHANGED <<answered, chosen, held, applied, leader, elections>>
    BY DEF Arrive, consensus, AnsweredIds
  <1>2. Grew /\ elections \in Nat /\ request \in [Client -> Ticket \cup {Idle}]
    BY <1>1 DEF GatewayInv, GatewayType, Grew
  <1>3. new.pc = "route" /\ new.after = AnsweredIds /\ new.era = elections
    OBVIOUS
  <1>. HIDE DEF new
  <1>4. ASSUME NEW d \in Client, request'[d] # Idle PROVE Carried(d) \/ JustArrived(d)
    <2>1. CASE d = c
      BY <1>1, <1>2, <1>3, <2>1 DEF JustArrived
    <2>2. CASE d # c
      BY <1>1, <1>2, <1>4, <2>2, AppliedNat, CarriedAlong DEF Live
    <2>. QED BY <2>1, <2>2
  <1>5. Succeeded' = Succeeded /\ Held' = Held
    BY <1>1, HeldStays DEF Succeeded
  <1>6. LeaderAlone
    BY <1>1 DEF LeaderAlone
  <1>. QED BY <1>1, <1>2, <1>4, <1>5, <1>6 DEF Evolves, EraSound

LEMMA ConsensusEvolves ==
    ASSUME GatewayInv, EraSound, NEW n \in Node,
           \/ \E cmd \in Held : Replicate(n, cmd)
           \/ ApplyNext(n) \/ BecomeLeader(n) \/ StepDown(n)
    PROVE  Evolves
  <1>1. /\ elections \in Nat /\ held \in [Node -> SUBSET Entry] /\ applied \in [Node -> Nat]
        /\ leader \in Node \cup {None}
    BY DEF GatewayInv, GatewayType, EraSound
  <1>2. ASSUME NEW cmd \in Held, Replicate(n, cmd) PROVE Evolves
    <2>1. /\ n # leader /\ UNCHANGED <<chosen, request, answered, applied, leader, elections>>
          /\ \E log \in {held[n] \cup {cmd}, held[n] \ {cmd}} : held' = [held EXCEPT ![n] = log]
      BY <1>2 DEF Replicate
    <2>2. Held' \subseteq Held
      BY <1>1, <2>1 DEF Held
    <2>3. leader # None => held'[leader] \subseteq held[leader]
      BY <1>1, <2>1
    <2>. QED BY <1>1, <2>1, <2>2, <2>3, QuietEvolves
  <1>3. CASE ApplyNext(n)
    <2>1. /\ applied' = [applied EXCEPT ![n] = @ + 1]
          /\ UNCHANGED <<chosen, request, answered, held, leader, elections>>
      BY <1>3 DEF ApplyNext
    <2>2. \A m \in Node : applied[m] <= applied'[m]
      BY <1>1, <2>1
    <2>. QED BY <1>1, <2>1, <2>2, HeldStays, QuietEvolves
  <1>4. CASE BecomeLeader(n)
    <2>1. /\ elections' = elections + 1 /\ leader' \in {n, leader}
          /\ UNCHANGED <<chosen, request, answered, held, applied>>
      BY <1>4 DEF BecomeLeader
    <2>2. elections' \in Nat /\ elections <= elections' /\ elections' # elections
      BY <1>1, <2>1
    <2>3. \A m \in Node : applied[m] <= applied'[m]
      BY <1>1, <2>1
    <2>. QED BY <1>1, <2>1, <2>2, <2>3, HeldStays, QuietEvolves
  <1>5. CASE StepDown(n)
    <2>1. /\ leader' \in {leader, None}
          /\ UNCHANGED <<chosen, request, answered, held, applied, elections>>
      BY <1>5 DEF StepDown
    <2>2. \A m \in Node : applied[m] <= applied'[m]
      BY <1>1, <2>1
    <2>. QED BY <1>1, <2>1, <2>2, HeldStays, QuietEvolves
  <1>. QED BY <1>2, <1>3, <1>4, <1>5

LEMMA StutterEvolves ==
    ASSUME GatewayInv, EraSound, UNCHANGED vars
    PROVE  Evolves
  <1>1. UNCHANGED <<chosen, request, answered, held, applied, leader, elections>>
    BY DEF vars, consensus
  <1>2. elections \in Nat /\ leader \in Node \cup {None} /\ \A m \in Node : applied[m] <= applied'[m]
    BY <1>1, AppliedNat DEF GatewayInv, GatewayType, EraSound
  <1>. QED BY <1>1, <1>2, HeldStays, QuietEvolves

LEMMA NextRace ==
    ASSUME GatewayInv, RaceInv, [Next]_vars
    PROVE  RaceInv'
  <1>0. EraSound
    BY DEF RaceInv
  <1>1. ASSUME NEW c \in Client, NEW n \in Node, NEW method \in Method, NEW k \in Key,
               Arrive(c, n, method, k)
        PROVE  Evolves
    BY <1>0, <1>1, ArriveEvolves
  <1>2. ASSUME NEW c \in Client, Handles(c) PROVE Evolves
    <2>1. (\E pc : Goes(c, pc)) \/ (\E status : Answers(c, status)) \/ Proposes(c)
      BY <1>2, HandlerCases DEF GatewayInv
    <2>. QED BY <1>0, <2>1, GoesEvolves, AnswersCloses, ClosesEvolves, ProposesEvolves
  <1>3. ASSUME NEW cmd \in Held, Choose(cmd) \/ \E n \in Node : Replicate(n, cmd)
        PROVE  Evolves
    BY <1>0, <1>3, ChooseEvolves, ConsensusEvolves
  <1>4. ASSUME NEW n \in Node, ApplyNext(n) \/ BecomeLeader(n) \/ StepDown(n) \/ Crash(n)
        PROVE  Evolves
    BY <1>0, <1>4, ConsensusEvolves, CrashCloses, ClosesEvolves
  <1>5. ASSUME UNCHANGED vars PROVE Evolves
    BY <1>0, <1>5, StutterEvolves
  <1>6. Evolves
    BY <1>1, <1>2, <1>3, <1>4, <1>5 DEF Next, Handles
  <1>7. GatewayInv'
    BY NextGateway, StutterKeeps
  <1>. QED BY <1>6, <1>7, RaceKept

LEMMA InitRace == Init => RaceInv
  <1>. SUFFICES ASSUME Init PROVE RaceInv
    OBVIOUS
  <1>1. \A c \in Client : ~Live(c) /\ ~At(c, "wait")
    BY DEF Init, Live, At, Idle
  <1>2. Succeeded = {} /\ Held = {} /\ ToSet(chosen) = {} /\ DOMAIN chosen = {} /\ leader = None
    BY DEF Init, Succeeded, Held, ToSet
  <1>3. ChosenIds = {}
    BY <1>2 DEF ChosenIds
  <1>4. SeenSound /\ CheckSound /\ DoneSound
    BY <1>1, <1>2 DEF SeenSound, CheckSound, DoneSound
  <1>5. EraSound /\ AfterSound /\ NodeSound /\ TextSound
    BY <1>1, <1>2, <1>3 DEF EraSound, AfterSound, NodeSound, TextSound
  <1>. QED BY <1>4, <1>5 DEF RaceInv

\* What a handler has checked stays true, under the leadership that it answers
\* under, of everything that was settled before its request arrived.
THEOREM RaceInvariant == Spec => [](GatewayInv /\ RaceInv)
  <1>1. Init => GatewayInv /\ RaceInv
    BY InitGateway, InitRace
  <1>2. GatewayInv /\ RaceInv /\ [Next]_vars => (GatewayInv /\ RaceInv)'
    BY NextGateway, StutterKeeps, NextRace
  <1>. QED BY <1>1, <1>2, PTL DEF Spec

\* enforceWriteLimits, "rejects writes that would add a new key once the store
\* holds this many keys": a PUT or POST that adds a key to a full store has
\* before it, in the log, a write that its handler could not have seen settled.
THEOREM KeyLimitHolds == Spec => []KeyLimitPassedOnlyInRace
  <1>1. GatewayInv /\ RaceInv => KeyLimitPassedOnlyInRace
    <2>. SUFFICES ASSUME GatewayInv, RaceInv, NEW b \in Succeeded, NEW q \in Places(b.id),
                         b.method \in {"PUT", "POST"}, MaxKeys > 0,
                         b.key \notin DOMAIN StoreAfter(q - 1),
                         Cardinality(DOMAIN StoreAfter(q - 1)) >= MaxKeys,
                         \A p \in 1..(q - 1) : Settled(chosen[p].id, b)
                  PROVE  FALSE
      BY DEF KeyLimitPassedOnlyInRace
    <2>1. q \in 1..Len(chosen) /\ Len(chosen) \in Nat
      BY DEF Places, GatewayInv, GatewayType
    <2>2. Passed("room", b, b.to)
      BY DEF RaceInv, DoneSound, Kinds, Guards
    <2>3. PICK m \in 0..Len(chosen) :
             /\ Admits("room", b.key, m)
             /\ \A a \in Succeeded : AnsweredBy(a, b, b.to) => \A p \in Places(a.id) : p <= m
             /\ \A r \in Places(b.id) : m < r
      BY <2>2 DEF Passed
    <2>4. m < q
      BY <2>3
    <2>5. m # q - 1
      <3>1. ~Admits("room", b.key, q - 1)
        BY Zenon DEF Admits
      <3>. QED BY <2>3, <3>1
    <2>6. q - 1 \in 1..(q - 1) /\ q - 1 \in 1..Len(chosen) /\ ~(q - 1 <= m)
      BY <2>1, <2>4, <2>5
    <2>7. PICK a \in Succeeded :
             a.id = chosen[q - 1].id /\ a.id \in b.after /\ a.node = b.node /\ a.from = b.to
      BY <2>6 DEF Settled
    <2>8. q - 1 \in Places(a.id)
      BY <2>6, <2>7 DEF Places, GatewayInv, GatewayType
    <2>. QED BY <2>3, <2>6, <2>7, <2>8 DEF AnsweredBy
  <1>. QED BY <1>1, RaceInvariant, PTL

LEMMA StoreSteps ==
    ASSUME GatewayType, NEW p \in 1..Len(chosen)
    PROVE  StoreAfter(p) = Apply(StoreAfter(p - 1), chosen[p])
  <1>1. Len(chosen) \in Nat
    BY DEF GatewayType
  <1>2. \A k \in 1..Len(chosen) :
           Run(chosen, Len(chosen))[k] = Apply(Run(chosen, Len(chosen))[k - 1], chosen[k])
    BY <1>1, RunFacts, Zenon
  <1>. QED BY <1>2, StoresRun, Zenon DEF StoreAfter

\* A key that was set and is gone was deleted in between.
LEMMA GoneByDelete ==
    ASSUME GatewayType, NEW p \in 1..Len(chosen), NEW m \in p..Len(chosen),
           chosen[p].type = "set", chosen[p].key \notin DOMAIN StoreAfter(m)
    PROVE  \E d \in (p + 1)..m : chosen[d].type = "delete" /\ chosen[d].key = chosen[p].key
  <1>0. /\ Len(chosen) \in Nat /\ p \in Nat /\ m \in Nat
        /\ \A x \in 1..Len(chosen) : chosen[x] \in Entry
    BY DEF GatewayType
  <1>1. PICK k : k = chosen[p].key
    OBVIOUS
  <1>. DEFINE Gone == {x \in p..m : k \notin DOMAIN StoreAfter(x)}
  <1>2. Gone \in SUBSET Nat /\ m \in Gone
    BY <1>0, <1>1
  <1>3. PICK d \in Gone : \A x \in Gone : d <= x
    <2>. HIDE DEF Gone
    <2>. QED BY <1>2, LeastNumber
  <1>4. d \in p..m /\ d \in 1..Len(chosen)
    BY <1>0
  <1>5. PICK old, cmd : old = StoreAfter(d - 1) /\ cmd = chosen[d]
    OBVIOUS
  <1>6. k \notin DOMAIN Apply(old, cmd)
    <2>1. StoreAfter(d) = Apply(old, cmd)
      BY <1>4, <1>5, StoreSteps
    <2>2. k \notin DOMAIN StoreAfter(d)
      BY <1>3
    <2>. QED BY <2>1, <2>2, Zenon
  <1>7. cmd.type \in {"set", "delete"} /\ (d = p => cmd.type = "set" /\ cmd.key = k)
    BY <1>0, <1>1, <1>4, <1>5 DEF Entry
  <1>8. cmd.type = "set" => DOMAIN Apply(old, cmd) = DOMAIN old \cup {cmd.key}
    BY DEF Apply
  <1>9. cmd.type = "delete" => DOMAIN Apply(old, cmd) = DOMAIN old \ {cmd.key}
    BY DEF Apply
  <1>10. d # p
    BY <1>6, <1>7, <1>8
  <1>11. k \in DOMAIN old
    <2>1. d - 1 \in p..m /\ d - 1 \notin Gone
      <3>1. d - 1 \in p..m
        BY <1>0, <1>4, <1>10
      <3>2. ~(d <= d - 1)
        BY <1>0, <1>4
      <3>. HIDE DEF Gone
      <3>. QED BY <1>3, <3>1, <3>2
    <2>. QED BY <1>5, <2>1
  <1>12. cmd.type = "delete" /\ cmd.key = k
    BY <1>6, <1>7, <1>8, <1>9, <1>11
  <1>. QED BY <1>0, <1>1, <1>4, <1>5, <1>10, <1>12

\* handlePost, "creates a key only if it does not already exist": of two creates
\* of one key that succeeded, the second of which arrived when the first had
\* been answered, and under one leadership, the second comes after a delete.
THEOREM CreatesAreExclusive == Spec => []CreateExclusiveUnderOneLeader
  <1>1. GatewayInv /\ RaceInv => CreateExclusiveUnderOneLeader
    <2>. SUFFICES ASSUME GatewayInv, RaceInv, NEW a \in Succeeded, NEW b \in Succeeded,
                         CreatedAgain(a, b), a.from = b.to
                  PROVE  DeletedBetween(a, b)
      BY DEF CreateExclusiveUnderOneLeader
    <2>1. /\ a.method = "POST" /\ b.method = "POST" /\ a.key = b.key /\ a.id \in b.after
          /\ chosen \in Seq(Entry) /\ Len(chosen) \in Nat
      BY DEF CreatedAgain, GatewayInv, GatewayType
    <2>2. AnsweredBy(a, b, b.to)
      BY <2>1 DEF AnsweredBy, RaceInv, NodeSound
    <2>3. Passed("absent", b, b.to)
      BY <2>1 DEF RaceInv, DoneSound, Kinds, Guards
    <2>4. PICK m \in 0..Len(chosen) :
             /\ Admits("absent", b.key, m)
             /\ \A x \in Succeeded : AnsweredBy(x, b, b.to) => \A p \in Places(x.id) : p <= m
             /\ \A q \in Places(b.id) : m < q
      BY <2>3 DEF Passed
    <2>5. PICK p \in DOMAIN chosen : chosen[p].id = a.id
      BY DEF GatewayInv, CommandsSound
    <2>6. PICK q \in DOMAIN chosen : chosen[q].id = b.id
      BY DEF GatewayInv, CommandsSound
    <2>7. p \in Places(a.id) /\ q \in Places(b.id)
      BY <2>5, <2>6 DEF Places
    <2>8. p \in 1..Len(chosen) /\ q \in 1..Len(chosen) /\ p <= m /\ m < q /\ m \in p..Len(chosen)
      BY <2>1, <2>2, <2>4, <2>7
    <2>9. chosen[p].type = "set" /\ chosen[p].key = a.key
      <3>1. chosen[p] \in ToSet(chosen)
        BY DEF ToSet
      <3>2. chosen[p] = Command(a)
        BY <2>5, <3>1 DEF RaceInv, TextSound
      <3>. QED BY <2>1, <3>2 DEF Command
    <2>10. chosen[p].key \notin DOMAIN StoreAfter(m)
      <3>1. Admits("absent", chosen[p].key, m)
        BY <2>1, <2>4, <2>9
      <3>. QED BY <3>1, Zenon DEF Admits
    <2>11. PICK d \in (p + 1)..m : chosen[d].type = "delete" /\ chosen[d].key = chosen[p].key
      BY <2>8, <2>9, <2>10, GoneByDelete DEF GatewayInv
    <2>12. d \in DOMAIN chosen /\ p < d /\ d < q
      BY <2>1, <2>8
    <2>. QED BY <2>7, <2>9, <2>11, <2>12 DEF DeletedBetween
  <1>. QED BY <1>1, RaceInvariant, PTL
=============================================================================
