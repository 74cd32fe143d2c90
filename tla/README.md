# Raftra: a verification project in TLA+

Raftra is a replicated key-value store in Go: a Raft implementation with
pre-votes (`internal/raft`) over bbolt (`internal/storage`), with gRPC between
the nodes and gRPC and HTTP towards clients (`internal/transport`). This
directory models its core, model-checks it with TLC and proves its safety
properties with TLAPS. Paths below are relative to the repository; `PROJECT.json` maps every
definition to the lines it models.

## 1. The system

| Part | State | Operations | Talks to |
|---|---|---|---|
| consensus node, `internal/raft` | role, term, vote, commitIndex, lastApplied, nextIndex, matchIndex, leader contact, the waiting room `pendingCommits` | election and heartbeat timers, pre-vote and vote rounds, `HandleRequestVote`, `HandleAppendEntries`, handlers of answers, `ProposeCommand` | storage (under `rn.mu`), peers through goroutines that each place one call |
| transport, `internal/transport/{client,server,handler}.go` | connections | one RPC with a deadline | nodes |
| storage, `internal/storage` | term, vote, log | `SaveTerm`, `SaveVotedFor`, `AppendEntries`, `TruncateFrom`, each one transaction; queries | disk |
| key-value store, `internal/kvstore` | a map | `Apply`, `Get`, `Size` | called by the node when entries are committed |
| gateway, `http_server.go`, `limits.go`, `handler.go` | none of its own | GET, PUT, POST (create), DELETE; gRPC Get, Set, Delete; limits on writes | reads the node without a lock between reads, then `ProposeCommand` |
| rate limiter, `ratelimit.go` | a token bucket per client | `allow`, `sweepLocked` | the gateway |
| CLI, `cmd/raftra-cli` | the command under way | get, set, delete: tries nodes in turn, follows redirects, retries; status: asks every node at once | the gateway |
| server process, metrics, generated RPC code, the website's animation, chaos harness, load generator | | | |

What is hard here, and what correctness means:

* **Elections.** Votes are counted with a number by goroutines whose answers
  come late, and terms and votes are stored in separate transactions. There must
  be one vote per node and term, over crashes, and one leader per term. A
  pre-vote round must not disturb a leader that a majority hears.
* **Replication.** Calls are lost, overtaken and answered after the leader's
  term; batches are capped, so that a batch may end before the follower's
  divergent tail. What is committed must stay in every log that can win an
  election; `matchIndex` must never claim too much; followers must catch up.
* **Proposals.** A client's goroutine sleeps on a channel while its leader is
  deposed, its entry overwritten or its five seconds run out. An acknowledged
  write must not be lost and nobody may block while `rn.mu` is held.
* **Storage.** A log is a sorted map of byte strings; cutting a tail and
  appending behind it are two transactions.
* **Gateway.** Checks precede the proposal and hold no lock; leaders may lag
  behind the committed log.
* **CLI.** A request whose answer did not come is sent again; redirects rest on
  `leaderID`, which is never cleared; `/status` is put together from reads between
  which the role can change. What the user is told must be true, a repeated write
  must be accounted for, and every command must end.
* **Limiter.** Idle buckets are dropped and must come back as they would be.

The list of hazards, each at its line and with the properties that watch it, is
in `PROJECT.json`.

## 2. Modules

    RaftNode ──► Raftra ──► MCRaftra ──► MCCatchUp        RateLimiter ──► RateLimiterProofs
                   │  ├─ refines ReplicatedLog             LogStore ──► LogStoreProofs
                   │  └─ refines Leadership ──┐
                   │              Gateway ────┼─► Cli ──► MCCli
                   │                 │ │      Cli ──────────────┐
                   │                 │ └────► GatewayProofs ──► CliProofs
                   ▼                 └──────► MCGateway
    RaftraProofs ──► ReplicationProofs ──► LogProofs ──► PromiseProofs ◄── MCRaftra

An arrow leads to a module that extends the one it starts from. LogStore compares
itself with an instance of RaftNode.

**RaftNode** — one node. Every handler of the code runs from `Lock` to `Unlock`
of `rn.mu`, so it is an operator from the node's record to the record it leaves.
`diskTerm`, `diskVote` and `log` are the storage, the other fields are memory.
`quota` is the number of storage transactions that still succeed, so that a
handler can be cut short after any of them; `out` collects what it sends.
Elapsed time is a Boolean, `leaderContact`: whether `lastLeaderContact` is within
the minimum election timeout. Timers may fire whenever the code allows it.

**Raftra** — the cluster. A step is one critical section. It completes, or the
process dies in the middle and has sent nothing, or, if `FaultyDisk` is TRUE,
transactions fail and the code goes on as it does. A process that dies restarts
from its disk in the same step; a node that is down is one that takes no steps.
A call is first a request and then an answer, can fail at any point, and can
outlive its caller (`open` is FALSE then). `outcome` is what the client of each
command knows. `ballots`, `elected` and `committed` are history.

**ReplicatedLog** — what the cluster promises, without terms, votes or messages:
one log that only grows; a node's store is what a prefix of it gives; a crash
loses a store and never the log; a write is acknowledged once it is chosen and
applied. `Refinement` in Raftra is `Promise!Spec` under the mapping given there.

**Leadership** — who leads, as `Term`, `IsLeader` and `LeaderID` show it, without
votes, logs or messages: terms only grow, a term has one leader, a node follows
only a node that was elected in a term not yet past, winning an election does not
touch `leaderID` and nothing but a restart clears it. `LeadershipPromise` in
Raftra is `Leaders!Spec`; Cli is built on the same module, so what it assumes of
elections is what the consensus is shown to do. Its `Init` is any view of a
cluster that may have had leaders before.

**LogStore** — the bbolt bucket keyed by byte strings, with bbolt's cursor order,
next to the in-memory backend that the unit tests use (and `rn.persistent.Log`,
which the node treats in the same way). `SequenceFaithful` justifies RaftNode's
log: for every reachable bucket, every batch and any number of transactions that
succeed, `Reconcile` on the bucket and RaftNode's `Reconcile` on the sequence give
the same log.

**Gateway** — the handlers of HTTP and gRPC, one step per read of the node, over
a consensus that is as strong as ReplicatedLog and no stronger: several nodes may
believe that they lead, a new leader serves before it has applied what is chosen,
a failed proposal may be chosen later. `redirectIfFollower` asks the node twice,
`IsLeader` and then `LeaderID`, and is two steps; what `LeaderID` returns is any
node here and the node of Leadership in Cli. So is the gRPC `Get`: it checks
`IsLeader` (`HandlerGet`) and then reads the store (`HandlerRead`), and the node may
be deposed, and others may write, in between. `era` is the number of elections when
a request's leadership was looked up. `Remembered` says which answers the
history keeps: those the properties of the run ask about.

**Cli** — one user's `raftra-cli` composed with Gateway and Leadership.
`cluster.do` is the position in `Addrs` and the round, `executeRequest` the
redirects. A node that refuses without a `leaderID`, or with one that is not in its
`peerHTTPAddrs`, answers 503, and the CLI turns to the next address. An attempt may not reach a node (`Unreached`), or its answer may not
come back (`Cut`) while the handler goes on in the gateway; a node that restarts
takes its handlers with it. Time is not modelled: an attempt may be cut at any
point and the budget may be spent after any round, at the latest after
`MaxCycles`. `status` reads term, role and leader of each node in separate steps,
as `handleStatus` does, and all nodes at once. A move of Leadership and the
move of the leader that Gateway knows are one step. `settled` marks an attempt
during which all nodes agree on the leader and no election disturbs it.

**RateLimiter** — `allow` and `sweepLocked`. Fractions of tokens are whole parts,
so that any rational rate can be expressed; float64 rounding is left out. The
assumption on the constants is what `Limits.Validate` enforces at start.

Definitions marked *Mutant* are plausible bugs. Each is substituted for the
definition it mutates to see that a property notices; no specification uses them.

## 3. Runs

All runs use TLC with two workers; the longest takes about three minutes.

| Run | Starts from | Checks |
|---|---|---|
| MCElection | an empty cluster of three, two terms, one crash anywhere, two vote calls in flight | `TypeOK`, `OneVotePerTerm`, `ElectionSafety`, `VoteDurable`, `ElectionInv`, `TermNeverDecreases`, `LeadershipPromise` |
| MCStaleTail | a restart where one node holds a tail that is longer than a capped batch and contradicts what is committed; two calls in flight | `LogMatching`, `StateMachineSafety`, `MatchIndexSound`, `Refinement`, `LeadershipPromise` |
| MCTakeover | an established leader of term 3 and a client's write; or a restart after two leaders left uncommitted entries in different logs. One crash, terms up to 4 | `LeaderCompleteness`, `AckedDurable`, `WaitingRoomSound`, `LeaderAppendOnly`, `Refinement` |
| MCStable | an established leader of term 1, while at any time a majority (not always the same one) hears it; two overlapping pre-vote rounds per node, one crash | `NoDisruption` |
| MCSingle | a cluster of one, three terms, two commands, two crashes | `AckedDurable`, `SoleLeaderServesLog` |
| MCCatchUp | a leader that stays, a returning node with two contradicting entries, a client's write; two calls of AppendEntries in flight, which are lost, overtaken and answered late | `LogsConverge`, `ProposalsAnswered` |
| MCLogStore | an unopened database, logs up to index 6 | `LogDense`, `BackendsAgree`, `SequenceFaithful` |
| MCRateLimiter | two clients, a rate of 4/3 per second, a sweep | `WindowBound`, `LimiterExact`, `RetryAfterHonoured` |
| MCGateway | two nodes, two requests of any method on two keys of which `-max-keys` allows one, two elections, one crash | `AnswersTruthful`, `WritesInOrder`, `LeaderReadsItsWrites`, `CreateExclusiveUnderOneLeader`, `KeyLimitPassedOnlyInRace` |
| MCCli | two nodes, the second one leading, one command of the CLI (get, set or status), three requests, two rounds, two redirects, one election, one restart | `CommittedMeansStored`, `CopiesAccountedFor`, `OneRedirectWhenSettled`, `StatusClaimBacked`, `EveryStepCountsDown` |
| MCFaultyDisk | as MCElection, one term, with disk errors | `ElectionSafety` is **violated** |
| MCCreateTwice | one client, two creates, two elections | `CreateExclusive` is **violated** |

*Bounds.* Three nodes are the smallest cluster in which majorities differ; two
nodes are enough for the gateway, whose consensus is abstract. Terms and calls
are bounded so that each hazard occurs: two terms for votes across terms; four
for the scenario of section 5.4.2 of the Raft paper, which MCTakeover reaches by
starting at its third term (how the nodes got there is written beside each start);
a batch of one entry so that batches are shorter than the divergent tail; two calls of AppendEntries in flight so that a late refusal meets a `nextIndex` that has
moved on, and can take it back below what the follower is known to hold; keys of
two bytes with three values, so that indexes 0 to 6 carry into the second byte.
Two redirects let the CLI run into the limit of redirects (the code's is five)
and three requests let a set be repeated twice; a delete takes the same path as a
set. That the bounds suffice is tested by the mutants: each property of each passing
run is broken by a bug of its own within the run's bounds.

*Symmetry.* Nodes, commands, keys and gateway clients are interchangeable and are
declared so in the safety runs only; in MCCli only the handlers are, since the
order of the nodes in `--addr` matters.

*Fairness* is assumed in MCCatchUp alone. The leader's heartbeat timer rearms
itself and every heartbeat places a call to each peer, so calls to each follower
recur; a follower that is called again and again is reached again and again, and
so is the leader by its answers: strong fairness of `Calls(j)`, `Reaches(j)` and
`Answers(j)`. Each is a whole critical section that completes (`Handles`); which of
the calls in flight it serves is left open, so that an old one may stay behind as
long as it likes. It is strong because a call that fails disables the step until the
next heartbeat. A goroutine whose channel is filled wakes up: weak fairness of
`ProposeReturns`. No election timer fires in these behaviours and the five
seconds of a proposal do not run out. Nothing is assumed about elections ending:
with random timeouts they end only with probability one.

*Deadlock* is checked except in the runs of the gateway and the CLI, where clients
run out of requests and the gateway is idle.

## 4. Proofs

TLAPS proves, for any number of nodes, clients, keys and commands and for any
bounds:

| Theorem | States |
|---|---|
| `TypeCorrect` (RaftraProofs) | `Spec => []TypeOK` |
| `ElectionInvariant` | `Spec => []ElectionInv` |
| `SingleVote` | `Spec => []OneVotePerTerm` |
| `TermsOnlyGrow` | `Spec => TermNeverDecreases` |
| `GrantedVoteIsDurable` | `Spec => []VoteDurable` |
| `OneLeaderPerTerm` | `Spec => []ElectionSafety` |
| `LogInvariantHolds` (LogProofs) | `Spec => []LogInv` |
| `LogsMatch` | `Spec => []LogMatching` |
| `MatchIndexHolds` | `Spec => []MatchIndexSound` |
| `LeadersAreComplete` | `Spec => []LeaderCompleteness` |
| `StateMachinesAgree` | `Spec => []StateMachineSafety` |
| `LeadersOnlyAppend` | `Spec => LeaderAppendOnly` |
| `ClientInvariant` (PromiseProofs) | `Spec => []ClientInv` |
| `WaitersAreSound` | `Spec => []WaitingRoomSound` |
| `AckedWritesAreDurable` | `Spec => []AckedDurable` |
| `ImplementsReplicatedLog` | `Spec => Refinement` |
| `ImplementsLeadership` | `Spec => LeadershipPromise` |
| `SoleLeaderServes` | one node: `Spec => []SoleLeaderServesLog` |
| `LeaderUndisturbed` | at most four nodes: `StableSpec => []NoDisruption` |
| `FixedMajorityUndisturbed` | `EstablishedInit(1) /\ [][Next /\ Hears(Q)']_vars => []NoDisruption` |
| `StoredLogIsDense` (LogStoreProofs) | `Spec => []LogDense` |
| `TheBackendsAgree` | `Spec => []BackendsAgree` |
| `TheSequenceIsFaithful` | `Spec => []SequenceFaithful` |
| `GatewayInvariant` (GatewayProofs) | `Spec => []GatewayInv` |
| `AnswersAreTruthful` | `Spec => []AnswersTruthful` |
| `WritesStayInOrder` | `Spec => []WritesInOrder` |
| `LeadersReadTheirWrites` | `Spec => []LeaderReadsItsWrites` |
| `RaceInvariant` | `Spec => [](GatewayInv /\ RaceInv)` |
| `KeyLimitHolds` | `Spec => []KeyLimitPassedOnlyInRace` |
| `CreatesAreExclusive` | `Spec => []CreateExclusiveUnderOneLeader` |
| `CliInvariant` (CliProofs) | `CliSpec => []CliInv` |
| `CommittedIsStored` | `CliSpec => []CommittedMeansStored` |
| `CopiesAreAccountedFor` | `CliSpec => []CopiesAccountedFor` |
| `OneRedirectIsEnough` | `CliSpec => []OneRedirectWhenSettled` |
| `StatusClaimsAreBacked` | `CliSpec => []StatusClaimBacked` |
| `CommandsCountDown` | `CliSpec => EveryStepCountsDown` |
| `LimiterInvariant` (RateLimiterProofs) | `Spec => []LimiterInv` |
| `WindowIsBounded` | `Spec => []WindowBound` |
| `LimiterIsExact` | `Spec => []LimiterExact` |
| `RetryAfterIsHonoured` | `Spec => RetryAfterHonoured` |

### Assumptions

Every theorem rests on the assumptions on the constants (a finite, nonempty set
of nodes; `None` is no node; the bounds are natural numbers; what
`Limits.Validate` enforces; keys wide enough for the indexes). Some need more:

* The theorems of LogProofs and PromiseProofs, and those of RaftraProofs but
  `TypeCorrect`, assume
  `FaultyDisk = FALSE`: a storage transaction either succeeds or is the last thing
  the process does. MCFaultyDisk shows that they need it.
* `SoleLeaderServes` is about a cluster of one. `LeaderUndisturbed` assumes at most
  four nodes, which is sharp: with five TLC finds the property violated (section 5).
  `FixedMajorityUndisturbed` assumes of the run, instead, that each node that does
  not hear from the leader has a majority that does, always the same one.
* `AnswersAreTruthful` assumes that the history keeps successes and errors
  (`Remembered`), since it says of every command in a log that one of the two was,
  or will be, its request's answer. MCGateway keeps them.
* `RetryAfterIsHonoured` assumes a rate of at least one write per second. Below it
  the property fails (section 5).

### Types

`TypeCorrect` goes handler by handler (each operator of RaftNode takes a
`NodeState` to a `NodeState`) and then action by action.

### Elections

`ElectionSafety` is not inductive: a state with one leader may hold a candidate
whose counter is too high. `ElectionInv` adds what makes it so:

* `Saved`: between critical sections disk and memory agree on term and vote. In
  the middle of one they do not: `checkTerm` and `campaignLocked` save the term
  first, and a process that dies between the two saves restarts with an old vote
  under a new term. That vote counts as held in the new term; it can only keep
  the node from voting, and the proof treats it as a ballot.
* `VotesHeld`: no ballot is of a later term than its voter's, and one of the
  current term is the vote held, so a second ballot in a term needs a new term.
* `CallsSound`: a node asks each peer at most once per term, and a granted answer
  under way stands for a ballot.
* `TallySound`: a candidate's counter is at most the number of its supporters
  from which it expects no answer. This is why a number can stand for a set: an
  answer is consumed when it is counted, and its voter moves into the set.
* `LeadersElected`: whoever leads is in `elected`, with a majority of ballots.

`ElectionSafety` follows, since two majorities share a voter
(`FS_MajoritiesIntersect`) and a voter has one ballot per term.

### Logs

`LogMatching`, `LeaderCompleteness` and the others speak of the nodes' logs now.
None is inductive: a follower's log depends on a leader that may be gone, and
whether an entry is safe depends on who acknowledged it when. `LogInv` (at the head
of ReplicationProofs) therefore speaks of two things the program does not keep, bound by
an existential quantifier instead of history variables: `G[t]`, the log of the
leader of term `t` as far as it ever got, and `A[j][t]`, how much of it node `j`
acknowledged while in term `t`. It says that

* every log is *backed*: each of its entries stands where the leader of its term
  had it, with the same entries before it (hence `LogMatching`);
* a call of AppendEntries carries a piece of `G` of its term, and a successful
  answer tells no more than `A` (hence `MatchIndexSound`);
* whatever a node acknowledged before term `u` is in its log, or a majority has
  moved on without it, so that it will never be chosen (`Covers`, `Blocked`). Of
  the nodes that a candidate counts, and of granted votes under way, the same holds
  of the *candidate's* log (`VotesSound`): that is what the comparison of last
  terms and indexes in `HandleRequestVote` establishes;
* a later leader's log has every entry that may have been chosen in an earlier
  term (`GhostSound`), and what a node has committed and applied was chosen
  (`CommitSound`). A leader counts only entries of its own term towards its commit
  index, which is the step that needs it.

ReplicationProofs shows what each handler does to log, commit index and calls,
seen against `G` and `A`, and how the ghosts may grow; LogProofs shows that every
step, a death in its middle included, has ghosts that fit. A truncation and the
append behind it are two transactions, and the crash between them leaves a log
that is a prefix of what the node acknowledged or of a call's piece; this is where
the capped batch and the divergent tail come in.

### Promises

`ClientInv` ties a blocked `ProposeCommand` to the log: whoever is registered in
`pendingCommits` waits, at a leader, for the entry of its own term at its own index
that is not applied yet, with an empty channel (`Room`); a call is blocked at one
node only (`Callers`); and what was acknowledged is in the committed log
(`Acknowledged`). With `LeaderCompleteness` it gives `AckedDurable`. Both
refinements go action by action, with the critical section cut short at each
transaction as a step of its own. For Leadership one more invariant is needed,
`ElectedPast`: who was elected in a term is never a candidate of it again.

### Special clusters

In a cluster of one no call is ever placed, and every critical section that stores an
entry under a leader also commits and applies it; one that is cut short ends in a
restart, and so in a follower (`SoleInv`). What a restart has not applied is committed
with the no-op of becomeLeader.

`StableInv(Q)` says why pre-votes do not depose a leader that is heard: while node
`i` has an open round, its counter is at most the number of nodes outside `Q[i]`,
a majority, from which it expects no answer any more (`Told`), and so stays below a
majority; an answer that grants comes from a node that did not hear the leader when it
gave it, hence from outside `Q[i]`. The argument needs `Q[i]` to stay what it is while
a round is open. With up to four nodes it does, whichever majority hears the leader: a
majority that leaves `i` out is all the others. With five nodes it may leave out a
second one, and not always the same.

### Storage

`StoreInv` of LogStoreProofs: the bucket holds a log without gaps, each entry under
the key of its index, and while the node runs the slice is that log. That a cursor
meets the indexes in order rests on `uint64ToBytes`: `bytesToUint64` takes its bytes
back to the number (`KeyDecoded`), and they compare as the numbers do (`KeyOrder`), for
every width and base. Where such a fact needs an induction, over digits or over the
entries of a batch, the proof looks at the first place at which it goes wrong (a least
element, `WFMin`) instead of using the library's induction. Powers are the recursive
function `Place` because the prover knows no exponents. Truncation and append, each of
which may fail or be the last thing the process does, then do the same to the keys, to
the slice and to RaftNode's sequence (`ReconcileKeeps`, `SequenceReconciled`).

### Gateway

`GatewayInv`: an id belongs to one handler, or to one that is gone and answered;
a command was proposed by a handler that waits or is gone, is in no log twice and
not chosen twice; what was answered before a request arrived stands before
whatever that request may still put into the log; a node that has led since
before it took a write has applied it; and a gRPC `Get` that has passed its check will
read a store with every write that the leadership it found had answered to earlier
requests, whoever leads by then (`ReadsSound`): a store only grows while its node runs,
and a handler does not outlive its node. `LeaderReadsItsWrites` therefore asks for no
election between the write's arrival and the check of the `Get`, and allows any between
the check and the read. Each step of a handler moves it on, ends it
or proposes (`HandlerCases`), so the proof has six kinds of steps and not twenty.

The two properties about races need `RaceInv`. A handler checks (is there room, is
the key absent) on the store of its own node and proposes later, so what it found
says something only of commands that its node had applied by then. `Passed` says how
much: there was a place `m` in the log, before the request's own command, at whose
store the check passes, and every write that was answered before the request arrived,
by the same node and under the present leadership, stands at `m` or before it. To
show that for the moment of the check, `SeenSound` keeps that the node has applied
those writes, even when it has lost the leadership since, and a request that has been
answered takes its `Passed` along (`DoneSound`). `EraSound` ties a leadership to one
node: of the commands proposed under it only those of the latest leader are chosen, so
that two successes of one leadership were taken by the same node (`NodeSound`). All
steps are shown to be of one form, `Evolves`, and that form to keep `RaceInv`.

The limit follows at once: if everything before place `q` was settled, `m` is `q - 1`.
For creates the key was in the store after the first create and not after `m`, so a
delete stands between them (`GoneByDelete`). Both look into the store that a prefix of
the log gives; `Stores` is a recursive function for this reason, and what it returns is
shown, again by least counterexamples, from its defining equation (`RunExists`,
`RunsAgree`).

### CLI

To the gateway a step of Cli is one of its own or none (`CliStep`), so `GatewayInv`
carries over, and with it that a request which is over gets into no log any more
(`Fades`). `CliInv` adds what the CLI knows of its command:

* `AwaitSound`: the connection it listens on has a handler, at the node it turned
  to, for a request of this command.
* `CountSound`: of the command's requests, besides the one awaited, at most as many
  are in a log or can still get there (`Possible`) as answers did not come. The
  same bound, kept for what the user was told (`WriteSound`), gives
  `CopiesAccountedFor`. It speaks of requests and not of places in the log: what
  is in no log yet can be chosen after the command is over.
* `SettledSound`: while all nodes agree on the leader, whoever was redirected is at
  the leader, and the handler that is about to redirect is not.
* `SurveySound`: the term that status read of a node is not above the node's, and
  if the node said that it leads it won that term or a later one.

`CommandsCountDown` takes a second invariant, that redirects and rounds stay within
their limits, and compares rounds, nodes and requests left in that order; for status
it counts the nodes that have yet to pass each read.

### Limiter

`LimiterInv`: what a bucket holds now is the least that is left of a full bucket
after any number of its client's last allowed writes, and that least is never
negative; the second half is `WindowBound`. A bucket is swept only when the time
since its last use fills it, so that it held what a new one would.

`LogInv`, `ClientInv`, `ElectedPast`, `StableInv`, `StoreInv`, `GatewayInv`, `RaceInv` and
`CliInv` were model-checked on small instances before they were proved; `ElectionInv` is
checked in MCElection.

### Only model-checked

* Liveness (`LogsConverge`, `ProposalsAnswered`): the prover has no fairness. Every
  other property of a passing run is proved.

## 5. Where code and documentation part

* **A vote that could not be saved is granted** (MCFaultyDisk).
  `HandleRequestVote` ignores the error of `SaveVotedFor` (election.go:298), and
  README.md:470 rests election safety on the vote being "persisted before the
  vote is granted". After a disk error and a restart a node votes twice in one
  term and two leaders share it.
* **Two creates that do not overlap can both succeed** (MCCreateTwice). README.md:487
  makes an exception for "two concurrent creates". A new leader that has not
  applied a create yet answers a later create of the same key with 201.
  `CreateExclusiveUnderOneLeader` is what does hold.

Smaller ones were met while modelling and have no run:

* README.md:478 says that "a node that was cut off [...] cannot bump the term and
  depose a healthy leader", since "peers refuse while they still hear from a leader".
  `startElection` counts the answers of a round (election.go:119) for as long as they
  come, and grants of different moments add up. With five nodes two peers that miss
  the leader one after the other, each for the minimum election timeout, grant in turn,
  and the leader is deposed although a majority heard it at every moment. MCStable
  finds this in seconds when its cfg is given five nodes, one round and no crash.
  `LeaderUndisturbed` and `FixedMajorityUndisturbed` are what holds.
* `-max-keys` is checked before the proposal and not when a command is applied
  (limits.go:75), so it can be passed. `KeyLimitPassedOnlyInRace` is what holds:
  never by a write that arrived when all earlier ones were answered by the same
  leader.
* `Retry-After: 1` (limits.go:66) is too short when `-write-rate` is below one per
  second; `RetryAfterHonoured` holds at the rate of MCRateLimiter because it is
  above one.
* A write that the CLI repeats can be applied again after another client's later
  write was acknowledged, and undo it; a command reported as failed may have been
  committed. `CopiesAccountedFor` bounds how often.
* `/status` is not one reading of the node (http_server.go:77): its term can be
  older than its role, and its `leader_id`, read last, can name another node than
  the one that claims to lead, so the headline "*X* leads term *T*" can name a pair
  that never was. What holds is `StatusClaimBacked`.
* `do`'s comment promises an error only "if no node answered at all"
  (client.go:77); an attempt that ends at the limit of redirects was answered and
  counts as an error too. The budget of three seconds is looked at between rounds
  only, and an attempt may take five.
* `raft_commit_index` is set by leaders only (replication.go:229), so a follower's
  gauge stays at its last value as a leader.

## 6. Not modelled

* Reads of the storage that fail: bbolt's do not while the database is open.
  `-nosync`, which gives up durability on purpose.
* Connection management and backoff of gRPC; the deadline of a call is the
  possibility that it fails.
* gob and protobuf encoding, CORS, the spelling of redirect URLs (the CLI's
  translation of container names to local ports too), `clientIP`.
* Float rounding in the limiter.
* The CLI's interactive mode and terminal output.
* The server process: flags and wiring. Its stop is a crash of the model between
  two critical sections. The code stops the event loop, the gRPC server, the HTTP
  server and the transport before it closes the store, so what a goroutine still
  does with a closed store reaches no other node; that the order matters is what
  MCFaultyDisk shows.
* Metrics (nothing reads them back), generated code, the website, test and
  benchmark drivers.

## 7. What is left

Every safety property and every action property that a passing run checks is a theorem.
Left to TLC are the two liveness properties. Not modelled are failing reads of the
storage, the real durations of timers, and the parts listed in section 6.
