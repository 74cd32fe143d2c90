--------------------------- MODULE ReplicatedLog ----------------------------
(***************************************************************************)
(* What a Raftra cluster promises its clients, without terms, votes,       *)
(* messages or leaders: one log of chosen commands that only grows; every  *)
(* node's store is what applying a prefix of it gives; a crash loses a     *)
(* node's store, never the log; a write is acknowledged only once it is    *)
(* chosen and applied.                                                     *)
(***************************************************************************)
EXTENDS Integers, Sequences, SequencesExt

CONSTANTS Node, Command, NoOp

VARIABLES chosen,   \* the log
          applied,  \* how much of it each node has applied
          store,    \* the commands in each node's store, with their index
          acked     \* commands whose clients were told they are committed

abstract == <<chosen, applied, store, acked>>

\* The store after the first k entries of a log.
Replay(log, k) == {<<l, log[l]>> : l \in {m \in 1..k : log[m] # NoOp}}

\* The cluster is first looked at with the log its disks hold, of which each
\* node has applied a part: nothing, if it has just started.
Init == /\ chosen \in Seq(Command \cup {NoOp})
        /\ applied \in [Node -> 0..Len(chosen)]
        /\ store = [i \in Node |-> Replay(chosen, applied[i])]
        /\ acked = {}

\* A node applies more of the log.  What it applies may have been chosen just
\* now: a leader commits and applies in one critical section.
Advance(i) ==
    /\ IsPrefix(chosen, chosen')
    /\ \E k \in applied[i]..Len(chosen') :
          /\ applied' = [applied EXCEPT ![i] = k]
          /\ store' = [store EXCEPT ![i] = Replay(chosen', k)]

\* A write is acknowledged by a node that has applied it.
Acknowledge(c) ==
    /\ \E i \in Node : \E k \in 1..applied'[i] : chosen'[k] = c
    /\ acked' = acked \cup {c}

Lose(i) ==
    /\ applied' = [applied EXCEPT ![i] = 0]
    /\ store' = [store EXCEPT ![i] = {}]
    /\ UNCHANGED <<chosen, acked>>

Next == \E i \in Node :
            \/ Advance(i) /\ (UNCHANGED acked \/ \E c \in Command : Acknowledge(c))
            \/ Lose(i)

Spec == Init /\ [][Next]_abstract
=============================================================================
