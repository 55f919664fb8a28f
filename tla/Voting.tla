------------------------------- MODULE Voting -------------------------------
(***************************************************************************)
(* What elections promise, without logs, messages and crashes: each server *)
(* has a term that grows, casts votes in it (of a term at most one, but    *)
(* repeated at will for the same candidate) and leads a term once more     *)
(* than half of the servers have voted for it there.  Servers started as   *)
(* leaders (--leader) lead the initial term without a vote.  Module        *)
(* ReplicationProperties instantiates it with the history of Replication.  *)
(***************************************************************************)
EXTENDS Integers, FiniteSets

CONSTANTS
    Server,
    Flagged,      \* the servers started with --leader
    Term          \* the terms, of which 0 is the initial one

\* What the promises below rest on.
WellFormed ==
    /\ IsFiniteSet(Server)
    /\ \A i, j \in Flagged : i = j
    /\ Term \subseteq Nat /\ 0 \in Term

VARIABLES
    term,         \* term[i] of server i
    ballots,      \* the votes cast: <<term, voter, candidate>>
    leaders       \* who has led which term: <<term, server>>

vars == <<term, ballots, leaders>>

Init ==
    /\ term = [i \in Server |-> 0]
    /\ ballots = {}
    /\ leaders = {}

\* A server hears of a newer term.
Advance(i, t) ==
    /\ t > term[i]
    /\ term' = [term EXCEPT ![i] = t]
    /\ UNCHANGED <<ballots, leaders>>

\* It votes in its term, or in a newer one that it enters with the vote.
Cast(voter, candidate, t) ==
    /\ t > 0
    /\ t >= term[voter]
    /\ \A b \in ballots : b[1] = t /\ b[2] = voter => b[3] = candidate
    /\ term' = [term EXCEPT ![voter] = t]
    /\ ballots' = ballots \cup {<<t, voter, candidate>>}
    /\ UNCHANGED leaders

\* A server that is told to lead starts in the initial term.
Found(i) ==
    /\ i \in Flagged
    /\ term[i] = 0
    /\ leaders' = leaders \cup {<<0, i>>}
    /\ UNCHANGED <<term, ballots>>

IsElected(i, t) ==
    2 * Cardinality({v \in Server : <<t, v, i>> \in ballots}) > Cardinality(Server)

\* A candidate that more than half of the servers voted for in its term.
Win(i) ==
    /\ term[i] > 0
    /\ IsElected(i, term[i])
    /\ leaders' = leaders \cup {<<term[i], i>>}
    /\ UNCHANGED <<term, ballots>>

Next ==
    \/ \E i \in Server : Found(i) \/ Win(i)
    \/ \E i \in Server, t \in Term : Advance(i, t)
    \/ \E i, j \in Server, t \in Term : Cast(i, j, t)

Spec == Init /\ [][Next]_vars

-----------------------------------------------------------------------------
\* The two promises, proved of this specification in VotingProofs: nobody votes
\* twice in a term, and nobody shares a term in office with another.
OneVote ==
    \A b1, b2 \in ballots :
        b1[1] = b2[1] /\ b1[2] = b2[2] => b1[3] = b2[3]

OneLeader ==
    \A l1, l2 \in leaders : l1[1] = l2[1] => l1[2] = l2[2]
=============================================================================
