---------------------------- MODULE VotingProofs ----------------------------
(***************************************************************************)
(* The promises of module Voting, for any servers and terms.  The reason   *)
(* is in two facts: a vote once cast is never lost, and two majorities     *)
(* share a voter, who votes once.                                          *)
(***************************************************************************)
EXTENDS Voting, FiniteSetTheorems, TLAPS

\* Who led a term was started as its leader, if it is the initial one, or has
\* the votes of more than half of the servers.
Elected == \A l \in leaders :
    \/ l[1] = 0 /\ l[2] \in Flagged
    \/ l[1] \in Term \ {0} /\ IsElected(l[2], l[1])

VotingInv == /\ term \in [Server -> Term]
             /\ leaders \subseteq Term \X (Server \cup Flagged)
             /\ ballots \subseteq Term \X Server \X Server
             /\ OneVote
             /\ Elected

\* Of two sets of servers that both hold more than half of them, one server is
\* in both.
LEMMA MajoritiesShare ==
    ASSUME IsFiniteSet(Server),
           NEW A \in SUBSET Server, NEW B \in SUBSET Server,
           2 * Cardinality(A) > Cardinality(Server),
           2 * Cardinality(B) > Cardinality(Server)
    PROVE  A \cap B # {}
<1>1. IsFiniteSet(Server) /\ IsFiniteSet(A) /\ IsFiniteSet(B)
  BY FS_Subset
<1>2. IsFiniteSet(A \cup B) /\ Cardinality(A \cup B) <= Cardinality(Server)
  BY <1>1, FS_Subset, FS_Union
<1>3. /\ Cardinality(A) \in Nat /\ Cardinality(B) \in Nat
      /\ Cardinality(Server) \in Nat /\ Cardinality(A \cap B) \in Nat
  BY <1>1, FS_CardinalityType, FS_Intersection
<1>4. Cardinality(A \cup B)
        = Cardinality(A) + Cardinality(B) - Cardinality(A \cap B)
  BY <1>1, FS_Union
<1>5. CASE A \cap B = {}
  <2>1. Cardinality(A \cap B) = 0
    BY <1>5, FS_EmptySet
  <2> HIDE <1>5
  <2> QED
    BY <1>2, <1>3, <1>4, <2>1
<1> QED
  BY <1>5

\* More votes never unseat anybody.
LEMMA ElectedStays ==
    ASSUME IsFiniteSet(Server), NEW i, NEW t, IsElected(i, t), ballots \subseteq ballots'
    PROVE  IsElected(i, t)'
<1> DEFINE old == {v \in Server : <<t, v, i>> \in ballots}
           new == {v \in Server : <<t, v, i>> \in ballots'}
<1>1. old \subseteq new /\ new \subseteq Server
  OBVIOUS
<1>2. IsFiniteSet(new)
  BY <1>1, FS_Subset
<1>3. Cardinality(old) <= Cardinality(new)
  BY <1>1, <1>2, FS_Subset
<1>4. /\ Cardinality(old) \in Nat /\ Cardinality(new) \in Nat
      /\ Cardinality(Server) \in Nat
  BY <1>1, <1>2, FS_Subset, FS_CardinalityType
<1> QED
  BY <1>3, <1>4 DEF IsElected

LEMMA VotingStep ==
    ASSUME WellFormed, VotingInv, [Next]_vars
    PROVE  VotingInv'
<1> USE DEF WellFormed
<1>1. ASSUME NEW i \in Server, Found(i)
      PROVE  VotingInv'
  BY <1>1 DEF VotingInv, Found, OneVote, Elected, IsElected
<1>2. ASSUME NEW i \in Server, Win(i)
      PROVE  VotingInv'
  <2>1. /\ term[i] \in Term \ {0}
        /\ ballots' = ballots /\ term' = term
    BY <1>2 DEF VotingInv, Win
  <2>2. ASSUME NEW l \in leaders'
        PROVE  l \in leaders \/ l = <<term[i], i>>
    BY <1>2, <2>2 DEF Win
  <2>3. \A j, t : IsElected(j, t)' = IsElected(j, t)
    BY <2>1 DEF IsElected
  <2>4. Elected'
    BY <1>2, <2>1, <2>2, <2>3 DEF VotingInv, Win, Elected
  <2> QED
    BY <1>2, <2>1, <2>2, <2>4 DEF VotingInv, Win, OneVote
<1>3. ASSUME NEW i \in Server, NEW t \in Term, Advance(i, t)
      PROVE  VotingInv'
  BY <1>3 DEF VotingInv, Advance, OneVote, Elected, IsElected
<1>4. ASSUME NEW i \in Server, NEW j \in Server, NEW t \in Term, Cast(i, j, t)
      PROVE  VotingInv'
  <2>1. /\ term' \in [Server -> Term]
        /\ leaders' \subseteq Term \X (Server \cup Flagged)
        /\ ballots' \subseteq Term \X Server \X Server
        /\ OneVote'
    BY <1>4 DEF VotingInv, Cast, OneVote
  <2>2. ballots \subseteq ballots'
    BY <1>4 DEF Cast
  <2>3. Elected'
    BY <1>4, <2>2, ElectedStays DEF VotingInv, Cast, Elected
  <2> QED
    BY <2>1, <2>3 DEF VotingInv
<1>5. CASE UNCHANGED vars
  BY <1>5 DEF vars, VotingInv, OneVote, Elected, IsElected
<1> QED
  BY <1>1, <1>2, <1>3, <1>4, <1>5 DEF Next

\* Two leaders of one term would share a voter.
LEMMA ElectedIsUnique ==
    ASSUME WellFormed, VotingInv
    PROVE  OneLeader
<1> SUFFICES ASSUME NEW l1 \in leaders, NEW l2 \in leaders,
                    l1[1] = l2[1]
             PROVE  l1[2] = l2[2]
  BY DEF OneLeader
<1>1. CASE l1[1] = 0
  BY <1>1 DEF WellFormed, VotingInv, Elected
<1>2. CASE l1[1] # 0
  <2> DEFINE Voters(l) == {v \in Server : <<l[1], v, l[2]>> \in ballots}
  <2>1. /\ 2 * Cardinality(Voters(l1)) > Cardinality(Server)
        /\ 2 * Cardinality(Voters(l2)) > Cardinality(Server)
    BY <1>2 DEF VotingInv, Elected, IsElected
  <2>2. PICK v \in Server : v \in Voters(l1) /\ v \in Voters(l2)
    BY <2>1, MajoritiesShare DEF WellFormed
  <2> QED
    BY <2>2 DEF VotingInv, OneVote
<1> QED
  BY <1>1, <1>2

LEMMA VotingInvariant ==
    ASSUME WellFormed
    PROVE  Spec => []VotingInv
<1>1. Init => VotingInv
  BY DEF WellFormed, Init, VotingInv, OneVote, Elected
<1>2. VotingInv /\ [Next]_vars => VotingInv'
  BY VotingStep
<1> QED
  BY <1>1, <1>2, PTL DEF Spec

\* Nobody votes for two candidates in one term (the voted_for check of
\* handle_request_vote), for any servers and any terms.
THEOREM VotesOnce ==
    ASSUME WellFormed
    PROVE  Spec => []OneVote
<1>1. VotingInv => OneVote
  BY DEF VotingInv
<1> QED
  BY <1>1, VotingInvariant, PTL

\* At most one server leads a term: what the majority in request_votes is for.
THEOREM LeadsAlone ==
    ASSUME WellFormed
    PROVE  Spec => []OneLeader
<1>1. VotingInv => OneLeader
  BY ElectedIsUnique
<1> QED
  BY <1>1, VotingInvariant, PTL
=============================================================================
