--------------------------- MODULE ElectionProofs ---------------------------
(***************************************************************************)
(* ElectionSafety of every cluster in which nobody that crashed is started *)
(* again: ElectionInv, together with CoreInv, is an inductive invariant of *)
(* CrashSpec.  With the same invariant such a cluster implements module    *)
(* Voting (the last part).                                                 *)
(***************************************************************************)
EXTENDS CoreProofs, FiniteSetTheorems

\* Crashes without restarts are among the behaviours CoreProofs is about.
LEMMA CrashCoreInvariant == CrashSpec => []CoreInv
<1>1. [NextWithCrashes]_vars => [NextWithRestarts]_vars
  BY DEF NextWithCrashes, NextWithRestarts
<1>2. CoreInv /\ [NextWithCrashes]_vars => CoreInv'
  BY <1>1, NextCore
<1> QED
  BY InitCore, <1>2, PTL DEF CrashSpec

\* What a ballot is made of, and the term of a node.
LEMMA BallotParts ==
    ASSUME CoreInv, NEW b \in ballots
    PROVE  b[1] \in Nat /\ b[2] \in Server /\ b[3] \in Server
<1>1. b \in Terms \X Server \X Server
  BY DEF CoreInv, TypeOK
<1> QED
  BY <1>1, BoundsAssumption DEF Terms

LEMMA TermIsNat == ASSUME CoreInv, NEW i \in Server PROVE currentTerm[i] \in Nat
<1>1. currentTerm[i] \in Terms
  BY DEF CoreInv, TypeOK
<1> QED
  BY <1>1, BoundsAssumption DEF Terms

\* VotesBacked, one node at a time.
LEMMA VotesBackedAt ==
    VotesBacked <=>
      \A i \in Server :
         /\ call[i].op = "votes" => state[i] = "Candidate"
         /\ state[i] = "Candidate" =>
               /\ i \in votesReceived[i]
               /\ \A v \in votesReceived[i] : <<currentTerm[i], v, i>> \in ballots
         /\ Granted(i) => <<currentTerm[i], Callee(i), i>> \in ballots
  BY DEF VotesBacked

\* A node that runs for office was voted for by itself, in an elected term.
LEMMA CandidateTermPositive ==
    ASSUME ElectionInv, NEW i \in Server, state[i] = "Candidate"
    PROVE  currentTerm[i] > 0
<1>1. <<currentTerm[i], i, i>> \in ballots
  BY DEF ElectionInv, VotesBacked
<1> QED
  BY <1>1 DEF ElectionInv, VotesInElectedTerms

\* A step that casts no vote and changes no term and no office preserves
\* ElectionInv, if the tasks it moves are no closer to a vote than before.
LEMMA ElectionUndisturbed ==
    ASSUME ElectionInv, RequestsInElectedTerms',
           UNCHANGED <<state, currentTerm, votedFor, votesReceived, ballots, leaders>>,
           \A i \in Server : call'[i].op = "votes" => call[i].op = "votes",
           \A i \in Server : Granted(i)' => Granted(i) /\ call'[i].k = call[i].k
    PROVE  ElectionInv'
<1>1. VotesInElectedTerms' /\ VoteRemembered' /\ OneVotePerTerm' /\ LeadersElected'
  BY DEF ElectionInv, VotesInElectedTerms, VoteRemembered, OneVotePerTerm,
     LeadersElected
<1>2. VotesBacked'
  <2> SUFFICES ASSUME NEW i \in Server
               PROVE  /\ call'[i].op = "votes" => state[i] = "Candidate"
                      /\ state[i] = "Candidate" =>
                            /\ i \in votesReceived[i]
                            /\ \A v \in votesReceived[i] :
                                  <<currentTerm[i], v, i>> \in ballots
                      /\ Granted(i)' => <<currentTerm[i], Callee(i)', i>> \in ballots
    BY DEF VotesBacked
  <2>1. Granted(i)' => Callee(i)' = Callee(i)
    BY DEF Callee
  <2> QED
    BY <2>1 DEF ElectionInv, VotesBacked
<1> QED
  BY <1>1, <1>2 DEF ElectionInv

\* Nobody asks for votes in the initial term when requests only leave.
LEMMA RequestsLeave ==
    ASSUME RequestsInElectedTerms,
           \A m \in Server : \A n \in 1 .. Len(backlog'[m]) :
              \E p \in 1 .. Len(backlog[m]) :
                 backlog'[m][n].request = backlog[m][p].request
    PROVE  RequestsInElectedTerms'
  BY DEF RequestsInElectedTerms

\* Two steps of that kind: an answer to one connection ...
LEMMA RequestsAnswered ==
    ASSUME CoreInv, ElectionInv, NEW j \in Server, backlog[j] # <<>>,
           backlog' = [backlog EXCEPT ![j] = Tail(@)]
    PROVE  RequestsInElectedTerms'
<1>1. RequestsInElectedTerms /\ TransportInv
  BY CoreParts DEF ElectionInv
<1> QED
  BY <1>1, HeadGoes, RequestsLeave

\* ... and the task of one node going on, with no vote in hand any more.
LEMMA TaskGoesOn ==
    ASSUME CoreInv, ElectionInv, NEW i \in Server, NEW c,
           call' = [call EXCEPT ![i] = c], UNCHANGED backlog,
           c.op = "votes" => call[i].op = "votes",
           c.reply = Unsent,
           UNCHANGED <<state, currentTerm, votedFor, votesReceived, ballots, leaders>>
    PROVE  ElectionInv'
<1>1. \A j \in Server : call'[j] = IF j = i THEN c ELSE call[j]
  BY DEF CoreInv, TypeOK
<1>2. RequestsInElectedTerms'
  BY DEF ElectionInv, RequestsInElectedTerms
<1>3. \A j \in Server : Granted(j)' => Granted(j) /\ call'[j].k = call[j].k
  BY <1>1 DEF Granted, Got, Unsent
<1> QED
  BY <1>1, <1>2, <1>3, ElectionUndisturbed

-----------------------------------------------------------------------------
LEMMA LaunchElection ==
    ASSUME CoreInv, ElectionInv, NEW i \in Server, Launch(i)
    PROVE  ElectionInv'
<1> USE BoundsAssumption
<1> DEFINE c == IF i \in Flagged THEN LoopAt(i, "heartbeats", 1) ELSE Idle
<1>1. currentTerm[i] = 0 /\ Load(store[i]).currentTerm = 0
  <2>1. currentTerm[i] = 0 /\ store[i].currentTerm = currentTerm[i]
    BY DEF Launch, CoreInv, TermOnDisk
  <2> QED
    BY <2>1, SoundStores, LoadSound DEF CoreInv
<1>2. /\ currentTerm' = currentTerm
      /\ votedFor' = [votedFor EXCEPT ![i] = None]
      /\ votesReceived' = [votesReceived EXCEPT ![i] = {}]
      /\ state' = [state EXCEPT ![i] = IF i \in Flagged THEN "Leader" ELSE "Follower"]
      /\ leaders' = IF i \in Flagged THEN leaders \cup {<<0, i>>} ELSE leaders
      /\ call' = [call EXCEPT ![i] = c]
      /\ UNCHANGED <<ballots, backlog>>
  BY <1>1 DEF Launch, Boot, CoreInv, TypeOK
<1>3. c.op # "votes" /\ c.reply = Unsent
  BY LoopAtIsCall DEF Idle, Rounds
<1>4. \A j \in Server : /\ call'[j] = IF j = i THEN c ELSE call[j]
                        /\ j # i => /\ state'[j] = state[j]
                                    /\ votedFor'[j] = votedFor[j]
                                    /\ votesReceived'[j] = votesReceived[j]
  BY <1>2 DEF CoreInv, TypeOK
<1>5. state'[i] # "Candidate"
  BY <1>2 DEF CoreInv, TypeOK
<1> HIDE DEF c
<1>6. RequestsInElectedTerms' /\ VotesInElectedTerms' /\ OneVotePerTerm'
  BY <1>2 DEF ElectionInv, RequestsInElectedTerms, VotesInElectedTerms, OneVotePerTerm
\* Nobody has voted in the initial term.
<1>7. VoteRemembered'
  <2> SUFFICES ASSUME NEW b \in ballots
               PROVE  /\ b[1] <= currentTerm[b[2]]
                      /\ b[1] = currentTerm[b[2]] => votedFor'[b[2]] = b[3]
    BY <1>2 DEF VoteRemembered
  <2>1. b[1] > 0 /\ b[1] <= currentTerm[b[2]] /\ b[1] \in Nat /\ b[2] \in Server
    BY BallotParts DEF ElectionInv, VotesInElectedTerms, VoteRemembered
  <2>2. b[2] # i
    <3> SUFFICES ASSUME b[2] = i PROVE FALSE
      OBVIOUS
    <3>1. b[1] <= 0
      BY <1>1, <2>1
    <3> QED
      BY <2>1, <3>1
  <2> QED
    BY <1>4, <2>1, <2>2 DEF ElectionInv, VoteRemembered
<1>8. VotesBacked'
  <2>1. \A j \in Server : Granted(j)' => j # i /\ Granted(j) /\ Callee(j)' = Callee(j)
    BY <1>3, <1>4 DEF Granted, Got, Callee, Unsent
  <2>2. VotesBacked
    BY DEF ElectionInv
  <2>3. ASSUME NEW j \in Server \ {i}
        PROVE  /\ call'[j].op = "votes" => state'[j] = "Candidate"
               /\ state'[j] = "Candidate" =>
                     /\ j \in votesReceived'[j]
                     /\ \A v \in votesReceived'[j] :
                           <<currentTerm'[j], v, j>> \in ballots'
               /\ Granted(j)' => <<currentTerm'[j], Callee(j)', j>> \in ballots'
    BY <1>2, <1>4, <2>1, <2>2, VotesBackedAt
  <2>4. call'[i].op # "votes" /\ state'[i] # "Candidate" /\ ~Granted(i)'
    BY <1>3, <1>4, <1>5, <2>1
  <2> QED
    BY <2>3, <2>4 DEF VotesBacked
<1>9. LeadersElected'
  BY <1>2 DEF ElectionInv, LeadersElected
<1> QED
  BY <1>6, <1>7, <1>8, <1>9 DEF ElectionInv

\* A vote nobody of the term was given yet keeps the votes of a term unique.
LEMMA VoteCast ==
    ASSUME ElectionInv, NEW term \in Int, NEW voter, NEW candidate,
           ballots' = ballots \cup {<<term, voter, candidate>>},
           \A b \in ballots : b[1] = term /\ b[2] = voter => b[3] = candidate
    PROVE  OneVotePerTerm'
  BY DEF ElectionInv, OneVotePerTerm

LEMMA StartElectionElection ==
    ASSUME CoreInv, ElectionInv, NEW i \in Server, StartElection(i)
    PROVE  ElectionInv'
<1> USE BoundsAssumption
<1> DEFINE term == currentTerm[i] + 1
           c == LoopAt(i, "votes", 1)
<1>1. /\ currentTerm' = [currentTerm EXCEPT ![i] = term]
      /\ ballots' = ballots \cup {<<term, i, i>>}
      /\ state' = [state EXCEPT ![i] = "Candidate"]
      /\ votedFor' = [votedFor EXCEPT ![i] = i]
      /\ votesReceived' = [votesReceived EXCEPT ![i] = {i}]
      /\ call' = [call EXCEPT ![i] = c]
      /\ UNCHANGED <<leaders, backlog>>
  BY DEF StartElection
<1>2. \A j \in Server :
         /\ call'[j] = IF j = i THEN c ELSE call[j]
         /\ currentTerm'[j] = IF j = i THEN term ELSE currentTerm[j]
         /\ state'[j] = IF j = i THEN "Candidate" ELSE state[j]
         /\ votedFor'[j] = IF j = i THEN i ELSE votedFor[j]
         /\ votesReceived'[j] = IF j = i THEN {i} ELSE votesReceived[j]
  BY <1>1 DEF CoreInv, TypeOK
<1>3. c.reply = Unsent
  BY LoopAtIsCall DEF Rounds
<1>4. currentTerm[i] \in Nat /\ term > 0 /\ term \in Int
  BY DEF CoreInv, TypeOK, Terms
<1> HIDE DEF c
<1>5. ASSUME NEW b \in ballots
      PROVE  /\ b[2] \in Server /\ b[1] \in Nat
             /\ b[1] <= currentTerm[b[2]]
             /\ b[2] = i => b[1] < term
  <2>1. b[2] \in Server /\ b[1] \in Nat
    BY BallotParts
  <2>2. b[1] <= currentTerm[b[2]]
    BY DEF ElectionInv, VoteRemembered
  <2>3. ASSUME b[2] = i PROVE b[1] < term
    <3>1. b[1] <= currentTerm[i]
      BY <2>2, <2>3
    <3> QED
      BY <1>4, <2>1, <3>1
  <2> QED
    BY <2>1, <2>2, <2>3
<1>6. RequestsInElectedTerms' /\ VotesInElectedTerms'
  BY <1>1, <1>4 DEF ElectionInv, RequestsInElectedTerms, VotesInElectedTerms
<1>7. VoteRemembered'
  <2> SUFFICES ASSUME NEW b \in ballots'
               PROVE  /\ b[1] <= currentTerm'[b[2]]
                      /\ b[1] = currentTerm'[b[2]] => votedFor'[b[2]] = b[3]
    BY DEF VoteRemembered
  <2>1. CASE b = <<term, i, i>>
    BY <1>2, <1>4, <2>1
  <2>2. CASE b \in ballots /\ b[2] = i
    BY <1>2, <1>4, <1>5, <2>2
  <2>3. CASE b \in ballots /\ b[2] # i
    BY <1>2, <1>5, <2>3 DEF ElectionInv, VoteRemembered
  <2> QED
    BY <1>1, <2>1, <2>2, <2>3
<1>8. OneVotePerTerm'
  <2>1. ASSUME NEW b \in ballots, b[1] = term, b[2] = i PROVE FALSE
    <3>1. b[1] < term /\ b[1] \in Nat
      BY <1>5, <2>1
    <3> QED
      BY <1>4, <2>1, <3>1
  <2> HIDE DEF term
  <2> QED
    BY <1>1, <1>4, <2>1, VoteCast
<1>9. VotesBacked'
  <2>1. \A j \in Server : Granted(j)' => j # i /\ Granted(j) /\ Callee(j)' = Callee(j)
    BY <1>2, <1>3 DEF Granted, Got, Callee, Unsent
  <2>2. \A b \in ballots : b \in ballots'
    BY <1>1
  <2>3. <<term, i, i>> \in ballots'
    BY <1>1
  <2>4. VotesBacked
    BY DEF ElectionInv
  <2>5. ASSUME NEW j \in Server \ {i}
        PROVE  /\ call'[j].op = "votes" => state'[j] = "Candidate"
               /\ state'[j] = "Candidate" =>
                     /\ j \in votesReceived'[j]
                     /\ \A v \in votesReceived'[j] :
                           <<currentTerm'[j], v, j>> \in ballots'
               /\ Granted(j)' => <<currentTerm'[j], Callee(j)', j>> \in ballots'
    BY <1>2, <2>1, <2>2, <2>4, VotesBackedAt
  <2>6. /\ state'[i] = "Candidate" /\ ~Granted(i)'
        /\ votesReceived'[i] = {i} /\ currentTerm'[i] = term
    BY <1>2, <2>1
  <2> QED
    BY <2>3, <2>5, <2>6 DEF VotesBacked
<1>10. LeadersElected'
  BY <1>1 DEF ElectionInv, LeadersElected
<1> QED
  BY <1>6, <1>7, <1>8, <1>9, <1>10 DEF ElectionInv

\* A vote in hand is one of the candidate's, and so are the ones it counted.
LEMMA VoteInHand ==
    ASSUME CoreInv, ElectionInv, NEW i \in Server, Granted(i)
    PROVE  /\ state[i] = "Candidate" /\ Callee(i) \in Server
           /\ currentTerm[i] > 0
           /\ i \in votesReceived[i]
           /\ \A v \in votesReceived[i] \cup {Callee(i)} :
                 <<currentTerm[i], v, i>> \in ballots
<1>1. state[i] = "Candidate"
  BY DEF ElectionInv, VotesBacked, Granted, Got
<1>2. Callee(i) \in Server
  BY AnswerInHand DEF Granted, Rounds
<1> QED
  BY <1>1, <1>2, CandidateTermPositive DEF ElectionInv, VotesBacked

\* What Majority counts is more than half of the cluster.
LEMMA MajorityIsMajority ==
    ASSUME NEW i \in Server, NEW votes \in SUBSET Server, Majority(i, votes)
    PROVE  2 * Cardinality(votes) > Cardinality(Server)
<1>1. Cardinality(Server) \in Nat /\ Cardinality(votes) \in Nat
  BY ServerAssumption, FS_Subset, FS_CardinalityType
<1>2. Len(Peers[i]) + 1 = Cardinality(Server)
  BY PeersAssumption
<1>3. Cardinality(votes) > Cardinality(Server) \div 2
  BY <1>2 DEF Majority
<1> QED
  BY <1>1, <1>3

LEMMA WinElectionElection ==
    ASSUME CoreInv, ElectionInv, NEW i \in Server, WinElection(i)
    PROVE  ElectionInv'
<1> DEFINE votes == votesReceived[i] \cup {Callee(i)}
<1>1. /\ votesReceived' = [votesReceived EXCEPT ![i] = votes]
      /\ state' = [state EXCEPT ![i] = "Leader"]
      /\ leaders' = leaders \cup {<<currentTerm[i], i>>}
      /\ call' = [call EXCEPT ![i] = Idle]
      /\ UNCHANGED <<currentTerm, votedFor, ballots, backlog>>
      /\ Granted(i) /\ Majority(i, votes)
  BY DEF WinElection
<1>2. /\ currentTerm[i] > 0 /\ votes \in SUBSET Server
      /\ \A v \in votes : <<currentTerm[i], v, i>> \in ballots
  BY <1>1, VoteInHand DEF CoreInv, TypeOK
<1>3. 2 * Cardinality(votes) > Cardinality(Server)
  BY <1>1, <1>2, MajorityIsMajority
<1> HIDE DEF votes
<1>4. /\ RequestsInElectedTerms' /\ VotesInElectedTerms'
      /\ VoteRemembered' /\ OneVotePerTerm'
  BY <1>1 DEF ElectionInv, RequestsInElectedTerms, VotesInElectedTerms,
     VoteRemembered, OneVotePerTerm
<1>5. \A j \in Server :
         /\ call'[j] = IF j = i THEN Idle ELSE call[j]
         /\ state'[j] = IF j = i THEN "Leader" ELSE state[j]
         /\ j # i => votesReceived'[j] = votesReceived[j]
  BY <1>1 DEF CoreInv, TypeOK
<1>6. VotesBacked'
  <2>1. VotesBacked
    BY DEF ElectionInv
  <2>2. \A j \in Server : Granted(j)' => j # i /\ Granted(j) /\ Callee(j)' = Callee(j)
    BY <1>5 DEF Granted, Got, Callee, Idle
  <2>3. ASSUME NEW j \in Server \ {i}
        PROVE  /\ call'[j].op = "votes" => state'[j] = "Candidate"
               /\ state'[j] = "Candidate" =>
                     /\ j \in votesReceived'[j]
                     /\ \A v \in votesReceived'[j] :
                           <<currentTerm'[j], v, j>> \in ballots'
               /\ Granted(j)' => <<currentTerm'[j], Callee(j)', j>> \in ballots'
    BY <1>1, <1>5, <2>1, <2>2, VotesBackedAt
  <2>4. call'[i].op # "votes" /\ state'[i] # "Candidate" /\ ~Granted(i)'
    BY <1>5, <2>2 DEF Idle
  <2> QED
    BY <2>3, <2>4 DEF VotesBacked
<1>7. LeadersElected'
  <2> SUFFICES ASSUME NEW l \in leaders'
               PROVE  \/ l[1] = 0 /\ l[2] \in Flagged
                      \/ /\ l[1] > 0
                         /\ \E backers \in SUBSET Server :
                               /\ 2 * Cardinality(backers) > Cardinality(Server)
                               /\ \A v \in backers : <<l[1], v, l[2]>> \in ballots
    BY <1>1 DEF LeadersElected
  <2>1. CASE l \in leaders
    BY <2>1 DEF ElectionInv, LeadersElected
  <2>2. CASE l = <<currentTerm[i], i>>
    BY <1>2, <1>3, <2>2
  <2> QED
    BY <1>1, <2>1, <2>2
<1> QED
  BY <1>4, <1>6, <1>7 DEF ElectionInv

LEMMA CollectVoteElection ==
    ASSUME CoreInv, ElectionInv, NEW i \in Server, CollectVote(i)
    PROVE  ElectionInv'
<1> DEFINE votes == votesReceived[i] \cup {Callee(i)}
           c == LoopAt(i, call[i].op, call[i].k + 1)
<1>1. /\ votesReceived' = [votesReceived EXCEPT ![i] = votes]
      /\ call' = [call EXCEPT ![i] = c]
      /\ UNCHANGED <<state, currentTerm, votedFor, ballots, leaders, backlog>>
      /\ Granted(i)
  BY DEF CollectVote, Proceed, historyVars
<1>2. /\ state[i] = "Candidate" /\ i \in votes
      /\ \A v \in votes : <<currentTerm[i], v, i>> \in ballots
  BY <1>1, VoteInHand
<1>3. c.reply = Unsent
  BY <1>1, AnswerInHand DEF Granted, Rounds
<1> HIDE DEF votes, c
<1>4. /\ RequestsInElectedTerms' /\ VotesInElectedTerms'
      /\ VoteRemembered' /\ OneVotePerTerm' /\ LeadersElected'
  BY <1>1 DEF ElectionInv, RequestsInElectedTerms, VotesInElectedTerms,
     VoteRemembered, OneVotePerTerm, LeadersElected
<1>5. \A j \in Server :
         /\ call'[j] = IF j = i THEN c ELSE call[j]
         /\ votesReceived'[j] = IF j = i THEN votes ELSE votesReceived[j]
  BY <1>1 DEF CoreInv, TypeOK
<1>6. VotesBacked'
  <2>1. VotesBacked
    BY DEF ElectionInv
  <2>2. \A j \in Server : Granted(j)' => j # i /\ Granted(j) /\ Callee(j)' = Callee(j)
    BY <1>3, <1>5 DEF Granted, Got, Callee, Unsent
  <2>3. ASSUME NEW j \in Server \ {i}
        PROVE  /\ call'[j].op = "votes" => state'[j] = "Candidate"
               /\ state'[j] = "Candidate" =>
                     /\ j \in votesReceived'[j]
                     /\ \A v \in votesReceived'[j] :
                           <<currentTerm'[j], v, j>> \in ballots'
               /\ Granted(j)' => <<currentTerm'[j], Callee(j)', j>> \in ballots'
    BY <1>1, <1>5, <2>1, <2>2, VotesBackedAt
  <2>4. /\ state'[i] = "Candidate" /\ ~Granted(i)' /\ votesReceived'[i] = votes
        /\ currentTerm'[i] = currentTerm[i] /\ ballots' = ballots
    BY <1>1, <1>2, <1>5, <2>2
  <2> QED
    BY <1>2, <2>3, <2>4 DEF VotesBacked
<1> QED
  BY <1>4, <1>6 DEF ElectionInv

-----------------------------------------------------------------------------
(* Steps that leave elections alone *)

LEMMA TaskElection ==
    ASSUME CoreInv, ElectionInv, NEW i \in Server,
           \/ NoVote(i) \/ HeartbeatAnswered(i) \/ SkipPeer(i)
           \/ ReplicationSucceeded(i) \/ ReplicationRejected(i)
           \/ ReplicationFailed(i)
    PROVE  ElectionInv'
<1> DEFINE c == LoopAt(i, call[i].op, call[i].k + 1)
<1>1. /\ call' = [call EXCEPT ![i] = c]
      /\ UNCHANGED <<state, currentTerm, votedFor, votesReceived, ballots,
                     leaders, backlog>>
  BY DEF Proceed, NoVote, HeartbeatAnswered, SkipPeer, ReplicationSucceeded,
     ReplicationRejected, ReplicationFailed, electionVars, historyVars
<1>2. c.reply = Unsent /\ (c.op = "votes" => call[i].op = "votes")
  BY DEF LoopAt, Idle
<1> HIDE DEF c
<1> QED
  BY <1>1, <1>2, TaskGoesOn

LEMMA RoundElection ==
    ASSUME CoreInv, ElectionInv, NEW i \in Server,
           \/ StartHeartbeats(i) \/ FinishAppend(i)
           \/ \E command \in Command : ClientAppend(i, command)
    PROVE  ElectionInv'
<1>1. PICK c \in {Idle, LoopAt(i, "heartbeats", 1), LoopAt(i, "replicate", 1)} :
         /\ call' = [call EXCEPT ![i] = c]
         /\ UNCHANGED <<state, currentTerm, votedFor, votesReceived, ballots,
                        leaders, backlog>>
  BY DEF StartHeartbeats, FinishAppend, ClientAppend, electionVars, historyVars
<1>2. c.reply = Unsent /\ c.op # "votes"
  BY <1>1 DEF LoopAt, Idle
<1> QED
  BY <1>1, <1>2, TaskGoesOn

LEMMA SendElection ==
    ASSUME CoreInv, ElectionInv, NEW i \in Server, Send(i)
    PROVE  ElectionInv'
<1>1. /\ UNCHANGED <<state, currentTerm, votedFor, votesReceived, ballots, leaders>>
      /\ call[i].op \in Rounds /\ call[i].k \in 1 .. Len(Peers[i])
  BY DEF Send, AtPeer, electionVars, historyVars
<1>2. PICK reply \in {Pending, Failed} : call' = [call EXCEPT ![i].reply = reply]
  BY DEF Send
<1>3. \A j \in Server : /\ call'[j].op = call[j].op /\ call'[j].k = call[j].k
                        /\ call'[j].reply = IF j = i THEN reply ELSE call[j].reply
  BY <1>2, ReplyArrives DEF CoreInv, TypeOK, Response
<1>4. \A j \in Server : Granted(j)' => Granted(j) /\ call'[j].k = call[j].k
  BY <1>3 DEF Granted, Got, Pending, Failed
<1>5. RequestsInElectedTerms'
  <2>1. CASE UNCHANGED backlog
    BY <2>1 DEF ElectionInv, RequestsInElectedTerms
  <2>2. CASE backlog' = [backlog EXCEPT ![Callee(i)] =
                 Append(@, [from |-> i, request |-> RequestOf(i), live |-> TRUE])]
    <3> DEFINE new == [from |-> i, request |-> RequestOf(i), live |-> TRUE]
               peer == Callee(i)
    <3>1. RequestOf(i).type = "RequestVote" => RequestOf(i).term > 0
      <4>1. CASE call[i].op = "votes"
        <5>1. currentTerm[i] > 0
          BY <4>1, CandidateTermPositive DEF ElectionInv, VotesBacked
        <5> QED
          BY <4>1, <5>1 DEF RequestOf, RequestVote
      <4>2. CASE call[i].op = "heartbeats" \/ call[i].op = "replicate"
        BY <4>2 DEF RequestOf, AppendEntriesTo
      <4> QED
        BY <1>1, <4>1, <4>2 DEF Rounds
    <3>2. /\ peer \in Server /\ backlog \in [Server -> Seq(Connection)]
          /\ backlog' = [backlog EXCEPT ![peer] = Append(@, new)]
      BY <1>1, <2>2, PeerIsServer DEF Callee, CoreInv, TypeOK
    <3>3. new.request = RequestOf(i)
      OBVIOUS
    <3> HIDE DEF new, peer
    <3> SUFFICES ASSUME NEW m \in Server, NEW n \in 1 .. Len(backlog'[m]),
                        backlog'[m][n].request.type = "RequestVote"
                 PROVE  backlog'[m][n].request.term > 0
      BY DEF RequestsInElectedTerms
    <3>4. CASE n \in 1 .. Len(backlog[m]) /\ backlog'[m][n] = backlog[m][n]
      BY <3>4 DEF ElectionInv, RequestsInElectedTerms
    <3>5. CASE backlog'[m][n] = new
      BY <3>1, <3>3, <3>5
    <3>6. \/ n \in 1 .. Len(backlog[m]) /\ backlog'[m][n] = backlog[m][n]
          \/ backlog'[m][n] = new
      <4>1. CASE m = peer
        <5>1. backlog'[m] = Append(backlog[m], new) /\ backlog[m] \in Seq(Connection)
          BY <3>2, <4>1
        <5> QED
          BY <5>1
      <4>2. CASE m # peer
        BY <3>2, <4>2
      <4> QED
        BY <4>1, <4>2
    <3> QED
      BY <3>4, <3>5, <3>6
  <2> QED
    BY <2>1, <2>2 DEF Send
<1> QED
  BY <1>1, <1>3, <1>4, <1>5, ElectionUndisturbed

\* A broken connection gives its caller an error.
LEMMA BreakElection ==
    ASSUME CoreInv, ElectionInv, NEW i \in Server, Break(i)
    PROVE  ElectionInv'
<1> DEFINE peer == Callee(i)
<1>1. /\ UNCHANGED <<state, currentTerm, votedFor, votesReceived, ballots, leaders>>
      /\ call' = [call EXCEPT ![i].reply = Failed]
      /\ backlog' = [backlog EXCEPT ![peer] = Abandoned(@, i)]
  BY DEF Break, electionVars, historyVars
<1> HIDE DEF peer
<1>2. \A j \in Server : /\ call'[j].op = call[j].op /\ call'[j].k = call[j].k
                        /\ call'[j].reply = IF j = i THEN Failed ELSE call[j].reply
  BY <1>1, ReplyArrives DEF CoreInv, TypeOK, Response
<1>3. \A j \in Server : Granted(j)' => Granted(j) /\ call'[j].k = call[j].k
  BY <1>2 DEF Granted, Got, Failed
<1>4. ASSUME NEW m \in Server, NEW n \in 1 .. Len(backlog'[m])
      PROVE  \E p \in 1 .. Len(backlog[m]) :
                backlog'[m][n].request = backlog[m][p].request
  <2>1. backlog[m] \in Seq(Connection)
    BY DEF CoreInv, TypeOK
  <2>2. backlog'[m] \in {backlog[m], Abandoned(backlog[m], i)}
    BY <1>1 DEF CoreInv, TypeOK
  <2>3. n \in 1 .. Len(backlog[m])
    BY <2>1, <2>2, AbandonedBacklog
  <2>4. backlog'[m][n].request = backlog[m][n].request
    BY <2>1, <2>2, <2>3, AbandonedBacklog
  <2> QED
    BY <2>3, <2>4
<1>5. RequestsInElectedTerms'
  BY <1>4, RequestsLeave DEF ElectionInv
<1> QED
  BY <1>1, <1>2, <1>3, <1>5, ElectionUndisturbed

LEMMA DropElection ==
    ASSUME CoreInv, ElectionInv, NEW j \in Server, DropConnection(j)
    PROVE  ElectionInv'
<1>1. /\ UNCHANGED <<state, currentTerm, votedFor, votesReceived, ballots, leaders,
                     call>>
      /\ backlog[j] # <<>>
      /\ backlog' = [backlog EXCEPT ![j] = Tail(@)]
  BY DEF DropConnection, electionVars, historyVars
<1>2. \A i \in Server : Granted(i)' => Granted(i) /\ call'[i].k = call[i].k
  BY <1>1 DEF Granted, Got
<1> QED
  BY <1>1, <1>2, RequestsAnswered, ElectionUndisturbed

-----------------------------------------------------------------------------
(* The handlers *)

\* Adopting a term forgets no vote of that term, and unmakes a candidate.
LEMMA AdoptedTermElection ==
    ASSUME CoreInv, ElectionInv, NEW j \in Server, NEW term \in Terms,
           AdoptTerm(j, term)
    PROVE  /\ TermAfter(j, term) \in Nat
           /\ \A i \in Server : currentTerm'[i] = IF i = j THEN TermAfter(j, term)
                                                   ELSE currentTerm[i]
           /\ \A i \in Server : state'[i] = "Candidate" =>
                 state[i] = "Candidate" /\ currentTerm'[i] = currentTerm[i]
           /\ \A i \in Server \ {j} : state'[i] = state[i]
           /\ \A b \in ballots : b[2] = j =>
                 /\ b[1] <= TermAfter(j, term)
                 /\ b[1] = TermAfter(j, term) => VoteAfter(j, term) = b[3]
<1>1. currentTerm[j] \in Nat /\ term \in Nat
  BY TermIsNat, BoundsAssumption DEF Terms
<1>2. TermAfter(j, term) \in Nat
  BY <1>1 DEF TermAfter
<1>3. \A i \in Server : currentTerm'[i] = IF i = j THEN TermAfter(j, term)
                                          ELSE currentTerm[i]
  BY DEF AdoptTerm, CoreInv, TypeOK
<1>4. \A i \in Server : state'[i] = IF i = j /\ IsNewer(j, term) THEN "Follower"
                                    ELSE state[i]
  BY DEF AdoptTerm, CoreInv, TypeOK
<1>5. ASSUME NEW i \in Server, state'[i] = "Candidate"
      PROVE  state[i] = "Candidate" /\ currentTerm'[i] = currentTerm[i]
  BY <1>3, <1>4, <1>5 DEF TermAfter
<1>6. ASSUME NEW b \in ballots, b[2] = j
      PROVE  /\ b[1] <= TermAfter(j, term)
             /\ b[1] = TermAfter(j, term) => VoteAfter(j, term) = b[3]
  <2>1. /\ b[1] \in Nat /\ b[1] <= currentTerm[j]
        /\ b[1] = currentTerm[j] => votedFor[j] = b[3]
    BY <1>6, BallotParts DEF ElectionInv, VoteRemembered
  <2>2. CASE IsNewer(j, term)
    BY <1>1, <2>1, <2>2 DEF IsNewer, TermAfter
  <2>3. CASE ~IsNewer(j, term)
    BY <2>1, <2>3 DEF TermAfter, VoteAfter
  <2> QED
    BY <2>2, <2>3
<1> QED
  BY <1>2, <1>3, <1>4, <1>5, <1>6

\* An answer sent by j: what it does to the tasks.
LEMMA AnswerGiven ==
    ASSUME CoreInv, NEW j \in Server, NEW reply,
           call[j].op = "idle", backlog[j] # <<>>, Answer(j, reply)
    PROVE  /\ backlog' = [backlog EXCEPT ![j] = Tail(@)]
           /\ \A i \in Server : call'[i].op = call[i].op /\ call'[i].k = call[i].k
           /\ \A i \in Server :
                 \/ call'[i].reply = call[i].reply
                 \/ /\ call'[i].reply = reply /\ i # j
                    /\ Head(backlog[j]).from = i /\ Head(backlog[j]).live
                    /\ IsAwaited(Head(backlog[j]), j)
<1> DEFINE head == Head(backlog[j])
<1>1. backlog[j] \in Seq(Connection) /\ call \in [Server -> Call]
  BY DEF CoreInv, TypeOK
<1>2. head = backlog[j][1] /\ 1 \in 1 .. Len(backlog[j])
  BY <1>1, TailOfBacklog
<1>3. head.from \in Server /\ head.live \in BOOLEAN
  BY <1>1, <1>2, ConnectionAt
<1>4. /\ backlog' = [backlog EXCEPT ![j] = Tail(@)]
      /\ head.live => call' = [call EXCEPT ![head.from].reply = reply]
      /\ ~head.live => call' = call
  BY DEF Answer
<1>5. head.live => IsAwaited(head, j)
  BY <1>2 DEF CoreInv, LiveConnections
<1>6. head.live => head.from # j
  <2>1. call[j].reply # Pending
    <3>1. ~InRound(j)
      BY DEF InRound, Rounds
    <3> QED
      BY <3>1, IdleWaitsForNobody
  <2> QED
    BY <1>5, <2>1 DEF IsAwaited, AwaitsReplyFrom
<1> HIDE DEF head
<1>7. CASE head.live
  <2>1. call[head.from] \in Call
    BY <1>1, <1>3
  <2>2. call' = [call EXCEPT ![head.from] = [call[head.from] EXCEPT !.reply = reply]]
    BY <1>4, <1>7
  <2>3. /\ call'[head.from].op = call[head.from].op
        /\ call'[head.from].k = call[head.from].k
        /\ call'[head.from].reply = reply
    BY <1>1, <1>3, <2>1, <2>2 DEF Call
  <2>4. \A i \in Server \ {head.from} : call'[i] = call[i]
    BY <1>1, <2>2
  <2> QED
    BY <1>4, <1>5, <1>6, <1>7, <2>3, <2>4 DEF head
<1>8. CASE ~head.live
  BY <1>4, <1>8
<1> QED
  BY <1>3, <1>7, <1>8

LEMMA HandleRequestVoteElection ==
    ASSUME CoreInv, ElectionInv, NEW j \in Server, HandleRequestVote(j)
    PROVE  ElectionInv'
<1> DEFINE m == Request(j)
           granted == GrantsVote(j, m)
           term == TermAfter(j, m.term)
           reply == [type        |-> "RequestVoteResponse",
                     term        |-> term,
                     voteGranted |-> granted]
<1>1. Accepts(j, "RequestVote") /\ call[j].op = "idle" /\ backlog[j] # <<>>
  BY DEF HandleRequestVote, Accepts
<1>2. m.term \in Terms /\ m.candidateId \in Server /\ m.type = "RequestVote"
  BY <1>1, RequestTyped DEF RequestVoteRequest
<1>3. m.term > 0
  <2>1. backlog[j] \in Seq(Connection)
    BY DEF CoreInv, TypeOK
  <2>2. m = backlog[j][1].request /\ 1 \in 1 .. Len(backlog[j])
    BY <1>1, <2>1, TailOfBacklog DEF Request
  <2> QED
    BY <1>2, <2>2 DEF ElectionInv, RequestsInElectedTerms
<1>4. /\ AdoptTerm(j, m.term)
      /\ votedFor' = [votedFor EXCEPT ![j] = IF granted THEN m.candidateId
                                             ELSE VoteAfter(j, m.term)]
      /\ ballots' = IF granted THEN ballots \cup {<<m.term, j, m.candidateId>>}
                               ELSE ballots
      /\ Answer(j, reply)
      /\ UNCHANGED <<votesReceived, leaders>>
  BY DEF HandleRequestVote
<1>5. m.term \in Nat /\ term \in Nat
  BY <1>2, <1>4, AdoptedTermElection, BoundsAssumption DEF Terms
<1>6. granted => m.term = term /\ VoteAfter(j, m.term) \in {None, m.candidateId}
  <2>1. currentTerm[j] \in Nat
    BY TermIsNat
  <2> QED
    BY <1>5, <2>1 DEF GrantsVote, TermAfter, IsNewer
<1>7. /\ reply.type = "RequestVoteResponse" /\ (reply.voteGranted <=> granted)
  OBVIOUS
<1> HIDE DEF granted, reply
<1>8. /\ \A b \in ballots : b[2] = j =>
            b[1] <= term /\ (b[1] = term => VoteAfter(j, m.term) = b[3])
      /\ \A i \in Server : currentTerm'[i] = IF i = j THEN term ELSE currentTerm[i]
      /\ \A i \in Server : state'[i] = "Candidate" =>
            state[i] = "Candidate" /\ currentTerm'[i] = currentTerm[i]
      /\ \A i \in Server \ {j} : state'[i] = state[i]
  BY <1>2, <1>4, AdoptedTermElection
<1>9. /\ backlog' = [backlog EXCEPT ![j] = Tail(@)]
      /\ \A i \in Server : call'[i].op = call[i].op /\ call'[i].k = call[i].k
      /\ \A i \in Server :
            \/ call'[i].reply = call[i].reply
            \/ /\ call'[i].reply = reply /\ i # j
               /\ Head(backlog[j]).from = i
               /\ IsAwaited(Head(backlog[j]), j)
  BY <1>1, <1>4, AnswerGiven
<1> HIDE DEF term
<1>10. \A i \in Server : votedFor'[i] = IF i # j THEN votedFor[i]
                                        ELSE IF granted THEN m.candidateId
                                        ELSE VoteAfter(j, m.term)
  BY <1>4 DEF CoreInv, TypeOK
\* A vote of this term that j has cast before was for the same candidate.
<1>11. ASSUME granted, NEW b \in ballots, b[1] = term, b[2] = j
       PROVE  b[3] = m.candidateId
  <2>1. VoteAfter(j, m.term) = b[3] /\ b[3] \in Server
    BY <1>8, <1>11, BallotParts
  <2> QED
    BY <1>6, <1>11, <2>1, ServerAssumption
<1>12. RequestsInElectedTerms'
  BY <1>1, <1>9, RequestsAnswered
<1>13. VotesInElectedTerms'
  <2> HIDE DEF m
  <2> QED
    BY <1>3, <1>4 DEF ElectionInv, VotesInElectedTerms
<1>14. VoteRemembered'
  <2> SUFFICES ASSUME NEW b \in ballots'
               PROVE  /\ b[1] <= currentTerm'[b[2]]
                      /\ b[1] = currentTerm'[b[2]] => votedFor'[b[2]] = b[3]
    BY DEF VoteRemembered
  <2>1. CASE granted /\ b = <<m.term, j, m.candidateId>>
    BY <1>5, <1>6, <1>8, <1>10, <2>1
  <2>2. CASE b \in ballots /\ b[2] = j
    BY <1>6, <1>8, <1>10, <1>11, <2>2
  <2>3. CASE b \in ballots /\ b[2] # j
    BY <1>8, <1>10, <2>3, BallotParts DEF ElectionInv, VoteRemembered
  <2> QED
    BY <1>4, <2>1, <2>2, <2>3
<1>15. OneVotePerTerm'
  <2>1. CASE ~granted
    BY <1>4, <2>1 DEF ElectionInv, OneVotePerTerm
  <2>2. CASE granted
    <3>1. \A b \in ballots : b[1] = m.term /\ b[2] = j => b[3] = m.candidateId
      BY <1>6, <1>11, <2>2
    <3> HIDE DEF m
    <3> QED
      BY <1>4, <1>5, <2>2, <3>1, VoteCast
  <2> QED
    BY <2>1, <2>2
<1>16. VotesBacked'
  <2>1. \A b \in ballots : b \in ballots'
    BY <1>4
  <2> SUFFICES ASSUME NEW i \in Server
               PROVE  /\ call'[i].op = "votes" => state'[i] = "Candidate"
                      /\ state'[i] = "Candidate" =>
                            /\ i \in votesReceived[i]
                            /\ \A v \in votesReceived[i] :
                                  <<currentTerm'[i], v, i>> \in ballots'
                      /\ Granted(i)' => <<currentTerm'[i], Callee(i)', i>> \in ballots'
    BY <1>4 DEF VotesBacked
  <2>2. call'[i].op = "votes" => i # j /\ state'[i] = "Candidate"
    BY <1>1, <1>8, <1>9 DEF ElectionInv, VotesBacked
  <2>3. state'[i] = "Candidate" =>
           /\ i \in votesReceived[i]
           /\ \A v \in votesReceived[i] : <<currentTerm'[i], v, i>> \in ballots'
    BY <1>8, <2>1 DEF ElectionInv, VotesBacked
  <2>4. ASSUME Granted(i)'
        PROVE  <<currentTerm'[i], Callee(i)', i>> \in ballots'
    <3>1. /\ call'[i].op = "votes" /\ i # j
          /\ call'[i].reply.type = "RequestVoteResponse" /\ call'[i].reply.voteGranted
          /\ currentTerm'[i] = currentTerm[i] /\ Callee(i)' = Callee(i)
      BY <1>8, <1>9, <2>2, <2>4 DEF Granted, Got, Callee
    <3>2. CASE call'[i].reply = call[i].reply
      <4>1. Granted(i)
        BY <1>9, <3>1, <3>2 DEF Granted, Got
      <4> QED
        BY <2>1, <3>1, <4>1 DEF ElectionInv, VotesBacked
    <3>3. CASE /\ call'[i].reply = reply
               /\ Head(backlog[j]).from = i /\ IsAwaited(Head(backlog[j]), j)
      <4>1. granted
        BY <1>7, <3>1, <3>3
      <4>2. Callee(i) = j /\ m.candidateId = i /\ m.term = currentTerm[i]
        BY <1>2, <3>3 DEF IsAwaited, AwaitsReplyFrom, Request
      <4> QED
        BY <1>4, <3>1, <4>1, <4>2
    <3> QED
      BY <1>9, <3>2, <3>3
  <2> QED
    BY <2>2, <2>3, <2>4
<1>17. LeadersElected'
  BY <1>4 DEF ElectionInv, LeadersElected
<1> QED
  BY <1>12, <1>13, <1>14, <1>15, <1>16, <1>17 DEF ElectionInv

\* A node adopts a term and casts no vote, and no task comes closer to a vote.
LEMMA OnlyTermElection ==
    ASSUME CoreInv, ElectionInv, NEW j \in Server, NEW t \in Terms,
           AdoptTerm(j, t),
           votedFor' = [votedFor EXCEPT ![j] = VoteAfter(j, t)],
           UNCHANGED <<votesReceived, ballots, leaders>>,
           RequestsInElectedTerms',
           \A i \in Server : call'[i].op = "votes" => call[i].op = "votes" /\ i # j,
           \A i \in Server : Granted(i)' => Granted(i) /\ call'[i].k = call[i].k
    PROVE  ElectionInv'
<1> DEFINE term == TermAfter(j, t)
<1>1. /\ \A b \in ballots : b[2] = j =>
            b[1] <= term /\ (b[1] = term => VoteAfter(j, t) = b[3])
      /\ \A i \in Server : currentTerm'[i] = IF i = j THEN term ELSE currentTerm[i]
      /\ \A i \in Server : state'[i] = "Candidate" =>
            state[i] = "Candidate" /\ currentTerm'[i] = currentTerm[i]
      /\ \A i \in Server \ {j} : state'[i] = state[i]
  BY AdoptedTermElection
<1> HIDE DEF term
<1>2. \A i \in Server : votedFor'[i] = IF i # j THEN votedFor[i] ELSE VoteAfter(j, t)
  BY DEF CoreInv, TypeOK
<1>3. VotesInElectedTerms' /\ OneVotePerTerm' /\ LeadersElected'
  BY DEF ElectionInv, VotesInElectedTerms, OneVotePerTerm, LeadersElected
<1>4. VoteRemembered'
  <2> SUFFICES ASSUME NEW b \in ballots
               PROVE  /\ b[1] <= currentTerm'[b[2]]
                      /\ b[1] = currentTerm'[b[2]] => votedFor'[b[2]] = b[3]
    BY DEF VoteRemembered
  <2>1. CASE b[2] = j
    BY <1>1, <1>2, <2>1
  <2>2. CASE b[2] # j
    BY <1>1, <1>2, <2>2, BallotParts DEF ElectionInv, VoteRemembered
  <2> QED
    BY <2>1, <2>2
<1>5. VotesBacked'
  <2> SUFFICES ASSUME NEW i \in Server
               PROVE  /\ call'[i].op = "votes" => state'[i] = "Candidate"
                      /\ state'[i] = "Candidate" =>
                            /\ i \in votesReceived[i]
                            /\ \A v \in votesReceived[i] :
                                  <<currentTerm'[i], v, i>> \in ballots
                      /\ Granted(i)' => <<currentTerm'[i], Callee(i)', i>> \in ballots
    BY DEF VotesBacked
  <2>1. call'[i].op = "votes" => i # j /\ state'[i] = "Candidate"
    BY <1>1 DEF ElectionInv, VotesBacked
  <2>2. state'[i] = "Candidate" =>
           /\ i \in votesReceived[i]
           /\ \A v \in votesReceived[i] : <<currentTerm'[i], v, i>> \in ballots
    BY <1>1 DEF ElectionInv, VotesBacked
  <2>3. ASSUME Granted(i)'
        PROVE  <<currentTerm'[i], Callee(i)', i>> \in ballots
    <3>1. call'[i].op = "votes"
      BY <2>3 DEF Granted, Got
    <3>2. Granted(i) /\ Callee(i)' = Callee(i) /\ currentTerm'[i] = currentTerm[i]
      BY <1>1, <2>1, <2>3, <3>1 DEF Callee
    <3> QED
      BY <3>2 DEF ElectionInv, VotesBacked
  <2> QED
    BY <2>1, <2>2, <2>3
<1> QED
  BY <1>3, <1>4, <1>5 DEF ElectionInv

LEMMA AppendEntriesElection ==
    ASSUME CoreInv, ElectionInv, NEW j \in Server,
           RejectAppendEntries(j) \/ AcceptAppendEntries(j)
    PROVE  ElectionInv'
<1> DEFINE t == Request(j).term
<1>1. ReceiveAppendEntries(j)
  BY DEF RejectAppendEntries, AcceptAppendEntries
<1>2. call[j].op = "idle" /\ backlog[j] # <<>> /\ t \in Terms /\ AdoptTerm(j, t)
  BY <1>1, AppendEntriesArrived DEF AppendEntriesRequest
<1>3. /\ votedFor' = [votedFor EXCEPT ![j] = VoteAfter(j, t)]
      /\ UNCHANGED <<votesReceived, ballots, leaders>>
  BY <1>1 DEF ReceiveAppendEntries, historyVars
<1>4. PICK reply : reply.type = "AppendEntriesResponse" /\ Answer(j, reply)
  BY DEF RejectAppendEntries, AcceptAppendEntries, AppendEntriesReply
<1> HIDE DEF t
<1>5. /\ backlog' = [backlog EXCEPT ![j] = Tail(@)]
      /\ \A i \in Server : call'[i].op = call[i].op /\ call'[i].k = call[i].k
      /\ \A i \in Server : call'[i].reply \in {call[i].reply, reply}
  BY <1>2, <1>4, AnswerGiven
<1>6. RequestsInElectedTerms'
  BY <1>2, <1>5, RequestsAnswered
<1>7. \A i \in Server : call'[i].op = "votes" => call[i].op = "votes" /\ i # j
  BY <1>2, <1>5
<1>8. \A i \in Server : Granted(i)' => Granted(i) /\ call'[i].k = call[i].k
  BY <1>4, <1>5 DEF Granted, Got
<1> QED
  BY <1>2, <1>3, <1>6, <1>7, <1>8, OnlyTermElection

\* When a process dies no task comes closer to a vote and no request changes.
LEMMA DeathElection ==
    ASSUME CoreInv, ElectionInv, NEW i \in Server, Dies(i)
    PROVE  /\ \A j \in Server : call'[j].op = "votes" => call[j].op = "votes" /\ j # i
           /\ \A j \in Server : Granted(j)' => Granted(j) /\ call'[j].k = call[j].k
           /\ RequestsInElectedTerms'
<1>1. /\ call'[i] = Down("crashed")
      /\ \A j \in Server \ {i} :
            /\ call'[j].op = call[j].op /\ call'[j].k = call[j].k
            /\ call'[j].reply \in {Failed, call[j].reply}
  BY DEF Dies, CoreInv, TypeOK, Call
<1>2. \A j \in Server : call'[j].op = "votes" => call[j].op = "votes" /\ j # i
  BY <1>1 DEF Down
<1>3. \A j \in Server : Granted(j)' => Granted(j) /\ call'[j].k = call[j].k
  BY <1>1 DEF Granted, Got, Failed, Down
<1>4. ASSUME NEW m \in Server, NEW n \in 1 .. Len(backlog'[m])
      PROVE  \E p \in 1 .. Len(backlog[m]) :
                backlog'[m][n].request = backlog[m][p].request
  <2>1. backlog[m] \in Seq(Connection)
    BY DEF CoreInv, TypeOK
  <2>2. m # i /\ backlog'[m] = Abandoned(backlog[m], i)
    BY DEF Dies
  <2>3. n \in 1 .. Len(backlog[m])
    BY <2>1, <2>2, AbandonedBacklog
  <2>4. backlog'[m][n].request = backlog[m][n].request
    BY <2>1, <2>2, <2>3, AbandonedBacklog
  <2> QED
    BY <2>3, <2>4
<1>5. RequestsInElectedTerms'
  BY <1>4, RequestsLeave DEF ElectionInv
<1> QED
  BY <1>2, <1>3, <1>5

LEMMA CrashElection ==
    ASSUME CoreInv, ElectionInv, NEW i \in Server, Crash(i)
    PROVE  ElectionInv'
<1>1. CASE CrashBetween(i) \/ CrashCommitting(i)
  <2>1. /\ UNCHANGED <<state, currentTerm, votedFor, votesReceived, ballots, leaders>>
        /\ Dies(i)
    BY <1>1 DEF CrashBetween, CrashCommitting, electionVars, historyVars
  <2> QED
    BY <2>1, DeathElection, ElectionUndisturbed
<1>2. CASE CrashServing(i)
  <2>1. /\ Request(i).term \in Terms /\ Dies(i)
        /\ AdoptTerm(i, Request(i).term)
        /\ votedFor' = [votedFor EXCEPT ![i] = VoteAfter(i, Request(i).term)]
        /\ UNCHANGED <<votesReceived, ballots, leaders>>
    BY <1>2, DeathInHandler DEF historyVars
  <2> QED
    BY <2>1, DeathElection, OnlyTermElection
<1> QED
  BY <1>1, <1>2 DEF Crash

-----------------------------------------------------------------------------
LEMMA InitElection == Init => ElectionInv
  BY DEF Init, ElectionInv, RequestsInElectedTerms, VotesInElectedTerms,
     VoteRemembered, OneVotePerTerm, VotesBacked, LeadersElected, Down, Granted, Got

LEMMA NextElection ==
    ASSUME CoreInv, ElectionInv, [NextWithCrashes]_vars
    PROVE  ElectionInv'
<1>1. ASSUME NEW i \in Server, Step(i)
      PROVE  ElectionInv'
  <2>1. CASE Launch(i)
    BY <2>1, LaunchElection
  <2>2. CASE Serve(i)
    BY <2>2, HandleRequestVoteElection, AppendEntriesElection, DropElection
    DEF Serve
  <2>3. CASE Continue(i)
    BY <2>3, SendElection, WinElectionElection, CollectVoteElection, TaskElection,
       RoundElection DEF Continue
  <2>4. CASE StartElection(i)
    BY <2>4, StartElectionElection
  <2>5. CASE StartHeartbeats(i) \/ \E command \in Command : ClientAppend(i, command)
    BY <2>5, RoundElection
  <2>6. CASE Break(i)
    BY <2>6, BreakElection
  <2> QED
    BY <1>1, <2>1, <2>2, <2>3, <2>4, <2>5, <2>6 DEF Step, NodeStep
<1>2. CASE NextWithCrashes
  BY <1>1, <1>2, CrashElection DEF NextWithCrashes
<1>3. CASE UNCHANGED vars
  <2>1. UNCHANGED <<state, currentTerm, votedFor, votesReceived, ballots, leaders,
                    call, backlog>>
    BY <1>3 DEF vars, electionVars, historyVars
  <2>2. RequestsInElectedTerms'
    BY <2>1 DEF ElectionInv, RequestsInElectedTerms
  <2>3. \A i \in Server : Granted(i)' => Granted(i) /\ call'[i].k = call[i].k
    BY <2>1 DEF Granted, Got
  <2> QED
    BY <2>1, <2>2, <2>3, ElectionUndisturbed
<1> QED
  BY <1>2, <1>3

\* Votes and offices are as ElectionInv says in every cluster where nobody that
\* crashed is started again.
THEOREM ElectionInvariant == CrashSpec => []ElectionInv
<1>1. CoreInv /\ ElectionInv /\ [NextWithCrashes]_vars => ElectionInv'
  BY NextElection
<1> QED
  BY CrashCoreInvariant, InitElection, <1>1, PTL DEF CrashSpec

\* Two majorities of one term have a voter in common, who voted once.
LEMMA OneLeaderPerTerm == CoreInv /\ ElectionInv => ElectionSafety
<1> SUFFICES ASSUME CoreInv, ElectionInv,
                    NEW l1 \in leaders, NEW l2 \in leaders, l1[1] = l2[1]
             PROVE  l1[2] = l2[2]
  BY DEF ElectionSafety
<1>1. l1[1] \in Nat
  <2>1. l1 \in Terms \X Server
    BY DEF CoreInv, TypeOK
  <2> QED
    BY <2>1, BoundsAssumption DEF Terms
<1>2. CASE l1[1] = 0
  <2>1. l1[2] \in Flagged
    BY <1>2 DEF ElectionInv, LeadersElected
  <2>2. l2[2] \in Flagged
    <3>1. l2[1] = 0 /\ ~(l2[1] > 0)
      BY <1>2
    <3> QED
      BY <3>1 DEF ElectionInv, LeadersElected
  <2> QED
    BY <2>1, <2>2, FlaggedAssumption
<1>3. CASE l1[1] # 0
  <2>1. PICK votes1 \in SUBSET Server :
           /\ 2 * Cardinality(votes1) > Cardinality(Server)
           /\ \A v \in votes1 : <<l1[1], v, l1[2]>> \in ballots
    BY <1>3 DEF ElectionInv, LeadersElected
  <2>2. PICK votes2 \in SUBSET Server :
           /\ 2 * Cardinality(votes2) > Cardinality(Server)
           /\ \A v \in votes2 : <<l1[1], v, l2[2]>> \in ballots
    BY <1>3 DEF ElectionInv, LeadersElected
  <2>3. /\ Cardinality(votes1) \in Nat /\ Cardinality(votes2) \in Nat
        /\ Cardinality(Server) \in Nat
    BY ServerAssumption, FS_Subset, FS_CardinalityType
  <2>4. Cardinality(votes1) + Cardinality(votes2) > Cardinality(Server)
    BY <2>1, <2>2, <2>3
  <2>5. PICK v \in votes1 : v \in votes2
    BY <2>4, ServerAssumption, FS_MajoritiesIntersect
  <2>6. <<l1[1], v, l1[2]>> \in ballots /\ <<l1[1], v, l2[2]>> \in ballots
    BY <2>1, <2>2, <2>5
  <2> QED
    BY <2>6 DEF ElectionInv, OneVotePerTerm
<1> QED
  BY <1>2, <1>3

\* There is one leader per term for every cluster of any size, whatever is lost
\* and whoever crashes, as long as nobody that crashed is started again.
THEOREM ElectionsAreSafe == CrashSpec => []ElectionSafety
  BY CrashCoreInvariant, ElectionInvariant, OneLeaderPerTerm, PTL

-----------------------------------------------------------------------------
(* The cluster implements module Voting when nobody that crashed is         *)
(* started again: each of its steps is a step of Voting or changes neither  *)
(* a term nor a vote nor an office.                                         *)

VotingVars == <<currentTerm, ballots, leaders>>

LEMMA VotingTerms ==
    ASSUME CoreInv, NEW i \in Server
    PROVE  currentTerm[i] \in Terms /\ currentTerm[i] \in Nat
  BY TermIsNat DEF CoreInv, TypeOK

\* Terms adopted from a request, with no vote.
LEMMA AdoptionIsAdvance ==
    ASSUME CoreInv, NEW j \in Server, NEW t \in Terms, AdoptTerm(j, t),
           UNCHANGED <<ballots, leaders>>
    PROVE  Elections!Advance(j, t) \/ UNCHANGED VotingVars
<1>1. t \in Nat /\ currentTerm[j] \in Nat
  BY VotingTerms, BoundsAssumption DEF Terms
<1>2. currentTerm' = [currentTerm EXCEPT ![j] = TermAfter(j, t)]
  BY DEF AdoptTerm
<1>3. CASE IsNewer(j, t)
  BY <1>1, <1>2, <1>3 DEF TermAfter, IsNewer, Elections!Advance
<1>4. CASE ~IsNewer(j, t)
  BY <1>2, <1>4 DEF TermAfter, VotingVars, CoreInv, TypeOK
<1> QED
  BY <1>3, <1>4

LEMMA VoteRefines ==
    ASSUME CoreInv, ElectionInv, NEW j \in Server, HandleRequestVote(j)
    PROVE  Elections!Next \/ UNCHANGED VotingVars
<1> DEFINE m == Request(j)
           granted == GrantsVote(j, m)
<1>1. Accepts(j, "RequestVote") /\ call[j].op = "idle" /\ backlog[j] # <<>>
  BY DEF HandleRequestVote, Accepts
<1>2. m.term \in Terms /\ m.candidateId \in Server /\ m.type = "RequestVote"
  BY <1>1, RequestTyped DEF RequestVoteRequest
<1>3. m.term > 0
  <2>1. backlog[j] \in Seq(Connection)
    BY DEF CoreInv, TypeOK
  <2>2. m = backlog[j][1].request /\ 1 \in 1 .. Len(backlog[j])
    BY <1>1, <2>1, TailOfBacklog DEF Request
  <2> QED
    BY <1>2, <2>2 DEF ElectionInv, RequestsInElectedTerms
<1>4. /\ AdoptTerm(j, m.term)
      /\ ballots' = IF granted THEN ballots \cup {<<m.term, j, m.candidateId>>}
                               ELSE ballots
      /\ UNCHANGED leaders
  BY DEF HandleRequestVote
<1>5. /\ m.term \in Nat /\ currentTerm[j] \in Nat
      /\ currentTerm' = [currentTerm EXCEPT ![j] = TermAfter(j, m.term)]
  BY <1>2, <1>4, VotingTerms, BoundsAssumption DEF Terms, AdoptTerm
<1>6. granted => /\ m.term = TermAfter(j, m.term) /\ m.term >= currentTerm[j]
                 /\ VoteAfter(j, m.term) \in {None, m.candidateId}
  BY <1>5 DEF GrantsVote, TermAfter, IsNewer
<1>7. \A b \in ballots : b[2] = j /\ b[1] = TermAfter(j, m.term) =>
         VoteAfter(j, m.term) = b[3] /\ b[3] \in Server
  BY <1>2, <1>4, AdoptedTermElection, BallotParts
<1> HIDE DEF m, granted
<1>8. CASE granted
  <2>1. \A b \in ballots : b[1] = m.term /\ b[2] = j => b[3] = m.candidateId
    BY <1>6, <1>7, <1>8, ServerAssumption
  <2>2. Elections!Cast(j, m.candidateId, m.term)
    BY <1>3, <1>4, <1>5, <1>6, <1>8, <2>1 DEF Elections!Cast
  <2> QED
    BY <1>2, <2>2 DEF Elections!Next
<1>9. CASE ~granted
  BY <1>2, <1>4, <1>9, AdoptionIsAdvance DEF Elections!Next
<1> QED
  BY <1>8, <1>9

LEMMA AppendEntriesRefines ==
    ASSUME CoreInv, NEW j \in Server, RejectAppendEntries(j) \/ AcceptAppendEntries(j)
    PROVE  Elections!Next \/ UNCHANGED VotingVars
<1>1. ReceiveAppendEntries(j)
  BY DEF RejectAppendEntries, AcceptAppendEntries
<1>2. /\ Request(j).term \in Terms /\ AdoptTerm(j, Request(j).term)
      /\ UNCHANGED <<ballots, leaders>>
  BY <1>1, AppendEntriesArrived
  DEF AppendEntriesRequest, ReceiveAppendEntries, historyVars
<1> QED
  BY <1>2, AdoptionIsAdvance DEF Elections!Next

LEMMA StartElectionRefines ==
    ASSUME CoreInv, ElectionInv, NEW i \in Server, StartElection(i)
    PROVE  Elections!Next
<1> DEFINE t == currentTerm[i] + 1
<1>1. /\ currentTerm' = [currentTerm EXCEPT ![i] = t]
      /\ ballots' = ballots \cup {<<t, i, i>>}
      /\ UNCHANGED leaders
      /\ currentTerm[i] < MaxTerm
  BY DEF StartElection
<1>2. /\ currentTerm[i] \in Nat /\ t \in Terms
      /\ t > 0 /\ t >= currentTerm[i]
  BY <1>1, VotingTerms, BoundsAssumption DEF Terms
<1>3. ASSUME NEW b \in ballots, b[1] = t, b[2] = i
      PROVE  FALSE
  <2>1. b[1] <= currentTerm[i] /\ b[1] \in Nat
    BY <1>3, BallotParts DEF ElectionInv, VoteRemembered
  <2> QED
    BY <1>2, <1>3, <2>1
<1> HIDE DEF t
<1>4. Elections!Cast(i, i, t)
  BY <1>1, <1>2, <1>3 DEF Elections!Cast
<1> QED
  BY <1>2, <1>4 DEF Elections!Next

LEMMA SameCardinality ==
    ASSUME NEW S
    PROVE  Elections!Cardinality(S) = Cardinality(S)
  BY Zenon DEF Elections!Cardinality, Cardinality

LEMMA WinRefines ==
    ASSUME CoreInv, ElectionInv, NEW i \in Server, WinElection(i)
    PROVE  Elections!Next
<1> DEFINE votes  == votesReceived[i] \cup {Callee(i)}
           voters == {v \in Server : <<currentTerm[i], v, i>> \in ballots}
<1>1. /\ leaders' = leaders \cup {<<currentTerm[i], i>>}
      /\ UNCHANGED <<currentTerm, ballots>>
      /\ Granted(i) /\ Majority(i, votes)
  BY DEF WinElection
<1>2. /\ currentTerm[i] > 0 /\ votes \in SUBSET Server
      /\ \A v \in votes : <<currentTerm[i], v, i>> \in ballots
  BY <1>1, VoteInHand DEF CoreInv, TypeOK
<1>3. 2 * Cardinality(votes) > Cardinality(Server)
  BY <1>1, <1>2, MajorityIsMajority
<1>4. votes \subseteq voters /\ voters \subseteq Server
  BY <1>2
<1>5. /\ Cardinality(votes) <= Cardinality(voters)
      /\ Cardinality(votes) \in Nat /\ Cardinality(voters) \in Nat
      /\ Cardinality(Server) \in Nat
  BY <1>4, ServerAssumption, FS_Subset, FS_CardinalityType
<1> HIDE DEF votes
<1>6. 2 * Cardinality(voters) > Cardinality(Server)
  <2> HIDE DEF voters
  <2> QED
    BY <1>3, <1>5
<1>7. Elections!Win(i)
  BY <1>1, <1>2, <1>6, SameCardinality DEF Elections!Win, Elections!IsElected
<1> QED
  BY <1>7 DEF Elections!Next

LEMMA LaunchRefines ==
    ASSUME CoreInv, NEW i \in Server, Launch(i)
    PROVE  Elections!Next \/ UNCHANGED VotingVars
<1>1. currentTerm[i] = 0 /\ Load(store[i]).currentTerm = 0
  <2>1. currentTerm[i] = 0 /\ store[i].currentTerm = currentTerm[i]
    BY DEF Launch, CoreInv, TermOnDisk
  <2> QED
    BY <2>1, SoundStores, LoadSound DEF CoreInv
<1>2. /\ currentTerm' = currentTerm
      /\ leaders' = IF i \in Flagged THEN leaders \cup {<<0, i>>} ELSE leaders
      /\ UNCHANGED ballots
  BY <1>1 DEF Launch, Boot, CoreInv, TypeOK
<1>3. CASE i \in Flagged
  BY <1>1, <1>2, <1>3 DEF Elections!Found, Elections!Next
<1>4. CASE i \notin Flagged
  BY <1>2, <1>4 DEF VotingVars
<1> QED
  BY <1>3, <1>4

LEMMA StepRefines ==
    ASSUME CoreInv, ElectionInv, [NextWithCrashes]_vars
    PROVE  [Elections!Next]_Elections!vars
<1>1. SUFFICES Elections!Next \/ UNCHANGED VotingVars
  BY DEF Elections!vars, VotingVars
<1>2. ASSUME NEW i \in Server, Step(i) \/ Crash(i)
      PROVE  Elections!Next \/ UNCHANGED VotingVars
  <2>1. CASE Launch(i)
    BY <2>1, LaunchRefines
  <2>2. CASE HandleRequestVote(i)
    BY <2>2, VoteRefines
  <2>3. CASE RejectAppendEntries(i) \/ AcceptAppendEntries(i)
    BY <2>3, AppendEntriesRefines
  <2>4. CASE StartElection(i)
    BY <2>4, StartElectionRefines
  <2>5. CASE WinElection(i)
    BY <2>5, WinRefines
  <2>6. CASE \/ DropConnection(i) \/ StartHeartbeats(i) \/ Break(i)
             \/ CrashBetween(i) \/ CrashCommitting(i)
             \/ \E command \in Command : ClientAppend(i, command)
    BY <2>6 DEF DropConnection, StartHeartbeats, Break, CrashBetween, CrashCommitting,
       ClientAppend, electionVars, historyVars, VotingVars
  <2>7. CASE \/ Send(i) \/ CollectVote(i) \/ NoVote(i) \/ HeartbeatAnswered(i)
             \/ SkipPeer(i) \/ ReplicationSucceeded(i) \/ ReplicationRejected(i)
             \/ ReplicationFailed(i) \/ FinishAppend(i)
    BY <2>7 DEF Send, CollectVote, NoVote, HeartbeatAnswered, SkipPeer,
       ReplicationSucceeded, ReplicationRejected, ReplicationFailed, FinishAppend,
       electionVars, historyVars, VotingVars
  <2>8. CASE CrashServing(i)
    <3>1. /\ Request(i).term \in Terms /\ AdoptTerm(i, Request(i).term)
          /\ UNCHANGED <<ballots, leaders>>
      BY <2>8, DeathInHandler DEF historyVars
    <3> QED
      BY <3>1, AdoptionIsAdvance DEF Elections!Next
  <2> QED
    BY <1>2, <2>1, <2>2, <2>3, <2>4, <2>5, <2>6, <2>7, <2>8
    DEF Step, NodeStep, Serve, Continue, Crash
<1>3. CASE UNCHANGED vars
  BY <1>3 DEF vars, electionVars, historyVars, VotingVars
<1>4. CASE NextWithCrashes
  BY <1>2, <1>4 DEF NextWithCrashes
<1> QED
  BY <1>3, <1>4

\* Elections, with all their messages, blocked calls and crashes, implement the
\* abstract voting protocol, for clusters of any size.
THEOREM VotingImplemented == CrashSpec => ImplementsVoting
<1>1. Init => Elections!Init
  BY DEF Init, Elections!Init
<1>2. CoreInv /\ ElectionInv /\ [NextWithCrashes]_vars
        => [Elections!Next]_Elections!vars
  BY StepRefines
<1> QED
  BY <1>1, <1>2, CrashCoreInvariant, ElectionInvariant, PTL
  DEF CrashSpec, ImplementsVoting, Elections!Spec
=============================================================================
