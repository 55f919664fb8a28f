----------------------------- MODULE CoreProofs -----------------------------
(***************************************************************************)
(* CoreInv is an invariant of every cluster, restarts included.  The tasks *)
(* and the connections between them come first: TransportInv is the part   *)
(* of CoreInv that is about them, and each of the ways in which an action  *)
(* moves a task or a connection preserves it.                              *)
(***************************************************************************)
EXTENDS StoreProofs, SequenceTheorems

TransportInv ==
    /\ call \in [Server -> Call]
    /\ backlog \in [Server -> Seq(Connection)]
    /\ CallAtPeer
    /\ LiveConnections
    /\ BatchesFit

\* Every place of a loop is a peer, another node of the cluster.
LEMMA PeerIsServer ==
    ASSUME NEW i \in Server, NEW k \in 1 .. Len(Peers[i])
    PROVE  Peers[i][k] \in Server /\ Peers[i][k] # i
  BY PeersAssumption

\* The connections at the places of a backlog are connections.
LEMMA ConnectionAt ==
    ASSUME NEW queue \in Seq(Connection), NEW n \in 1 .. Len(queue)
    PROVE  /\ queue[n] \in Connection
           /\ queue[n].from \in Server
           /\ queue[n].live \in BOOLEAN
           /\ queue[n].request \in AppendEntriesRequest \cup RequestVoteRequest
<1>1. queue[n] \in Connection
  OBVIOUS
<1> QED
  BY <1>1 DEF Connection

\* A response or an error changes the reply field of a call.
LEMMA ReplyArrives ==
    ASSUME call \in [Server -> Call], NEW i \in Server, NEW reply \in Response,
           call' = [call EXCEPT ![i].reply = reply]
    PROVE  /\ call' \in [Server -> Call]
           /\ call'[i].reply = reply
           /\ \A j \in Server : call'[j].op = call[j].op /\ call'[j].k = call[j].k
           /\ \A j \in Server \ {i} : call'[j] = call[j]
<1>1. call[i] \in Call
  OBVIOUS
<1>2. call' = [call EXCEPT ![i] = [call[i] EXCEPT !.reply = reply]]
  OBVIOUS
<1>3. [call[i] EXCEPT !.reply = reply] \in Call
  BY <1>1 DEF Call
<1>4. /\ [call[i] EXCEPT !.reply = reply].reply = reply
      /\ [call[i] EXCEPT !.reply = reply].op = call[i].op
      /\ [call[i] EXCEPT !.reply = reply].k = call[i].k
  BY <1>1 DEF Call
<1> QED
  BY <1>2, <1>3, <1>4

\* A task that waits for nobody moves on, and so may the term of its node.
LEMMA TaskMoves ==
    ASSUME TransportInv, NEW i \in Server, NEW c \in Call,
           call[i].reply # Pending, c.reply = Unsent,
           call' = [call EXCEPT ![i] = c],
           currentTerm \in [Server -> Terms],
           \A j \in Server \ {i} : currentTerm'[j] = currentTerm[j],
           UNCHANGED backlog
    PROVE  TransportInv'
<1>1. call' \in [Server -> Call]
  BY DEF TransportInv
<1>2. CallAtPeer'
  BY DEF TransportInv, CallAtPeer, InRound
<1>3. LiveConnections'
  <2> SUFFICES ASSUME NEW j \in Server, NEW n \in 1 .. Len(backlog[j]),
                      backlog[j][n].live
               PROVE  IsAwaited(backlog[j][n], j)'
    BY DEF TransportInv, LiveConnections
  <2> DEFINE from == backlog[j][n].from
  <2>1. from \in Server
    BY ConnectionAt DEF TransportInv
  <2>2. IsAwaited(backlog[j][n], j)
    BY DEF TransportInv, LiveConnections
  <2>3. from # i
    BY <2>2 DEF IsAwaited, AwaitsReplyFrom
  <2>4. call'[from] = call[from] /\ currentTerm'[from] = currentTerm[from]
    BY <2>1, <2>3 DEF TransportInv
  <2> QED
    BY <2>2, <2>4 DEF IsAwaited, AwaitsReplyFrom, Callee
<1>4. BatchesFit'
  BY DEF TransportInv, BatchesFit
<1> QED
  BY <1>1, <1>2, <1>3, <1>4 DEF TransportInv

\* A connection to a peer is set up and its caller begins to wait.
LEMMA ConnectionOpens ==
    ASSUME TransportInv, NEW i \in Server, NEW j \in Server,
           NEW request \in AppendEntriesRequest \cup RequestVoteRequest,
           call[i].reply = Unsent, InRound(i),
           call[i].k \in 1 .. Len(Peers[i]), Callee(i) = j,
           request.type = "RequestVote" =>
              /\ call[i].op = "votes"
              /\ request.candidateId = i
              /\ request.term = currentTerm[i],
           request.type = "AppendEntries" =>
              \E last \in Indices :
                 DOMAIN request.entries = request.prevLogIndex + 1 .. last,
           backlog' = [backlog EXCEPT ![j] =
               Append(@, [from |-> i, request |-> request, live |-> TRUE])],
           call' = [call EXCEPT ![i].reply = Pending],
           UNCHANGED currentTerm
    PROVE  TransportInv'
<1> DEFINE new == [from |-> i, request |-> request, live |-> TRUE]
<1>1. new \in Connection
  BY DEF Connection
<1>2. /\ backlog[j] \in Seq(Connection)
      /\ backlog'[j] = Append(backlog[j], new)
      /\ \A m \in Server \ {j} : backlog'[m] = backlog[m]
  BY DEF TransportInv
<1>3. /\ backlog'[j] \in Seq(Connection)
      /\ Len(backlog'[j]) = Len(backlog[j]) + 1
      /\ \A n \in 1 .. Len(backlog[j]) : backlog'[j][n] = backlog[j][n]
      /\ backlog'[j][Len(backlog[j]) + 1] = new
  BY <1>1, <1>2
<1>4. /\ \A m \in Server : call'[m].op = call[m].op /\ call'[m].k = call[m].k
      /\ \A m \in Server \ {i} : call'[m] = call[m]
      /\ call'[i].reply = Pending
      /\ call' \in [Server -> Call]
  <2>1. Pending \in Response
    BY DEF Response
  <2> QED
    BY <2>1, ReplyArrives DEF TransportInv
<1>5. call' \in [Server -> Call]
  BY <1>4
<1>6. backlog' \in [Server -> Seq(Connection)]
  BY <1>2, <1>3 DEF TransportInv
<1>7. CallAtPeer'
  BY <1>4 DEF TransportInv, CallAtPeer, InRound
<1>8. Unsent # Pending
  BY DEF Unsent, Pending
\* No connection of i is live before.
<1>9. ASSUME NEW m \in Server, NEW n \in 1 .. Len(backlog[m]), backlog[m][n].live
      PROVE  backlog[m][n].from # i /\ IsAwaited(backlog[m][n], m)'
  <2> DEFINE c == backlog[m][n]
  <2>1. c.from \in Server
    BY ConnectionAt DEF TransportInv
  <2>2. IsAwaited(c, m)
    BY <1>9 DEF TransportInv, LiveConnections
  <2>3. c.from # i
    BY <1>8, <2>2 DEF IsAwaited, AwaitsReplyFrom
  <2>4. call'[c.from] = call[c.from]
    BY <1>4, <2>1, <2>3
  <2>5. backlog'[m][n] = c
    BY <1>2, <1>3
  <2> HIDE DEF c
  <2>6. IsAwaited(backlog[m][n], m)'
    BY <2>2, <2>4, <2>5 DEF IsAwaited, AwaitsReplyFrom, Callee
  <2> QED
    BY <2>3, <2>6 DEF c
<1>10. IsAwaited(new, j)'
  BY <1>4 DEF IsAwaited, AwaitsReplyFrom, Callee
<1> HIDE DEF new
<1>11. LiveConnections'
  <2> SUFFICES ASSUME NEW m \in Server, NEW n \in 1 .. Len(backlog'[m]),
                      backlog'[m][n].live
               PROVE  /\ IsAwaited(backlog[m][n], m)'
                      /\ \A o \in 1 .. Len(backlog'[m]) :
                           (/\ backlog'[m][o].live
                            /\ backlog'[m][o].from = backlog'[m][n].from)
                           => o = n
    BY DEF LiveConnections
  <2>1. CASE m # j
    BY <1>2, <1>9, <2>1 DEF TransportInv, LiveConnections
  <2>2. CASE m = j /\ n \in 1 .. Len(backlog[j])
    <3>1. backlog[j][n].from # i /\ IsAwaited(backlog[j][n], j)'
      BY <1>3, <1>9, <2>2
    <3>2. ASSUME NEW o \in 1 .. Len(backlog'[j]), backlog'[j][o].live,
                 backlog'[j][o].from = backlog'[j][n].from
          PROVE  o = n
      <4>1. CASE o \in 1 .. Len(backlog[j])
        BY <1>3, <2>2, <3>2, <4>1 DEF TransportInv, LiveConnections
      <4>2. CASE o = Len(backlog[j]) + 1
        BY <1>3, <2>2, <3>1, <3>2, <4>2 DEF new
      <4> QED
        BY <1>2, <1>3, <4>1, <4>2
    <3> QED
      BY <1>3, <2>2, <3>1, <3>2
  <2>3. CASE m = j /\ n = Len(backlog[j]) + 1
    <3>1. ASSUME NEW o \in 1 .. Len(backlog'[j]), backlog'[j][o].live,
                 backlog'[j][o].from = i
          PROVE  o = n
      <4>1. CASE o \in 1 .. Len(backlog[j])
        BY <1>3, <1>9, <3>1, <4>1
      <4> QED
        BY <1>2, <1>3, <2>3, <4>1
    <3> QED
      BY <1>3, <1>10, <2>3, <3>1 DEF new
  <2> QED
    BY <1>2, <1>3, <2>1, <2>2, <2>3
<1>12. BatchesFit'
  <2> SUFFICES ASSUME NEW m \in Server, NEW n \in 1 .. Len(backlog'[m]),
                      backlog'[m][n].request.type = "AppendEntries"
               PROVE  \E last \in Indices :
                         DOMAIN backlog'[m][n].request.entries
                           = backlog'[m][n].request.prevLogIndex + 1 .. last
    BY DEF BatchesFit
  <2>1. CASE m = j /\ n = Len(backlog[j]) + 1
    BY <1>3, <2>1 DEF new
  <2>2. CASE ~(m = j /\ n = Len(backlog[j]) + 1)
    <3>1. n \in 1 .. Len(backlog[m]) /\ backlog'[m][n] = backlog[m][n]
      BY <1>2, <1>3, <2>2
    <3> QED
      BY <3>1 DEF TransportInv, BatchesFit
  <2> QED
    BY <2>1, <2>2
<1> QED
  BY <1>5, <1>6, <1>7, <1>11, <1>12 DEF TransportInv

\* What is behind the head of a backlog.
LEMMA TailOfBacklog ==
    ASSUME NEW queue \in Seq(Connection), queue # <<>>
    PROVE  /\ Head(queue) = queue[1] /\ 1 \in 1 .. Len(queue)
           /\ Tail(queue) \in Seq(Connection)
           /\ Len(Tail(queue)) = Len(queue) - 1
           /\ \A n \in 1 .. Len(Tail(queue)) :
                 n + 1 \in 1 .. Len(queue) /\ Tail(queue)[n] = queue[n + 1]
  OBVIOUS

\* The place in the backlog of m of what is at n once the head of the backlog
\* of j is gone.
PlaceBefore(m, n, j) == IF m = j THEN n + 1 ELSE n

\* The head of a backlog goes, and with it nothing else of the backlogs.
LEMMA HeadGoes ==
    ASSUME TransportInv, NEW j \in Server, backlog[j] # <<>>,
           backlog' = [backlog EXCEPT ![j] = Tail(@)]
    PROVE  /\ backlog' \in [Server -> Seq(Connection)]
           /\ BatchesFit'
           /\ \A m \in Server : \A n \in 1 .. Len(backlog'[m]) :
                 /\ PlaceBefore(m, n, j) \in 1 .. Len(backlog[m])
                 /\ backlog'[m][n] = backlog[m][PlaceBefore(m, n, j)]
<1>1. /\ backlog[j] \in Seq(Connection)
      /\ backlog'[j] = Tail(backlog[j])
      /\ \A m \in Server \ {j} : backlog'[m] = backlog[m]
  BY DEF TransportInv
<1>2. backlog' \in [Server -> Seq(Connection)]
  BY <1>1, TailOfBacklog DEF TransportInv
<1>3. ASSUME NEW m \in Server, NEW n \in 1 .. Len(backlog'[m])
      PROVE  /\ PlaceBefore(m, n, j) \in 1 .. Len(backlog[m])
             /\ backlog'[m][n] = backlog[m][PlaceBefore(m, n, j)]
  <2>1. CASE m = j
    <3>1. n \in 1 .. Len(Tail(backlog[j]))
      BY <1>1, <2>1
    <3>2. n + 1 \in 1 .. Len(backlog[j]) /\ Tail(backlog[j])[n] = backlog[j][n + 1]
      BY <1>1, <3>1, TailOfBacklog
    <3> QED
      BY <1>1, <2>1, <3>2 DEF PlaceBefore
  <2>2. CASE m # j
    BY <1>1, <2>2 DEF PlaceBefore
  <2> QED
    BY <2>1, <2>2
<1>4. BatchesFit'
  BY <1>3 DEF TransportInv, BatchesFit
<1> QED
  BY <1>2, <1>3, <1>4

\* A response is sent on the connection at the head of a backlog.
LEMMA ConnectionAnswered ==
    ASSUME TransportInv, NEW j \in Server, NEW reply \in Response,
           call[j].op = "idle", backlog[j] # <<>>, Answer(j, reply),
           \A i \in Server \ {j} : currentTerm'[i] = currentTerm[i]
    PROVE  TransportInv'
<1> DEFINE head == Head(backlog[j])
<1>1. backlog[j] \in Seq(Connection)
  BY DEF TransportInv
<1>2. head = backlog[j][1] /\ 1 \in 1 .. Len(backlog[j])
  BY <1>1, TailOfBacklog
<1>3. head.from \in Server /\ head.live \in BOOLEAN
  BY <1>1, <1>2, ConnectionAt
<1>4. /\ backlog' = [backlog EXCEPT ![j] = Tail(@)]
      /\ head.live => call' = [call EXCEPT ![head.from].reply = reply]
      /\ ~head.live => call' = call
  BY DEF Answer
<1>5. head.live => IsAwaited(head, j)
  BY <1>2 DEF TransportInv, LiveConnections
<1> HIDE DEF head
<1>6. call' \in [Server -> Call]
  <2>1. CASE head.live
    BY <1>3, <1>4, <2>1, ReplyArrives DEF TransportInv
  <2>2. CASE ~head.live
    BY <1>4, <2>2 DEF TransportInv
  <2> QED
    BY <1>3, <2>1, <2>2
<1>7. CallAtPeer'
  <2>1. ASSUME NEW i \in Server, call'[i].reply # Unsent
        PROVE  call'[i].op \in Rounds /\ call'[i].k \in 1 .. Len(Peers[i])
    <3>1. CASE head.live /\ i = head.from
      <4>1. call[i].reply # Unsent
        BY <1>5, <3>1 DEF IsAwaited, AwaitsReplyFrom, Pending, Unsent
      <4>2. call'[i].k = call[i].k /\ call'[i].op = call[i].op
        BY <1>3, <1>4, <3>1 DEF TransportInv, Call
      <4> QED
        BY <4>1, <4>2 DEF TransportInv, CallAtPeer, InRound
    <3>2. CASE ~(head.live /\ i = head.from)
      <4>1. call'[i] = call[i]
        BY <1>3, <1>4, <3>2 DEF TransportInv
      <4> QED
        BY <2>1, <4>1 DEF TransportInv, CallAtPeer, InRound
    <3> QED
      BY <3>1, <3>2
  <2> QED
    BY <2>1 DEF CallAtPeer, InRound
<1>8. LiveConnections'
  <2> SUFFICES ASSUME NEW m \in Server, NEW n \in 1 .. Len(backlog'[m]),
                      backlog'[m][n].live
               PROVE  /\ IsAwaited(backlog[m][n], m)'
                      /\ \A o \in 1 .. Len(backlog'[m]) :
                           (/\ backlog'[m][o].live
                            /\ backlog'[m][o].from = backlog'[m][n].from)
                           => o = n
    BY DEF LiveConnections
  <2> DEFINE c == backlog'[m][n]
             p == PlaceBefore(m, n, j)
  <2>1. p \in 1 .. Len(backlog[m]) /\ c = backlog[m][p]
    BY <1>4, HeadGoes
  <2>2. c.from \in Server
    BY <2>1, ConnectionAt DEF TransportInv
  <2>3. IsAwaited(c, m)
    BY <2>1 DEF TransportInv, LiveConnections
  <2>4. ~(head.live /\ c.from = head.from)
    <3>1. CASE m = j
      <4>1. p # 1
        BY <3>1 DEF PlaceBefore
      <4> QED
        BY <1>2, <2>1, <3>1, <4>1 DEF TransportInv, LiveConnections
    <3>2. CASE m # j
      BY <1>5, <2>3, <3>2 DEF IsAwaited, AwaitsReplyFrom
    <3> QED
      BY <3>1, <3>2
  <2>5. call'[c.from] = call[c.from]
    BY <1>3, <1>4, <2>2, <2>4 DEF TransportInv
  <2>6. c.request.type = "RequestVote" => c.from # j
    BY <2>3 DEF IsAwaited
  <2>7. IsAwaited(backlog[m][n], m)'
    BY <2>2, <2>3, <2>5, <2>6 DEF IsAwaited, AwaitsReplyFrom, Callee
  <2>8. ASSUME NEW o \in 1 .. Len(backlog'[m]), backlog'[m][o].live,
               backlog'[m][o].from = c.from
        PROVE  o = n
    <3> DEFINE q == PlaceBefore(m, o, j)
    <3>1. q \in 1 .. Len(backlog[m]) /\ backlog'[m][o] = backlog[m][q]
      BY <1>4, HeadGoes
    <3>2. q = p
      BY <2>1, <2>8, <3>1 DEF TransportInv, LiveConnections
    <3>3. n \in Int /\ o \in Int
      OBVIOUS
    <3> QED
      BY <3>2, <3>3 DEF PlaceBefore
  <2> QED
    BY <2>7, <2>8
<1> QED
  BY <1>1, <1>4, <1>6, <1>7, <1>8, HeadGoes DEF TransportInv

\* A connection that broke before is dropped from the head of a backlog.
LEMMA ConnectionDropped ==
    ASSUME TransportInv, NEW j \in Server, backlog[j] # <<>>,
           ~Head(backlog[j]).live,
           backlog' = [backlog EXCEPT ![j] = Tail(@)],
           call[j].op = "idle", UNCHANGED <<call, currentTerm>>
    PROVE  TransportInv'
<1>1. \A reply \in Response : Answer(j, reply)
  BY DEF Answer
<1>2. Failed \in Response
  BY DEF Response
<1> QED
  BY <1>1, <1>2, ConnectionAnswered

\* The connections of a backlog stay where they are when one caller gives up.
LEMMA AbandonedBacklog ==
    ASSUME NEW queue \in Seq(Connection), NEW i \in Server
    PROVE  /\ Abandoned(queue, i) \in Seq(Connection)
           /\ Len(Abandoned(queue, i)) = Len(queue)
           /\ \A n \in 1 .. Len(queue) :
                 /\ Abandoned(queue, i)[n].from = queue[n].from
                 /\ Abandoned(queue, i)[n].request = queue[n].request
                 /\ Abandoned(queue, i)[n].live
                       <=> queue[n].live /\ queue[n].from # i
<1> DEFINE after == Abandoned(queue, i)
<1>1. DOMAIN queue = 1 .. Len(queue) /\ Len(queue) \in Nat
  OBVIOUS
<1>2. DOMAIN after = 1 .. Len(queue)
  BY <1>1 DEF Abandoned
<1>3. ASSUME NEW n \in 1 .. Len(queue)
      PROVE  /\ after[n] \in Connection
             /\ after[n].from = queue[n].from
             /\ after[n].request = queue[n].request
             /\ after[n].live <=> queue[n].live /\ queue[n].from # i
  <2>1. queue[n] \in Connection
    OBVIOUS
  <2>2. after[n] = IF queue[n].from = i
                   THEN [queue[n] EXCEPT !.live = FALSE] ELSE queue[n]
    BY <1>1 DEF Abandoned
  <2> HIDE DEF after
  <2> QED
    BY <2>1, <2>2 DEF Connection
<1>4. after \in [1 .. Len(queue) -> Connection]
  <2>1. after = [n \in 1 .. Len(queue) |-> after[n]]
    BY <1>1 DEF Abandoned
  <2> HIDE DEF after
  <2> QED
    BY <1>3, <2>1
<1> HIDE DEF after
<1>5. after \in Seq(Connection) /\ Len(after) = Len(queue)
  BY <1>1, <1>4
<1> QED
  BY <1>3, <1>5 DEF after

\* Connections die, and those that live on have a caller nothing happened to.
LEMMA ConnectionsDie ==
    ASSUME TransportInv,
           call' \in [Server -> Call], backlog' \in [Server -> Seq(Connection)],
           CallAtPeer',
           \A m \in Server : \A n \in 1 .. Len(backlog'[m]) :
              /\ n \in 1 .. Len(backlog[m])
              /\ backlog'[m][n].from = backlog[m][n].from
              /\ backlog'[m][n].request = backlog[m][n].request
              /\ backlog'[m][n].live =>
                    /\ backlog[m][n].live
                    /\ call'[backlog[m][n].from] = call[backlog[m][n].from]
                    /\ currentTerm'[backlog[m][n].from]
                          = currentTerm[backlog[m][n].from]
    PROVE  TransportInv'
<1>1. LiveConnections'
  <2> SUFFICES ASSUME NEW m \in Server, NEW n \in 1 .. Len(backlog'[m]),
                      backlog'[m][n].live
               PROVE  /\ IsAwaited(backlog[m][n], m)'
                      /\ \A o \in 1 .. Len(backlog'[m]) :
                           (/\ backlog'[m][o].live
                            /\ backlog'[m][o].from = backlog'[m][n].from)
                           => o = n
    BY DEF LiveConnections
  <2>1. /\ n \in 1 .. Len(backlog[m]) /\ backlog[m][n].live
        /\ backlog'[m][n].from = backlog[m][n].from
        /\ backlog'[m][n].request = backlog[m][n].request
        /\ call'[backlog[m][n].from] = call[backlog[m][n].from]
        /\ currentTerm'[backlog[m][n].from] = currentTerm[backlog[m][n].from]
    OBVIOUS
  <2>2. IsAwaited(backlog[m][n], m)
    BY <2>1 DEF TransportInv, LiveConnections
  <2>3. IsAwaited(backlog[m][n], m)'
    BY <2>1, <2>2 DEF IsAwaited, AwaitsReplyFrom, Callee
  <2>4. ASSUME NEW o \in 1 .. Len(backlog'[m]), backlog'[m][o].live,
               backlog'[m][o].from = backlog'[m][n].from
        PROVE  o = n
    <3>1. /\ o \in 1 .. Len(backlog[m]) /\ backlog[m][o].live
          /\ backlog'[m][o].from = backlog[m][o].from
      BY <2>4
    <3> QED
      BY <2>1, <2>4, <3>1 DEF TransportInv, LiveConnections
  <2> QED
    BY <2>3, <2>4
<1>2. BatchesFit'
  <2>1. \A m \in Server : \A n \in 1 .. Len(backlog'[m]) :
           /\ n \in 1 .. Len(backlog[m])
           /\ backlog'[m][n].request = backlog[m][n].request
    OBVIOUS
  <2> QED
    BY <2>1 DEF TransportInv, BatchesFit
<1> QED
  BY <1>1, <1>2 DEF TransportInv

\* A connection between two running nodes breaks.
LEMMA ConnectionBreaks ==
    ASSUME TransportInv, NEW i \in Server, Break(i)
    PROVE  TransportInv'
<1> DEFINE j == Callee(i)
<1>1. call[i].reply = Pending /\ Pending # Unsent
  BY DEF Break, Pending, Unsent
<1>2. j \in Server
  BY <1>1, PeerIsServer DEF TransportInv, CallAtPeer, Callee
<1>3. backlog' = [backlog EXCEPT ![j] = Abandoned(@, i)] /\ UNCHANGED currentTerm
  BY DEF Break, electionVars
<1> HIDE DEF j
<1>4. /\ call' \in [Server -> Call]
      /\ \A m \in Server : call'[m].op = call[m].op /\ call'[m].k = call[m].k
      /\ \A m \in Server \ {i} : call'[m] = call[m]
  <2>1. Failed \in Response
    BY DEF Response
  <2> QED
    BY <2>1, ReplyArrives DEF TransportInv, Break
<1>5. /\ backlog[j] \in Seq(Connection)
      /\ backlog'[j] = Abandoned(backlog[j], i)
      /\ \A m \in Server \ {j} : backlog'[m] = backlog[m]
  BY <1>2, <1>3 DEF TransportInv
<1>6. backlog' \in [Server -> Seq(Connection)]
  BY <1>3, <1>5, AbandonedBacklog DEF TransportInv
<1>7. CallAtPeer'
  BY <1>1, <1>4 DEF TransportInv, CallAtPeer, InRound
<1>8. ASSUME NEW m \in Server, NEW n \in 1 .. Len(backlog'[m])
      PROVE  /\ n \in 1 .. Len(backlog[m])
             /\ backlog'[m][n].from = backlog[m][n].from
             /\ backlog'[m][n].request = backlog[m][n].request
             /\ backlog'[m][n].live =>
                   /\ backlog[m][n].live
                   /\ call'[backlog[m][n].from] = call[backlog[m][n].from]
                   /\ currentTerm'[backlog[m][n].from]
                         = currentTerm[backlog[m][n].from]
  <2>1. CASE m = j
    <3>1. n \in 1 .. Len(backlog[j])
      BY <1>5, <2>1, AbandonedBacklog
    <3>2. backlog[j][n].from \in Server
      BY <1>5, <3>1, ConnectionAt
    <3>3. /\ backlog'[j][n].from = backlog[j][n].from
          /\ backlog'[j][n].request = backlog[j][n].request
          /\ backlog'[j][n].live => backlog[j][n].live /\ backlog[j][n].from # i
      BY <1>5, <3>1, AbandonedBacklog
    <3> QED
      BY <1>3, <1>4, <2>1, <3>1, <3>2, <3>3
  <2>2. CASE m # j
    <3>1. backlog[m] \in Seq(Connection) /\ n \in 1 .. Len(backlog[m])
      BY <1>5, <2>2 DEF TransportInv
    <3>2. backlog[m][n].live => IsAwaited(backlog[m][n], m)
      BY <3>1 DEF TransportInv, LiveConnections
    <3>3. backlog[m][n].live => backlog[m][n].from # i
      BY <2>2, <3>2 DEF IsAwaited, AwaitsReplyFrom, j
    <3>4. backlog[m][n].from \in Server
      BY <3>1, ConnectionAt
    <3> QED
      BY <1>3, <1>4, <1>5, <2>2, <3>1, <3>3, <3>4
  <2> QED
    BY <2>1, <2>2
<1> QED
  BY <1>4, <1>6, <1>7, <1>8, ConnectionsDie

\* A process dies; the term of its node may have moved before.
LEMMA NodeDies ==
    ASSUME TransportInv, NEW i \in Server, Dies(i),
           \A j \in Server \ {i} : currentTerm'[j] = currentTerm[j]
    PROVE  TransportInv'
<1>1. Failed \in Response /\ Unsent \in Response
  BY DEF Response
<1>2. /\ DOMAIN call' = Server
      /\ call'[i] = Down("crashed")
      /\ \A j \in Server \ {i} :
            call'[j] = IF AwaitsReplyFrom(j, i)
                       THEN [call[j] EXCEPT !.reply = Failed] ELSE call[j]
  BY DEF Dies
<1>3. Down("crashed") \in Call /\ Down("crashed").reply = Unsent
  BY <1>1 DEF Down, Call
<1>4. ASSUME NEW j \in Server \ {i}
      PROVE  /\ call'[j] \in Call
             /\ call'[j].k = call[j].k /\ call'[j].op = call[j].op
             /\ call'[j].reply # Unsent => call[j].reply # Unsent
  <2>1. call[j] \in Call
    BY DEF TransportInv
  <2>2. AwaitsReplyFrom(j, i) => call[j].reply # Unsent
    BY DEF AwaitsReplyFrom, Pending, Unsent
  <2> QED
    BY <1>1, <1>2, <2>1, <2>2 DEF Call
<1>5. call' \in [Server -> Call]
  <2>1. call' = [j \in Server |-> call'[j]]
    BY DEF Dies
  <2> QED
    BY <1>2, <1>3, <1>4, <2>1
<1>6. CallAtPeer'
  BY <1>2, <1>3, <1>4 DEF TransportInv, CallAtPeer, InRound
<1>7. /\ backlog' = [j \in Server |-> backlog'[j]]
      /\ backlog'[i] = <<>>
      /\ \A j \in Server \ {i} : backlog'[j] = Abandoned(backlog[j], i)
  BY DEF Dies
<1>8. backlog' \in [Server -> Seq(Connection)]
  <2>1. \A j \in Server \ {i} : backlog'[j] \in Seq(Connection)
    BY <1>7, AbandonedBacklog DEF TransportInv
  <2>2. backlog'[i] \in Seq(Connection)
    BY <1>7
  <2> QED
    BY <1>7, <2>1, <2>2
<1>9. ASSUME NEW m \in Server, NEW n \in 1 .. Len(backlog'[m])
      PROVE  /\ n \in 1 .. Len(backlog[m])
             /\ backlog'[m][n].from = backlog[m][n].from
             /\ backlog'[m][n].request = backlog[m][n].request
             /\ backlog'[m][n].live =>
                   /\ backlog[m][n].live
                   /\ call'[backlog[m][n].from] = call[backlog[m][n].from]
                   /\ currentTerm'[backlog[m][n].from]
                         = currentTerm[backlog[m][n].from]
  <2>1. m # i
    BY <1>7
  <2>2. backlog[m] \in Seq(Connection) /\ backlog'[m] = Abandoned(backlog[m], i)
    BY <1>7, <2>1 DEF TransportInv
  <2>3. /\ n \in 1 .. Len(backlog[m])
        /\ backlog'[m][n].from = backlog[m][n].from
        /\ backlog'[m][n].request = backlog[m][n].request
        /\ backlog'[m][n].live => backlog[m][n].live /\ backlog[m][n].from # i
    BY <2>2, AbandonedBacklog
  <2>4. backlog[m][n].from \in Server
    BY <2>2, <2>3, ConnectionAt
  <2>5. backlog[m][n].live => ~AwaitsReplyFrom(backlog[m][n].from, i)
    BY <2>1, <2>3 DEF TransportInv, LiveConnections, IsAwaited, AwaitsReplyFrom
  <2> QED
    BY <1>2, <2>3, <2>4, <2>5
<1> QED
  BY <1>2, <1>5, <1>6, <1>8, <1>9, ConnectionsDie

-----------------------------------------------------------------------------
\* Where a loop goes next is a call that has not been made.
LEMMA LoopAtIsCall ==
    ASSUME NEW i \in Server, NEW op \in Rounds,
           NEW k \in Nat
    PROVE  /\ LoopAt(i, op, k) \in Call
           /\ LoopAt(i, op, k).reply = Unsent
           /\ LoopAt(i, op, k).op \in {"idle", op}
  BY DEF LoopAt, Idle, Call, Response, Rounds

\* The logs of CoreInv are sound, and sound logs are all it asks of them.
LEMMA SoundStores ==
    ASSUME TypeOK, LogContiguous, NEW i \in Server
    PROVE  Sound(store[i])
  BY DEF TypeOK, LogContiguous, Sound, Contiguous

LEMMA OneStoreChanges ==
    ASSUME TypeOK, LogContiguous, NEW i \in Server, NEW s, Sound(s),
           store' = [store EXCEPT ![i] = s]
    PROVE  /\ store' \in [Server -> Store]
           /\ LogContiguous'
           /\ \A j \in Server : store'[j] = IF j = i THEN s ELSE store[j]
<1>1. /\ s \in Store
      /\ DOMAIN s.entries = 1 .. s.lastLogIndex
      /\ DOMAIN s.disk = 1 .. s.lastLogIndex
  BY DEF Sound, Contiguous
<1>2. store \in [Server -> Store]
  BY DEF TypeOK
<1>3. \A j \in Server : store'[j] = IF j = i THEN s ELSE store[j]
  BY <1>2
<1> QED
  BY <1>1, <1>2, <1>3 DEF LogContiguous

\* CoreInv in the two parts the actions disturb separately.
LEMMA CoreParts ==
    CoreInv <=> TransportInv /\ TypeOK /\ LogContiguous /\ TermOnDisk
  BY DEF CoreInv, TransportInv, TypeOK

\* A step that touches nothing but tasks and connections.
LEMMA OnlyTransport ==
    ASSUME CoreInv, TransportInv',
           UNCHANGED <<electionVars, leaderVars, historyVars, store>>,
           \A i \in Server : call'[i].op = "off" => call[i].op = "off"
    PROVE  CoreInv'
<1>1. TypeOK'
  BY DEF CoreInv, TypeOK, TransportInv, electionVars, leaderVars, historyVars
<1>2. LogContiguous' /\ TermOnDisk'
  BY DEF CoreInv, LogContiguous, TermOnDisk, electionVars
<1> QED
  BY <1>1, <1>2 DEF CoreInv, TransportInv

\* A task that got an answer, skips a peer or starts a round goes on.
LEMMA OnlyTask ==
    ASSUME CoreInv, NEW i \in Server, NEW c \in Call,
           call[i].reply # Pending, c.reply = Unsent, c.op # "off",
           call' = [call EXCEPT ![i] = c],
           UNCHANGED <<electionVars, leaderVars, historyVars, store, backlog>>
    PROVE  CoreInv'
<1>1. currentTerm' = currentTerm /\ backlog' = backlog
  BY DEF electionVars
<1>2. TransportInv'
  BY <1>1, CoreParts, TaskMoves DEF TypeOK
<1>3. \A j \in Server : call'[j].op = "off" => call[j].op = "off"
  BY DEF CoreInv, TypeOK
<1> QED
  BY <1>2, <1>3, OnlyTransport

\* The handlers: what they are called with, and a response sent by a node whose
\* term does not fall.
LEMMA RequestTyped ==
    ASSUME CoreInv, NEW j \in Server, NEW type \in {"AppendEntries", "RequestVote"},
           Accepts(j, type)
    PROVE  /\ type = "AppendEntries" => Request(j) \in AppendEntriesRequest
           /\ type = "RequestVote" => Request(j) \in RequestVoteRequest
           /\ type = "AppendEntries" =>
                \E last \in Indices :
                   DOMAIN Request(j).entries = Request(j).prevLogIndex + 1 .. last
<1>1. backlog[j] \in Seq(Connection) /\ backlog[j] # <<>>
  BY CoreParts DEF TransportInv, Accepts
<1>2. Request(j) = backlog[j][1].request /\ 1 \in 1 .. Len(backlog[j])
  BY <1>1, TailOfBacklog DEF Request
<1>3. Request(j) \in AppendEntriesRequest \cup RequestVoteRequest
  BY <1>1, <1>2, ConnectionAt
<1>4. Request(j).type = type
  BY DEF Accepts, Request
<1>5. type = "AppendEntries" => Request(j) \in AppendEntriesRequest
  BY <1>3, <1>4 DEF RequestVoteRequest
<1>6. type = "RequestVote" => Request(j) \in RequestVoteRequest
  BY <1>3, <1>4 DEF AppendEntriesRequest
<1>7. type = "AppendEntries" =>
         \E last \in Indices :
            DOMAIN Request(j).entries = Request(j).prevLogIndex + 1 .. last
  BY <1>2, <1>4 DEF CoreInv, BatchesFit
<1> QED
  BY <1>5, <1>6, <1>7

\* Adopting the term of a request.
LEMMA TermAdopted ==
    ASSUME CoreInv, NEW j \in Server, NEW term \in Terms
    PROVE  /\ TermAfter(j, term) \in Terms
           /\ TermAfter(j, term) >= currentTerm[j]
           /\ VoteAfter(j, term) \in Server \cup {None}
           /\ Sound(StoreAfter(j, term))
           /\ StoreAfter(j, term).currentTerm = TermAfter(j, term)
           /\ StoreAfter(j, term).lastLogIndex = store[j].lastLogIndex
           /\ StoreAfter(j, term).entries = store[j].entries
<1>1. currentTerm[j] \in Terms /\ votedFor[j] \in Server \cup {None}
  BY DEF CoreInv, TypeOK
<1>2. Sound(store[j]) /\ store[j].currentTerm = currentTerm[j]
  BY SoundStores DEF CoreInv, TermOnDisk
<1>3. currentTerm[j] \in Int /\ term \in Int
  BY <1>1, BoundsAssumption DEF Terms
<1>4. CASE term > currentTerm[j]
  <2> DEFINE s == SetCurrentTerm(store[j], term)
  <2>1. /\ TermAfter(j, term) = term
        /\ VoteAfter(j, term) = None
        /\ StoreAfter(j, term) = s
    BY <1>4 DEF IsNewer, TermAfter, VoteAfter, StoreAfter
  <2>2. /\ Sound(s) /\ s.currentTerm = term
        /\ s.lastLogIndex = store[j].lastLogIndex
        /\ s.entries = store[j].entries
    BY <1>2, SetCurrentTermSound
  <2> HIDE DEF s
  <2> QED
    BY <1>3, <1>4, <2>1, <2>2
<1>5. CASE ~(term > currentTerm[j])
  <2>1. /\ TermAfter(j, term) = currentTerm[j]
        /\ VoteAfter(j, term) = votedFor[j]
        /\ StoreAfter(j, term) = store[j]
    BY <1>5 DEF IsNewer, TermAfter, VoteAfter, StoreAfter
  <2> QED
    BY <1>1, <1>2, <1>3, <2>1
<1> QED
  BY <1>4, <1>5

\* A handler that leaves a sound store with the adopted term preserves CoreInv.
LEMMA HandlerCore ==
    ASSUME CoreInv, NEW j \in Server, NEW term \in Terms, NEW s, Sound(s),
           s.currentTerm = TermAfter(j, term),
           NEW reply \in Response, call[j].op = "idle", backlog[j] # <<>>,
           Answer(j, reply), AdoptTerm(j, term),
           store' = [store EXCEPT ![j] = s],
           votedFor' \in [Server -> Server \cup {None}],
           leaderId' \in [Server -> Server \cup {None}],
           ballots' \subseteq Terms \X Server \X Server,
           UNCHANGED <<votesReceived, leaderVars, leaders>>
    PROVE  CoreInv'
<1>1. /\ TermAfter(j, term) \in Terms
      /\ currentTerm \in [Server -> Terms]
      /\ call \in [Server -> Call]
  BY TermAdopted DEF CoreInv, TypeOK
<1>2. \A i \in Server : currentTerm'[i] = IF i = j THEN TermAfter(j, term)
                                          ELSE currentTerm[i]
  BY <1>1 DEF AdoptTerm
<1>3. TransportInv'
  BY <1>2, CoreParts, ConnectionAnswered
<1>4. /\ store' \in [Server -> Store]
      /\ LogContiguous'
      /\ \A i \in Server : store'[i] = IF i = j THEN s ELSE store[i]
  BY OneStoreChanges DEF CoreInv
<1>5. TypeOK'
  <2>1. state' \in [Server -> {"Follower", "Candidate", "Leader"}]
    BY DEF CoreInv, TypeOK, AdoptTerm
  <2>2. currentTerm' \in [Server -> Terms]
    BY <1>1 DEF AdoptTerm
  <2> QED
    BY <1>3, <1>4, <2>1, <2>2 DEF CoreInv, TypeOK, TransportInv, leaderVars
<1>6. TermOnDisk'
  <2>1. \A i \in Server : call'[i].op = call[i].op
    <3>1. backlog[j] \in Seq(Connection)
      BY CoreParts DEF TransportInv
    <3>2. Head(backlog[j]).from \in Server /\ Head(backlog[j]).live \in BOOLEAN
      BY <3>1, TailOfBacklog, ConnectionAt
    <3> QED
      BY <1>1, <3>2, ReplyArrives DEF Answer
  <2> QED
    BY <1>2, <1>4, <2>1 DEF CoreInv, TermOnDisk
<1> QED
  BY <1>3, <1>4, <1>5, <1>6, CoreParts DEF CoreInv, TransportInv

-----------------------------------------------------------------------------
(* One lemma per action that is more than a step of a task. *)

LEMMA BootCore ==
    ASSUME CoreInv, NEW i \in Server, ~IsUp(i), Boot(i),
           call[i].reply # Pending
    PROVE  CoreInv'
<1> USE BoundsAssumption
<1> DEFINE s == Load(store[i])
           c == IF i \in Flagged THEN LoopAt(i, "heartbeats", 1) ELSE Idle
<1>1. Sound(s) /\ s.currentTerm = currentTerm[i]
  BY SoundStores, LoadSound DEF CoreInv, TermOnDisk
<1>2. /\ currentTerm \in [Server -> Terms] /\ s.currentTerm \in Terms
      /\ s.lastLogIndex \in Indices
  BY <1>1 DEF CoreInv, TypeOK, Sound, Store
<1>3. /\ store' = [store EXCEPT ![i] = s]
      /\ currentTerm' = [currentTerm EXCEPT ![i] = s.currentTerm]
      /\ call' = [call EXCEPT ![i] = c]
      /\ UNCHANGED <<ballots, backlog>>
  BY DEF Boot
<1>4. /\ store' \in [Server -> Store]
      /\ LogContiguous'
      /\ \A j \in Server : store'[j] = IF j = i THEN s ELSE store[j]
  BY <1>1, <1>3, OneStoreChanges DEF CoreInv
<1>5. c \in Call /\ c.reply = Unsent /\ c.op # "off"
  <2>1. CASE i \in Flagged
    BY <2>1, LoopAtIsCall DEF Rounds
  <2>2. CASE i \notin Flagged
    BY <2>2 DEF Idle, Call, Response
  <2> QED
    BY <2>1, <2>2
<1>6. TransportInv'
  <2>1. \A j \in Server \ {i} : currentTerm'[j] = currentTerm[j]
    BY <1>2, <1>3
  <2> HIDE DEF c
  <2> QED
    BY <1>2, <1>3, <1>5, <2>1, CoreParts, TaskMoves
<1>7. TypeOK'
  <2>1. currentTerm' \in [Server -> Terms]
    BY <1>2, <1>3
  <2>2. /\ votedFor' \in [Server -> Server \cup {None}]
        /\ votesReceived' \in [Server -> SUBSET Server]
        /\ state' \in [Server -> {"Follower", "Candidate", "Leader"}]
        /\ leaderId' \in [Server -> Server \cup {None}]
        /\ leaders' \subseteq Terms \X Server
    BY <1>2 DEF Boot, CoreInv, TypeOK
  <2>3. /\ nextIndex' \in [Server -> [Server -> 1 .. MaxLog + 1]]
        /\ matchIndex' \in [Server -> [Server -> Indices]]
    <3> DEFINE next == [p \in Server |-> IF i \in Flagged /\ p # i
                                         THEN s.lastLogIndex + 1 ELSE 1]
               match == [p \in Server |-> 0]
    <3>1. next \in [Server -> 1 .. MaxLog + 1]
      BY <1>2 DEF Indices
    <3>2. match \in [Server -> Indices]
      BY DEF Indices
    <3>3. /\ nextIndex' = [nextIndex EXCEPT ![i] = next]
          /\ matchIndex' = [matchIndex EXCEPT ![i] = match]
      BY DEF Boot
    <3> HIDE DEF next, match
    <3> QED
      BY <3>1, <3>2, <3>3 DEF CoreInv, TypeOK
  <2> QED
    BY <1>3, <1>4, <1>6, <2>1, <2>2, <2>3 DEF TypeOK, TransportInv, CoreInv
<1>8. TermOnDisk'
  <2>1. /\ call \in [Server -> Call]
        /\ \A j \in Server : call'[j] = IF j = i THEN c ELSE call[j]
    BY <1>3 DEF CoreInv, TypeOK
  <2> HIDE DEF c, s
  <2> QED
    BY <1>2, <1>3, <1>4, <1>5, <2>1 DEF CoreInv, TermOnDisk
<1> QED
  BY <1>4, <1>6, <1>7, <1>8 DEF CoreInv, TransportInv

LEMMA SendCore ==
    ASSUME CoreInv, NEW i \in Server, Send(i)
    PROVE  CoreInv'
<1> USE BoundsAssumption
<1>1. /\ call[i].k \in 1 .. Len(Peers[i]) /\ call[i].reply = Unsent
      /\ call[i].op \in Rounds
      /\ UNCHANGED <<electionVars, leaderVars, historyVars, store>>
  BY DEF Send, AtPeer
<1>2. Callee(i) \in Server
  BY <1>1, PeerIsServer DEF Callee
<1>3. call \in [Server -> Call] /\ TransportInv
  BY CoreParts DEF TransportInv
<1>4. CASE ~IsUp(Callee(i))
  <2>1. /\ call' = [call EXCEPT ![i].reply = Failed]
        /\ UNCHANGED <<backlog, currentTerm>>
    BY <1>1, <1>4 DEF Send, electionVars
  <2>2. Failed \in Response
    BY DEF Response
  <2>3. /\ call' \in [Server -> Call]
        /\ \A m \in Server : call'[m].op = call[m].op /\ call'[m].k = call[m].k
        /\ \A m \in Server \ {i} : call'[m] = call[m]
    BY <1>3, <2>1, <2>2, ReplyArrives
  <2>4. CallAtPeer'
    BY <1>1, <2>3 DEF TransportInv, CallAtPeer, InRound, CoreInv
  <2>5. ASSUME NEW m \in Server, NEW n \in 1 .. Len(backlog'[m])
        PROVE  /\ n \in 1 .. Len(backlog[m])
               /\ backlog'[m][n].from = backlog[m][n].from
               /\ backlog'[m][n].request = backlog[m][n].request
               /\ backlog'[m][n].live =>
                     /\ backlog[m][n].live
                     /\ call'[backlog[m][n].from] = call[backlog[m][n].from]
                     /\ currentTerm'[backlog[m][n].from]
                           = currentTerm[backlog[m][n].from]
    <3>1. n \in 1 .. Len(backlog[m]) /\ backlog[m][n].from \in Server
      BY <1>3, <2>1, ConnectionAt DEF TransportInv
    <3>2. backlog[m][n].live => backlog[m][n].from # i
      BY <1>1, <1>3, <3>1
      DEF TransportInv, LiveConnections, IsAwaited, AwaitsReplyFrom, Pending, Unsent
    <3> QED
      BY <2>1, <2>3, <3>1, <3>2
  <2>6. TransportInv'
    BY <1>3, <2>1, <2>3, <2>4, <2>5, ConnectionsDie DEF TransportInv
  <2> QED
    BY <1>1, <2>3, <2>6, OnlyTransport
<1>5. CASE IsUp(Callee(i))
  <2> DEFINE request == RequestOf(i)
             peer == Callee(i)
             next == nextIndex[i][peer]
  <2>1. /\ backlog' = [backlog EXCEPT ![peer] =
               Append(@, [from |-> i, request |-> request, live |-> TRUE])]
        /\ call' = [call EXCEPT ![i].reply = Pending]
    BY <1>5 DEF Send
  <2>2. /\ Sound(store[i]) /\ store[i] \in Store
        /\ currentTerm[i] \in Terms
        /\ next \in 1 .. MaxLog + 1
    BY <1>2, SoundStores DEF CoreInv, TypeOK, Sound
  <2>3. next - 1 \in Indices /\ next - 1 + 1 = next
    BY <2>2 DEF Indices
  <2>4. /\ store[i].commitIndex \in Indices /\ store[i].lastLogIndex \in Indices
        /\ TermAt(store[i], next - 1) \in Terms
        /\ GetLastLogTerm(store[i]) \in Terms
    BY <2>2, TermAtIsTerm DEF Store, GetLastLogTerm
  <2>5. ASSUME NEW entries \in Log
        PROVE  /\ AppendEntriesTo(i, peer, entries) \in AppendEntriesRequest
               /\ AppendEntriesTo(i, peer, entries).type = "AppendEntries"
               /\ AppendEntriesTo(i, peer, entries).entries = entries
               /\ AppendEntriesTo(i, peer, entries).prevLogIndex + 1 = next
    BY <2>2, <2>3, <2>4 DEF AppendEntriesTo, AppendEntriesRequest
  <2>6. /\ RequestVote(i) \in RequestVoteRequest
        /\ RequestVote(i).type = "RequestVote"
        /\ RequestVote(i).candidateId = i
        /\ RequestVote(i).term = currentTerm[i]
    BY <2>2, <2>4 DEF RequestVote, RequestVoteRequest
  <2>7. /\ request \in AppendEntriesRequest \cup RequestVoteRequest
        /\ request.type = "RequestVote" =>
              /\ call[i].op = "votes"
              /\ request.candidateId = i
              /\ request.term = currentTerm[i]
        /\ request.type = "AppendEntries" =>
              \E last \in Indices :
                 DOMAIN request.entries = request.prevLogIndex + 1 .. last
    <3>1. CASE call[i].op = "heartbeats"
      <4>1. request = AppendEntriesTo(i, peer, EmptyLog)
        BY <3>1 DEF RequestOf
      <4>2. DOMAIN EmptyLog = next .. next - 1
        BY <2>2, EmptyLogIsLog
      <4> HIDE DEF request, peer
      <4> QED
        BY <2>3, <2>5, <4>1, <4>2, EmptyLogIsLog
    <3>2. CASE call[i].op = "votes"
      <4>1. request = RequestVote(i)
        BY <3>2 DEF RequestOf
      <4> HIDE DEF request
      <4> QED
        BY <2>6, <3>2, <4>1
    <3>3. CASE call[i].op = "replicate"
      <4>1. request = AppendEntriesTo(i, peer, Unreplicated(i, peer))
        BY <3>3 DEF RequestOf
      <4>2. /\ Unreplicated(i, peer) \in Log
            /\ \E last \in Indices : DOMAIN Unreplicated(i, peer) = next .. last
        BY <2>2, EntriesFromFit DEF Unreplicated
      <4> HIDE DEF request, peer
      <4> QED
        BY <2>5, <4>1, <4>2
    <3> QED
      BY <1>1, <3>1, <3>2, <3>3 DEF Rounds
  <2>8. UNCHANGED currentTerm
    BY <1>1 DEF electionVars
  <2> HIDE DEF request
  <2>9. TransportInv'
    BY <1>1, <1>2, <1>3, <2>1, <2>7, <2>8, ConnectionOpens DEF InRound
  <2>10. \A j \in Server : call'[j].op = call[j].op
    BY <1>3, <2>1, ReplyArrives DEF Response
  <2> QED
    BY <1>1, <2>9, <2>10, OnlyTransport
<1> QED
  BY <1>4, <1>5

LEMMA HandleRequestVoteCore ==
    ASSUME CoreInv, NEW j \in Server, HandleRequestVote(j)
    PROVE  CoreInv'
<1> DEFINE m == Request(j)
           reply == [type        |-> "RequestVoteResponse",
                     term        |-> TermAfter(j, m.term),
                     voteGranted |-> GrantsVote(j, m)]
<1>1. Accepts(j, "RequestVote") /\ call[j].op = "idle" /\ backlog[j] # <<>>
  BY DEF HandleRequestVote, Accepts
<1>2. m.term \in Terms /\ m.candidateId \in Server
  BY <1>1, RequestTyped DEF RequestVoteRequest
<1>3. /\ TermAfter(j, m.term) \in Terms
      /\ VoteAfter(j, m.term) \in Server \cup {None}
      /\ Sound(StoreAfter(j, m.term))
      /\ StoreAfter(j, m.term).currentTerm = TermAfter(j, m.term)
  BY <1>2, TermAdopted
<1>4. reply \in Response
  <2>1. GrantsVote(j, m) \in BOOLEAN
    BY DEF GrantsVote
  <2> HIDE DEF m
  <2> QED
    BY <1>3, <2>1 DEF Response
<1>5. /\ Answer(j, reply)
      /\ AdoptTerm(j, m.term)
      /\ store' = [store EXCEPT ![j] = StoreAfter(j, m.term)]
      /\ votedFor' = [votedFor EXCEPT ![j] = IF GrantsVote(j, m)
                                             THEN m.candidateId
                                             ELSE VoteAfter(j, m.term)]
      /\ ballots' = IF GrantsVote(j, m)
                    THEN ballots \cup {<<m.term, j, m.candidateId>>} ELSE ballots
      /\ UNCHANGED <<leaderId, votesReceived, leaderVars, leaders>>
  BY DEF HandleRequestVote
<1> HIDE DEF m, reply
<1>6. votedFor' \in [Server -> Server \cup {None}]
  BY <1>2, <1>3, <1>5 DEF CoreInv, TypeOK
<1>7. leaderId' \in [Server -> Server \cup {None}]
  BY <1>5 DEF CoreInv, TypeOK
<1>8. ballots' \subseteq Terms \X Server \X Server
  <2>1. ballots \subseteq Terms \X Server \X Server
    BY DEF CoreInv, TypeOK
  <2> QED
    BY <1>2, <1>5, <2>1
<1> QED
  BY <1>1, <1>2, <1>3, <1>4, <1>5, <1>6, <1>7, <1>8, HandlerCore

\* What both outcomes of handle_append_entries have in common.
LEMMA AppendEntriesArrived ==
    ASSUME CoreInv, NEW j \in Server, ReceiveAppendEntries(j)
    PROVE  /\ call[j].op = "idle" /\ backlog[j] # <<>>
           /\ Request(j) \in AppendEntriesRequest
           /\ \E last \in Indices :
                 DOMAIN Request(j).entries = Request(j).prevLogIndex + 1 .. last
           /\ AdoptTerm(j, Request(j).term)
           /\ votedFor' \in [Server -> Server \cup {None}]
           /\ leaderId' \in [Server -> Server \cup {None}]
           /\ ballots' \subseteq Terms \X Server \X Server
           /\ UNCHANGED <<votesReceived, leaderVars, leaders>>
<1>1. /\ Accepts(j, "AppendEntries")
      /\ AdoptTerm(j, Request(j).term)
      /\ votedFor' = [votedFor EXCEPT ![j] = VoteAfter(j, Request(j).term)]
      /\ leaderId' = [leaderId EXCEPT ![j] = Request(j).leaderId]
      /\ UNCHANGED <<votesReceived, leaderVars, historyVars>>
  BY DEF ReceiveAppendEntries
<1>2. /\ Request(j) \in AppendEntriesRequest
      /\ \E last \in Indices :
            DOMAIN Request(j).entries = Request(j).prevLogIndex + 1 .. last
  BY <1>1, RequestTyped
<1>3. Request(j).term \in Terms /\ Request(j).leaderId \in Server
  BY <1>2 DEF AppendEntriesRequest
<1>4. VoteAfter(j, Request(j).term) \in Server \cup {None}
  BY <1>3, TermAdopted
<1> QED
  BY <1>1, <1>2, <1>3, <1>4 DEF Accepts, CoreInv, TypeOK, historyVars

LEMMA RejectAppendEntriesCore ==
    ASSUME CoreInv, NEW j \in Server, RejectAppendEntries(j)
    PROVE  CoreInv'
<1> DEFINE m == Request(j)
           reply == AppendEntriesReply(j, m, FALSE, 0)
<1>1. ReceiveAppendEntries(j)
  BY DEF RejectAppendEntries
<1>2. m \in AppendEntriesRequest /\ m.term \in Terms
  BY <1>1, AppendEntriesArrived DEF AppendEntriesRequest
<1>3. /\ TermAfter(j, m.term) \in Terms
      /\ Sound(StoreAfter(j, m.term))
      /\ StoreAfter(j, m.term).currentTerm = TermAfter(j, m.term)
  BY <1>2, TermAdopted
<1>4. reply \in Response
  <2>1. 0 \in Indices
    BY BoundsAssumption DEF Indices
  <2> HIDE DEF m
  <2> QED
    BY <1>3, <2>1 DEF AppendEntriesReply, Response
<1>5. Answer(j, reply) /\ store' = [store EXCEPT ![j] = StoreAfter(j, m.term)]
  BY DEF RejectAppendEntries
<1> HIDE DEF reply
<1> QED
  BY <1>1, <1>2, <1>3, <1>4, <1>5, AppendEntriesArrived, HandlerCore

\* The entry before the new ones is in the log when the check finds it there.
LEMMA MatchIsInLog ==
    ASSUME NEW s, Sound(s), NEW m \in AppendEntriesRequest, LogMatches(s, m)
    PROVE  m.prevLogIndex \in 0 .. s.lastLogIndex
<1>1. s.lastLogIndex \in Nat /\ m.prevLogIndex \in Nat
  BY BoundsAssumption DEF Sound, Store, Indices, AppendEntriesRequest
<1> QED
  BY <1>1 DEF LogMatches, Sound, Contiguous

\* The log a follower has on the way through an accepted request is sound, and
\* so is the one it has at the end.
LEMMA OnTheWaySound ==
    ASSUME CoreInv, NEW j \in Server, NEW m \in AppendEntriesRequest,
           NEW last \in Indices, DOMAIN m.entries = m.prevLogIndex + 1 .. last,
           LogMatches(store[j], m), NEW s \in OnTheWay(j, m)
    PROVE  Sound(s) /\ s.currentTerm = TermAfter(j, m.term)
<1> DEFINE adopted == StoreAfter(j, m.term)
           longer == AppendBatch(WithoutConflict(adopted, m.entries), m.entries)
<1>1. /\ m.term \in Terms /\ m.entries \in Log /\ m.leaderCommit \in Indices
      /\ m.prevLogIndex \in Indices
  BY DEF AppendEntriesRequest
<1>2. /\ Sound(adopted)
      /\ adopted.currentTerm = TermAfter(j, m.term)
      /\ adopted.lastLogIndex = store[j].lastLogIndex
  BY <1>1, TermAdopted
<1>3. m.prevLogIndex \in 0 .. adopted.lastLogIndex
  BY <1>2, MatchIsInLog, SoundStores DEF CoreInv
<1> HIDE DEF adopted
<1>4. ASSUME NEW end \in {m.prevLogIndex} \cup DOMAIN m.entries
      PROVE  \A t : t = AppendBatch(WithoutConflict(adopted, m.entries),
                                    EntriesUpTo(m.entries, end))
                => Sound(t) /\ t.currentTerm = TermAfter(j, m.term)
  <2> DEFINE entries == m.entries
             prev == m.prevLogIndex
             batch == EntriesUpTo(entries, end)
  <2>1. /\ entries \in Log /\ prev \in Indices
        /\ DOMAIN entries = prev + 1 .. last
        /\ end \in {prev} \cup DOMAIN entries
        /\ prev \in 0 .. adopted.lastLogIndex
    BY <1>1, <1>3, <1>4
  <2> HIDE DEF entries, prev
  <2>2. /\ batch \in Log /\ end \in Indices
        /\ DOMAIN batch = prev + 1 .. end
    BY <2>1, EntriesUpToFit
  <2> HIDE DEF batch
  <2>3. /\ Sound(AppendBatch(WithoutConflict(adopted, entries), batch))
        /\ AppendBatch(WithoutConflict(adopted, entries), batch).currentTerm
              = adopted.currentTerm
    BY <1>2, <2>1, <2>2, NewEntriesSound
  <2> QED
    BY <1>2, <2>3 DEF batch, entries
<1>5. Sound(longer) /\ longer.currentTerm = TermAfter(j, m.term)
  BY <1>1, <1>2, <1>3, NewEntriesSound
<1>6. /\ Sound(WithCommit(longer, m.leaderCommit))
      /\ WithCommit(longer, m.leaderCommit).currentTerm = TermAfter(j, m.term)
  <2> HIDE DEF longer
  <2> QED
    BY <1>1, <1>5, WithCommitSound
<1>7. \/ \E end \in {m.prevLogIndex} \cup DOMAIN m.entries :
            s = AppendBatch(WithoutConflict(adopted, m.entries),
                            EntriesUpTo(m.entries, end))
      \/ s = WithCommit(longer, m.leaderCommit)
  BY DEF OnTheWay, adopted
<1> QED
  BY <1>4, <1>6, <1>7

LEMMA AcceptAppendEntriesCore ==
    ASSUME CoreInv, NEW j \in Server, AcceptAppendEntries(j)
    PROVE  CoreInv'
<1> DEFINE m == Request(j)
           s == WithCommit(WithNewEntries(StoreAfter(j, m.term), m.entries),
                           m.leaderCommit)
           reply == AppendEntriesReply(j, m, TRUE, s.lastLogIndex)
<1>1. ReceiveAppendEntries(j) /\ LogMatches(store[j], m)
  BY DEF AcceptAppendEntries
<1>2. m \in AppendEntriesRequest /\ m.term \in Terms
  BY <1>1, AppendEntriesArrived DEF AppendEntriesRequest
<1>3. PICK last \in Indices : DOMAIN m.entries = m.prevLogIndex + 1 .. last
  BY <1>1, AppendEntriesArrived
<1>4. TermAfter(j, m.term) \in Terms
  BY <1>2, TermAdopted
<1>5. Answer(j, reply) /\ store' = [store EXCEPT ![j] = s]
  BY DEF AcceptAppendEntries
<1>6. s \in OnTheWay(j, m)
  BY DEF OnTheWay, WithNewEntries
<1>7. Sound(s) /\ s.currentTerm = TermAfter(j, m.term)
  <2> HIDE DEF m, s
  <2> QED
    BY <1>1, <1>2, <1>3, <1>6, OnTheWaySound
<1>8. reply \in Response
  <2> HIDE DEF m, s
  <2>1. s.lastLogIndex \in Indices
    BY <1>7 DEF Sound, Store
  <2> QED
    BY <1>4, <2>1 DEF AppendEntriesReply, Response
<1> HIDE DEF s, reply
<1> QED
  BY <1>1, <1>2, <1>5, <1>7, <1>8, AppendEntriesArrived, HandlerCore

LEMMA StartElectionCore ==
    ASSUME CoreInv, NEW i \in Server, StartElection(i), call[i].reply # Pending
    PROVE  CoreInv'
<1> USE BoundsAssumption
<1> DEFINE term == currentTerm[i] + 1
           s == SetCurrentTerm(store[i], term)
           c == LoopAt(i, "votes", 1)
<1>1. /\ currentTerm \in [Server -> Terms] /\ currentTerm[i] < MaxTerm
      /\ term \in Terms
  BY DEF CoreInv, TypeOK, StartElection, Terms
<1>2. Sound(s) /\ s.currentTerm = term
  BY <1>1, SoundStores, SetCurrentTermSound DEF CoreInv
<1>3. c \in Call /\ c.reply = Unsent /\ c.op # "off"
  BY LoopAtIsCall DEF Rounds
<1>4. /\ store' = [store EXCEPT ![i] = s]
      /\ currentTerm' = [currentTerm EXCEPT ![i] = term]
      /\ call' = [call EXCEPT ![i] = c]
      /\ UNCHANGED <<leaderId, leaderVars, leaders, backlog>>
  BY DEF StartElection
<1>5. /\ store' \in [Server -> Store]
      /\ LogContiguous'
      /\ \A j \in Server : store'[j] = IF j = i THEN s ELSE store[j]
  BY <1>2, <1>4, OneStoreChanges DEF CoreInv
<1>6. TransportInv'
  <2>1. \A j \in Server \ {i} : currentTerm'[j] = currentTerm[j]
    BY <1>1, <1>4
  <2> HIDE DEF c
  <2> QED
    BY <1>1, <1>3, <1>4, <2>1, CoreParts, TaskMoves
<1>7. TypeOK'
  <2>1. currentTerm' \in [Server -> Terms]
    BY <1>1, <1>4
  <2>2. /\ votedFor' \in [Server -> Server \cup {None}]
        /\ votesReceived' \in [Server -> SUBSET Server]
        /\ state' \in [Server -> {"Follower", "Candidate", "Leader"}]
        /\ ballots' \subseteq Terms \X Server \X Server
    BY <1>1 DEF StartElection, CoreInv, TypeOK
  <2> QED
    BY <1>4, <1>5, <1>6, <2>1, <2>2 DEF TypeOK, TransportInv, CoreInv, leaderVars
<1>8. TermOnDisk'
  <2>1. /\ call \in [Server -> Call]
        /\ \A j \in Server : call'[j] = IF j = i THEN c ELSE call[j]
    BY <1>4 DEF CoreInv, TypeOK
  <2> HIDE DEF c, s
  <2> QED
    BY <1>1, <1>2, <1>3, <1>4, <1>5, <2>1 DEF CoreInv, TermOnDisk
<1> QED
  BY <1>5, <1>6, <1>7, <1>8 DEF CoreInv, TransportInv

\* A task that has an answer is at a peer, and where it goes next is a call.
LEMMA AnswerInHand ==
    ASSUME CoreInv, NEW i \in Server, NEW op \in Rounds,
           NEW type \in {"failed", "AppendEntriesResponse", "RequestVoteResponse"},
           Got(i, op, type)
    PROVE  /\ call[i].reply # Pending
           /\ Callee(i) \in Server
           /\ LoopAt(i, call[i].op, call[i].k + 1) \in Call
           /\ LoopAt(i, call[i].op, call[i].k + 1).reply = Unsent
           /\ LoopAt(i, call[i].op, call[i].k + 1).op # "off"
<1>1. call[i].reply # Pending /\ call[i].reply # Unsent
  BY DEF Got, Pending, Unsent
<1>2. call[i].k \in 1 .. Len(Peers[i])
  BY <1>1 DEF CoreInv, CallAtPeer
<1>3. Callee(i) \in Server
  BY <1>2, PeerIsServer DEF Callee
<1>4. call[i].k + 1 \in Nat /\ call[i].op = op
  BY <1>2 DEF Got
<1>5. LoopAt(i, op, call[i].k + 1).op \in {"idle", op}
  BY <1>4, LoopAtIsCall
<1> QED
  BY <1>1, <1>3, <1>4, <1>5, LoopAtIsCall DEF Rounds

\* The steps of a task that change nothing else.
LEMMA ProceedCore ==
    ASSUME CoreInv, NEW i \in Server,
           NoVote(i) \/ HeartbeatAnswered(i) \/ ReplicationFailed(i) \/ SkipPeer(i)
    PROVE  CoreInv'
<1> DEFINE c == LoopAt(i, call[i].op, call[i].k + 1)
<1>1. /\ call' = [call EXCEPT ![i] = c]
      /\ UNCHANGED <<electionVars, leaderVars, historyVars, store, backlog>>
  BY DEF Proceed, NoVote, HeartbeatAnswered, ReplicationFailed, SkipPeer
<1>2. call[i].reply # Pending /\ c \in Call /\ c.reply = Unsent /\ c.op # "off"
  <2>1. CASE NoVote(i)
    BY <2>1, AnswerInHand DEF NoVote, Rounds
  <2>2. CASE HeartbeatAnswered(i)
    BY <2>2, AnswerInHand DEF HeartbeatAnswered, Rounds
  <2>3. CASE ReplicationFailed(i)
    BY <2>3, AnswerInHand DEF ReplicationFailed, Rounds
  <2>4. CASE SkipPeer(i)
    <3>1. /\ call[i].op \in Rounds /\ call[i].k + 1 \in Nat
          /\ call[i].reply = Unsent /\ Unsent # Pending
      BY <2>4 DEF SkipPeer, AtPeer, Unsent, Pending
    <3> QED
      BY <3>1, LoopAtIsCall DEF Rounds
  <2> QED
    BY <2>1, <2>2, <2>3, <2>4
<1> HIDE DEF c
<1> QED
  BY <1>1, <1>2, OnlyTask

\* A task that is not in a round waits for nobody.
LEMMA IdleWaitsForNobody ==
    ASSUME CoreInv, NEW i \in Server, ~InRound(i)
    PROVE  call[i].reply = Unsent /\ call[i].reply # Pending
  BY DEF CoreInv, CallAtPeer, Unsent, Pending

LEMMA CollectVoteCore ==
    ASSUME CoreInv, NEW i \in Server, CollectVote(i)
    PROVE  CoreInv'
<1> DEFINE c == LoopAt(i, call[i].op, call[i].k + 1)
<1>1. /\ call' = [call EXCEPT ![i] = c]
      /\ votesReceived' = [votesReceived EXCEPT ![i] = @ \cup {Callee(i)}]
      /\ UNCHANGED <<state, currentTerm, votedFor, leaderId, leaderVars,
                     historyVars, store, backlog>>
  BY DEF CollectVote, Proceed
<1>2. /\ call[i].reply # Pending /\ c \in Call /\ c.reply = Unsent /\ c.op # "off"
      /\ Callee(i) \in Server
  BY AnswerInHand DEF CollectVote, Granted, Rounds
<1> HIDE DEF c
<1>3. TransportInv'
  BY <1>1, <1>2, CoreParts, TaskMoves DEF TypeOK
<1>4. TypeOK'
  BY <1>1, <1>2, <1>3 DEF TypeOK, TransportInv, CoreInv, leaderVars, historyVars
<1>5. LogContiguous' /\ TermOnDisk'
  BY <1>1, <1>2 DEF CoreInv, TypeOK, LogContiguous, TermOnDisk
<1> QED
  BY <1>3, <1>4, <1>5 DEF CoreInv, TransportInv

LEMMA WinElectionCore ==
    ASSUME CoreInv, NEW i \in Server, WinElection(i)
    PROVE  CoreInv'
<1>1. /\ call' = [call EXCEPT ![i] = Idle]
      /\ UNCHANGED <<currentTerm, votedFor, leaderVars, ballots, store, backlog>>
  BY DEF WinElection
<1>2. call[i].reply # Pending /\ Callee(i) \in Server
  BY AnswerInHand DEF WinElection, Granted, Rounds
<1>3. Idle \in Call /\ Idle.reply = Unsent /\ Idle.op # "off"
  BY DEF Idle, Call, Response
<1>4. TransportInv'
  BY <1>1, <1>2, <1>3, CoreParts, TaskMoves DEF TypeOK
<1>5. TypeOK'
  <2>1. /\ votesReceived' \in [Server -> SUBSET Server]
        /\ state' \in [Server -> {"Follower", "Candidate", "Leader"}]
        /\ leaderId' \in [Server -> Server \cup {None}]
    BY <1>2 DEF WinElection, CoreInv, TypeOK
  <2>2. leaders' \subseteq Terms \X Server
    <3>1. leaders' = leaders \cup {<<currentTerm[i], i>>}
      BY DEF WinElection
    <3>2. currentTerm[i] \in Terms /\ leaders \subseteq Terms \X Server
      BY DEF CoreInv, TypeOK
    <3> QED
      BY <3>1, <3>2
  <2> QED
    BY <1>1, <1>4, <2>1, <2>2 DEF TypeOK, TransportInv, CoreInv, leaderVars
<1>6. LogContiguous' /\ TermOnDisk'
  BY <1>1, <1>3 DEF CoreInv, TypeOK, LogContiguous, TermOnDisk
<1> QED
  BY <1>4, <1>5, <1>6 DEF CoreInv, TransportInv

LEMMA StartHeartbeatsCore ==
    ASSUME CoreInv, NEW i \in Server, StartHeartbeats(i)
    PROVE  CoreInv'
<1> DEFINE c == LoopAt(i, "heartbeats", 1)
<1>1. /\ call[i].op = "idle"
      /\ call' = [call EXCEPT ![i] = c]
      /\ UNCHANGED <<electionVars, leaderVars, historyVars, store, backlog>>
  BY DEF StartHeartbeats
<1>2. c \in Call /\ c.reply = Unsent /\ c.op # "off"
  BY LoopAtIsCall DEF Rounds
<1>3. call[i].reply # Pending
  BY <1>1, IdleWaitsForNobody DEF InRound, Rounds
<1> HIDE DEF c
<1> QED
  BY <1>1, <1>2, <1>3, OnlyTask

\* A node appends or commits entries and its task goes on.
LEMMA StoreCore ==
    ASSUME CoreInv, NEW i \in Server, NEW c \in Call, NEW s, Sound(s),
           s.currentTerm = currentTerm[i],
           call[i].reply # Pending, c.reply = Unsent, c.op # "off",
           call' = [call EXCEPT ![i] = c],
           store' = [store EXCEPT ![i] = s],
           UNCHANGED <<electionVars, leaderVars, historyVars, backlog>>
    PROVE  CoreInv'
<1>1. currentTerm' = currentTerm /\ backlog' = backlog
  BY DEF electionVars
<1>2. TransportInv'
  BY <1>1, CoreParts, TaskMoves DEF TypeOK
<1>3. /\ store' \in [Server -> Store]
      /\ LogContiguous'
      /\ \A j \in Server : store'[j] = IF j = i THEN s ELSE store[j]
  BY OneStoreChanges DEF CoreInv
<1>4. TypeOK'
  BY <1>1, <1>2, <1>3
  DEF TypeOK, TransportInv, CoreInv, electionVars, leaderVars, historyVars
<1>5. TermOnDisk'
  BY <1>1, <1>3 DEF CoreInv, TypeOK, TermOnDisk
<1> QED
  BY <1>2, <1>3, <1>4, <1>5 DEF CoreInv, TransportInv

LEMMA ClientAppendCore ==
    ASSUME CoreInv, NEW i \in Server, NEW command \in Command,
           ClientAppend(i, command)
    PROVE  CoreInv'
<1> USE BoundsAssumption
<1> DEFINE id    == store[i].lastLogIndex + 1
           entry == [term |-> currentTerm[i], command |-> command,
                     committed |-> FALSE]
           batch == [n \in {id} |-> entry]
           s     == AppendBatch(store[i], batch)
           c     == LoopAt(i, "replicate", 1)
<1>1. /\ call[i].op = "idle"
      /\ call' = [call EXCEPT ![i] = c]
      /\ store' = [store EXCEPT ![i] = s]
      /\ UNCHANGED <<electionVars, leaderVars, historyVars, backlog>>
  BY DEF ClientAppend
<1>2. /\ Sound(store[i]) /\ store[i].currentTerm = currentTerm[i]
      /\ currentTerm[i] \in Terms
  BY SoundStores DEF CoreInv, TypeOK, TermOnDisk
<1>3. /\ store[i].lastLogIndex \in 0 .. store[i].lastLogIndex
      /\ id \in Indices /\ id >= 1
      /\ {id} = store[i].lastLogIndex + 1 .. id
  BY <1>2 DEF ClientAppend, Sound, Store, Indices
<1>4. batch \in Log /\ DOMAIN batch = {id}
  <2>1. entry \in Entry
    BY <1>2 DEF Entry
  <2>2. id \in 1 .. MaxLog
    BY <1>3 DEF Indices
  <2> HIDE DEF entry, id
  <2>3. batch \in [{id} -> Entry] /\ DOMAIN batch = {id}
    BY <2>1
  <2> QED
    BY <2>2, <2>3, LogMembership
<1>5. Sound(s) /\ s.currentTerm = currentTerm[i]
  <2> HIDE DEF batch
  <2> QED
    BY <1>2, <1>3, <1>4, AppendBatchSound
<1>6. c \in Call /\ c.reply = Unsent /\ c.op # "off"
  BY LoopAtIsCall DEF Rounds
<1>7. call[i].reply # Pending
  BY <1>1, IdleWaitsForNobody DEF InRound, Rounds
<1> HIDE DEF c, s
<1> QED
  BY <1>1, <1>5, <1>6, <1>7, StoreCore

\* What a leader learns of a peer from its answer stays within the bounds.
LEMMA ReplicationAnsweredCore ==
    ASSUME CoreInv, NEW i \in Server,
           ReplicationSucceeded(i) \/ ReplicationRejected(i)
    PROVE  CoreInv'
<1> USE BoundsAssumption
<1> DEFINE c == LoopAt(i, call[i].op, call[i].k + 1)
           peer == Callee(i)
<1>1. /\ Got(i, "replicate", "AppendEntriesResponse")
      /\ call' = [call EXCEPT ![i] = c]
      /\ UNCHANGED <<electionVars, historyVars, store, backlog>>
  BY DEF ReplicationSucceeded, ReplicationRejected, Proceed
<1>2. /\ call[i].reply # Pending /\ c \in Call /\ c.reply = Unsent /\ c.op # "off"
      /\ peer \in Server
  BY <1>1, AnswerInHand DEF Rounds
<1>3. call[i].reply.matchIndex \in Indices
  <2>1. call[i].reply \in Response /\ call[i].reply.type = "AppendEntriesResponse"
    BY <1>1 DEF CoreInv, TypeOK, Call, Got
  <2> QED
    BY <2>1 DEF Response, Unsent, Pending, Failed
<1> HIDE DEF c
<1>4. TransportInv'
  BY <1>1, <1>2, CoreParts, TaskMoves DEF TypeOK, electionVars
<1>5. /\ nextIndex' \in [Server -> [Server -> 1 .. MaxLog + 1]]
      /\ matchIndex' \in [Server -> [Server -> Indices]]
  <2>1. /\ nextIndex \in [Server -> [Server -> 1 .. MaxLog + 1]]
        /\ matchIndex \in [Server -> [Server -> Indices]]
    BY DEF CoreInv, TypeOK
  <2>2. CASE ReplicationSucceeded(i)
    <3> DEFINE match == call[i].reply.matchIndex
    <3>1. /\ nextIndex' = [nextIndex EXCEPT ![i][peer] = match + 1]
          /\ matchIndex' = [matchIndex EXCEPT ![i][peer] = match]
      BY <2>2 DEF ReplicationSucceeded
    <3>2. match + 1 \in 1 .. MaxLog + 1
      BY <1>3 DEF Indices
    <3> HIDE DEF match, peer
    <3> QED
      BY <1>2, <1>3, <2>1, <3>1, <3>2 DEF match
  <2>3. CASE ReplicationRejected(i)
    <3> DEFINE next == OneBack(nextIndex[i][peer])
    <3>1. nextIndex' = [nextIndex EXCEPT ![i][peer] = next] /\ matchIndex' = matchIndex
      BY <2>3 DEF ReplicationRejected
    <3>2. nextIndex[i][peer] \in 1 .. MaxLog + 1
      BY <1>2, <2>1
    <3>3. next \in 1 .. MaxLog + 1
      BY <3>2 DEF OneBack
    <3> HIDE DEF next, peer
    <3> QED
      BY <1>2, <2>1, <3>1, <3>3
  <2> QED
    BY <2>2, <2>3
<1>6. TypeOK'
  BY <1>1, <1>4, <1>5 DEF TypeOK, TransportInv, CoreInv, electionVars, historyVars
<1>7. LogContiguous' /\ TermOnDisk'
  BY <1>1, <1>2 DEF CoreInv, TypeOK, LogContiguous, TermOnDisk, electionVars
<1> QED
  BY <1>4, <1>6, <1>7 DEF CoreInv, TransportInv

\* What append_command commits is an index of the log.
LEMMA CommittableIsIndex ==
    ASSUME NEW i \in Server, Sound(store[i]), NEW n \in Committable(i)
    PROVE  n \in Indices
<1> USE BoundsAssumption
<1>1. store[i].lastLogIndex \in Indices /\ store[i].commitIndex \in Indices
  BY DEF Sound, Store
<1>2. CASE Peers[i] = <<>>
  BY <1>1, <1>2 DEF Committable
<1>3. CASE Peers[i] # <<>>
  <2>1. n \in (store[i].commitIndex + 1) .. store[i].lastLogIndex
    BY <1>3 DEF Committable, Acknowledged
  <2> QED
    BY <1>1, <2>1 DEF Indices
<1> QED
  BY <1>2, <1>3

LEMMA FinishAppendCore ==
    ASSUME CoreInv, NEW i \in Server, FinishAppend(i)
    PROVE  CoreInv'
<1> USE BoundsAssumption
<1>1. /\ call[i].k = Len(Peers[i]) + 1
      /\ call' = [call EXCEPT ![i] = Idle]
      /\ UNCHANGED <<electionVars, leaderVars, historyVars, backlog>>
  BY DEF FinishAppend
<1>2. call[i].reply # Pending
  <2>1. Len(Peers[i]) \in Nat
    BY PeersAssumption
  <2>2. call[i].k \notin 1 .. Len(Peers[i])
    BY <1>1, <2>1
  <2> QED
    BY <2>2 DEF CoreInv, CallAtPeer, Unsent, Pending
<1>3. Idle \in Call /\ Idle.reply = Unsent /\ Idle.op # "off"
  BY DEF Idle, Call, Response
<1>4. Sound(store[i]) /\ store[i].currentTerm = currentTerm[i]
  BY SoundStores DEF CoreInv, TermOnDisk
<1>5. CASE UNCHANGED store
  BY <1>1, <1>2, <1>3, <1>5, OnlyTask
<1>6. CASE \E n \in Committable(i) : store' = [store EXCEPT ![i] = CommitUpTo(@, n)]
  <2>1. PICK n \in Committable(i) : store' = [store EXCEPT ![i] = CommitUpTo(@, n)]
    BY <1>6
  <2> DEFINE s == CommitUpTo(store[i], n)
  <2>2. Sound(s) /\ s.currentTerm = currentTerm[i]
    BY <1>4, CommittableIsIndex, CommitUpToSound
  <2>3. store' = [store EXCEPT ![i] = s]
    BY <2>1
  <2> HIDE DEF s
  <2> QED
    BY <1>1, <1>2, <1>3, <2>2, <2>3, StoreCore
<1> QED
  BY <1>5, <1>6 DEF FinishAppend

\* What happens to the tasks when one node dies.
LEMMA TasksAfterDeath ==
    ASSUME CoreInv, NEW i \in Server, Dies(i)
    PROVE  /\ call'[i].op = "crashed"
           /\ \A j \in Server \ {i} : call'[j].op = call[j].op
  BY DEF Dies, Down, CoreInv, TypeOK, Call

\* A node that dies in a handler leaves a sound log with the adopted term.
LEMMA DeathInHandler ==
    ASSUME CoreInv, NEW j \in Server, CrashServing(j)
    PROVE  /\ \E type \in {"AppendEntries", "RequestVote"} : Accepts(j, type)
           /\ Request(j).term \in Terms
           /\ AdoptTerm(j, Request(j).term)
           /\ votedFor' = [votedFor EXCEPT ![j] = VoteAfter(j, Request(j).term)]
           /\ Dies(j)
           /\ UNCHANGED <<leaderId, votesReceived, leaderVars, historyVars>>
           /\ \E s : /\ Sound(s) /\ s.currentTerm = TermAfter(j, Request(j).term)
                     /\ store' = [store EXCEPT ![j] = s]
<1> DEFINE m == Request(j)
<1>1. /\ call[j].op = "idle" /\ backlog[j] # <<>>
      /\ AdoptTerm(j, m.term)
      /\ votedFor' = [votedFor EXCEPT ![j] = VoteAfter(j, m.term)]
      /\ Dies(j)
      /\ UNCHANGED <<leaderId, votesReceived, leaderVars, historyVars>>
  BY DEF CrashServing
<1>2. Accepts(j, m.type) /\ m.type \in {"AppendEntries", "RequestVote"}
  <2>1. backlog[j] \in Seq(Connection)
    BY CoreParts DEF TransportInv
  <2>2. m = backlog[j][1].request /\ 1 \in 1 .. Len(backlog[j])
    BY <1>1, <2>1, TailOfBacklog DEF Request
  <2>3. m \in AppendEntriesRequest \cup RequestVoteRequest
    BY <2>1, <2>2, ConnectionAt
  <2> QED
    BY <1>1, <2>3 DEF Accepts, Request, AppendEntriesRequest, RequestVoteRequest
<1>3. m.term \in Terms
  BY <1>2, RequestTyped DEF AppendEntriesRequest, RequestVoteRequest
<1>4. /\ Sound(StoreAfter(j, m.term))
      /\ StoreAfter(j, m.term).currentTerm = TermAfter(j, m.term)
  BY <1>3, TermAdopted
<1>5. CASE store' = [store EXCEPT ![j] = StoreAfter(j, m.term)]
  BY <1>1, <1>2, <1>3, <1>4, <1>5
<1>6. ASSUME m.type = "AppendEntries", LogMatches(store[j], m),
             NEW s \in OnTheWay(j, m), store' = [store EXCEPT ![j] = s]
      PROVE  Sound(s) /\ s.currentTerm = TermAfter(j, m.term)
  <2>1. /\ m \in AppendEntriesRequest
        /\ \E last \in Indices : DOMAIN m.entries = m.prevLogIndex + 1 .. last
    BY <1>2, <1>6, RequestTyped
  <2> HIDE DEF m
  <2> QED
    BY <1>6, <2>1, OnTheWaySound
<1> QED
  BY <1>1, <1>2, <1>3, <1>5, <1>6 DEF CrashServing

LEMMA CrashServingCore ==
    ASSUME CoreInv, NEW j \in Server, CrashServing(j)
    PROVE  CoreInv'
<1> DEFINE term == Request(j).term
<1>1. /\ term \in Terms
      /\ AdoptTerm(j, term)
      /\ votedFor' = [votedFor EXCEPT ![j] = VoteAfter(j, term)]
      /\ Dies(j)
      /\ UNCHANGED <<leaderId, votesReceived, leaderVars, historyVars>>
  BY DeathInHandler
<1>2. PICK s : /\ Sound(s) /\ s.currentTerm = TermAfter(j, term)
               /\ store' = [store EXCEPT ![j] = s]
  BY DeathInHandler
<1> HIDE DEF term
<1>3. /\ TermAfter(j, term) \in Terms
      /\ VoteAfter(j, term) \in Server \cup {None}
      /\ currentTerm \in [Server -> Terms]
  BY <1>1, TermAdopted DEF CoreInv, TypeOK
<1>4. \A i \in Server : currentTerm'[i] = IF i = j THEN TermAfter(j, term)
                                          ELSE currentTerm[i]
  BY <1>1, <1>3 DEF AdoptTerm
<1>5. TransportInv'
  BY <1>1, <1>4, CoreParts, NodeDies
<1>6. /\ store' \in [Server -> Store]
      /\ LogContiguous'
      /\ \A i \in Server : store'[i] = IF i = j THEN s ELSE store[i]
  BY <1>2, OneStoreChanges DEF CoreInv
<1>7. TypeOK'
  <2>1. state' \in [Server -> {"Follower", "Candidate", "Leader"}]
    BY <1>1 DEF CoreInv, TypeOK, AdoptTerm
  <2>2. currentTerm' \in [Server -> Terms]
    BY <1>1, <1>3 DEF AdoptTerm
  <2>3. votedFor' \in [Server -> Server \cup {None}]
    BY <1>1, <1>3 DEF CoreInv, TypeOK
  <2> QED
    BY <1>1, <1>5, <1>6, <2>1, <2>2, <2>3
    DEF CoreInv, TypeOK, TransportInv, leaderVars, historyVars
<1>8. TermOnDisk'
  BY <1>1, <1>2, <1>4, <1>6, TasksAfterDeath DEF CoreInv, TermOnDisk
<1> QED
  BY <1>5, <1>6, <1>7, <1>8, CoreParts DEF CoreInv, TransportInv

LEMMA CrashCommittingCore ==
    ASSUME CoreInv, NEW i \in Server, CrashCommitting(i)
    PROVE  CoreInv'
<1>1. Dies(i) /\ UNCHANGED <<electionVars, leaderVars, historyVars>>
  BY DEF CrashCommitting
<1>2. PICK n \in Committable(i) : store' = [store EXCEPT ![i] = CommitUpTo(@, n)]
  BY DEF CrashCommitting
<1> DEFINE s == CommitUpTo(store[i], n)
<1>3. Sound(s) /\ s.currentTerm = currentTerm[i]
  <2>1. Sound(store[i]) /\ store[i].currentTerm = currentTerm[i]
    BY SoundStores DEF CoreInv, TermOnDisk
  <2> QED
    BY <2>1, CommittableIsIndex, CommitUpToSound
<1>4. store' = [store EXCEPT ![i] = s]
  BY <1>2
<1> HIDE DEF s
<1>5. /\ store' \in [Server -> Store]
      /\ LogContiguous'
      /\ \A j \in Server : store'[j] = IF j = i THEN s ELSE store[j]
  BY <1>3, <1>4, OneStoreChanges DEF CoreInv
<1>6. currentTerm' = currentTerm
  BY <1>1 DEF electionVars
<1>7. TransportInv'
  BY <1>1, <1>6, CoreParts, NodeDies
<1>8. TypeOK'
  BY <1>1, <1>5, <1>7
  DEF TypeOK, TransportInv, CoreInv, electionVars, leaderVars, historyVars
<1>9. TermOnDisk'
  BY <1>1, <1>3, <1>5, <1>6, TasksAfterDeath DEF CoreInv, TermOnDisk
<1> QED
  BY <1>5, <1>7, <1>8, <1>9 DEF CoreInv, TransportInv

LEMMA CrashCore ==
    ASSUME CoreInv, NEW i \in Server, Crash(i)
    PROVE  CoreInv'
<1>1. CASE CrashBetween(i)
  <2>1. UNCHANGED <<electionVars, leaderVars, historyVars, store>> /\ Dies(i)
    BY <1>1 DEF CrashBetween
  <2>2. TransportInv'
    BY <2>1, NodeDies, CoreParts DEF electionVars
  <2>3. \A j \in Server : call'[j].op = "off" => call[j].op = "off"
    BY <2>1, TasksAfterDeath
  <2> QED
    BY <2>1, <2>2, <2>3, OnlyTransport
<1> QED
  BY <1>1, CrashServingCore, CrashCommittingCore DEF Crash

LEMMA BreakCore ==
    ASSUME CoreInv, NEW i \in Server, Break(i)
    PROVE  CoreInv'
<1>1. TransportInv'
  BY ConnectionBreaks, CoreParts
<1>2. UNCHANGED <<electionVars, leaderVars, historyVars, store>>
  BY DEF Break
<1>3. \A j \in Server : call'[j].op = call[j].op
  BY DEF Break, CoreInv, TypeOK, Call
<1> QED
  BY <1>1, <1>2, <1>3, OnlyTransport

LEMMA DropConnectionCore ==
    ASSUME CoreInv, NEW j \in Server, DropConnection(j)
    PROVE  CoreInv'
<1>1. UNCHANGED <<electionVars, leaderVars, historyVars, store, call>>
  BY DEF DropConnection
<1>2. TransportInv'
  BY <1>1, ConnectionDropped, CoreParts DEF DropConnection, electionVars
<1> QED
  BY <1>1, <1>2, OnlyTransport

-----------------------------------------------------------------------------
LEMMA InitCore == Init => CoreInv
<1> SUFFICES ASSUME Init PROVE CoreInv
  OBVIOUS
<1> USE BoundsAssumption
<1>1. /\ 0 \in Terms /\ 0 \in Indices /\ 1 \in 1 .. MaxLog + 1
  BY DEF Terms, Indices
<1>2. EmptyStore \in Store /\ Sound(EmptyStore)
  <2>1. DOMAIN EmptyLog = 1 .. 0
    BY EmptyLogIsLog
  <2>2. EmptyStore \in Store
    BY <1>1, EmptyLogIsLog DEF EmptyStore, Store
  <2> QED
    BY <2>1, <2>2 DEF EmptyStore, Sound, Contiguous
<1>3. Down("off") \in Call /\ Down("off").reply = Unsent
  BY DEF Down, Call, Response
<1>4. TypeOK
  <2>1. backlog \in [Server -> Seq(Connection)]
    BY DEF Init
  <2>2. call \in [Server -> Call]
    BY <1>3 DEF Init
  <2>3. store \in [Server -> Store]
    BY <1>2 DEF Init
  <2>4. /\ nextIndex \in [Server -> [Server -> 1 .. MaxLog + 1]]
        /\ matchIndex \in [Server -> [Server -> Indices]]
    BY <1>1 DEF Init
  <2> QED
    BY <1>1, <2>1, <2>2, <2>3, <2>4 DEF Init, TypeOK
<1>5. CallAtPeer
  BY <1>3 DEF Init, CallAtPeer
<1>6. LiveConnections /\ BatchesFit
  BY DEF Init, LiveConnections, BatchesFit
<1>7. LogContiguous /\ TermOnDisk
  BY <1>2 DEF Init, LogContiguous, TermOnDisk, Sound, Contiguous, EmptyStore
<1> QED
  BY <1>4, <1>5, <1>6, <1>7 DEF CoreInv

LEMMA StepCore ==
    ASSUME CoreInv, NEW i \in Server, Step(i)
    PROVE  CoreInv'
<1>1. CASE Launch(i)
  <2>1. ~IsUp(i) /\ Boot(i) /\ ~InRound(i)
    BY <1>1 DEF Launch, IsUp, InRound, Rounds
  <2> QED
    BY <2>1, IdleWaitsForNobody, BootCore
<1>2. CASE Serve(i)
  BY <1>2, HandleRequestVoteCore, RejectAppendEntriesCore,
     AcceptAppendEntriesCore, DropConnectionCore DEF Serve
<1>3. CASE Continue(i)
  BY <1>3, SendCore, WinElectionCore, CollectVoteCore, ProceedCore,
     ReplicationAnsweredCore, FinishAppendCore DEF Continue
<1>4. CASE StartElection(i)
  <2>1. ~InRound(i)
    BY <1>4 DEF StartElection, InRound, Rounds
  <2> QED
    BY <1>4, <2>1, IdleWaitsForNobody, StartElectionCore
<1>5. CASE StartHeartbeats(i)
  BY <1>5, StartHeartbeatsCore
<1>6. CASE \E command \in Command : ClientAppend(i, command)
  BY <1>6, ClientAppendCore
<1>7. CASE Break(i)
  BY <1>7, BreakCore
<1> QED
  BY <1>1, <1>2, <1>3, <1>4, <1>5, <1>6, <1>7 DEF Step, NodeStep

LEMMA RestartCore ==
    ASSUME CoreInv, NEW i \in Server, Restart(i)
    PROVE  CoreInv'
<1>1. ~IsUp(i) /\ Boot(i) /\ ~InRound(i)
  BY DEF Restart, IsUp, InRound, Rounds
<1> QED
  BY <1>1, IdleWaitsForNobody, BootCore

LEMMA NextCore ==
    ASSUME CoreInv, [NextWithRestarts]_vars
    PROVE  CoreInv'
<1>1. CASE NextWithRestarts
  BY <1>1, StepCore, CrashCore, RestartCore DEF NextWithRestarts
<1>2. CASE UNCHANGED vars
  <2>1. UNCHANGED <<state, currentTerm, votedFor, leaderId, votesReceived,
                    nextIndex, matchIndex, ballots, leaders, store, call, backlog>>
    BY <1>2 DEF vars, electionVars, leaderVars, historyVars
  <2>2. TransportInv'
    BY <2>1, CoreParts DEF TransportInv, CallAtPeer, InRound, LiveConnections,
       IsAwaited, AwaitsReplyFrom, Callee, BatchesFit
  <2> QED
    BY <2>1, <2>2, OnlyTransport DEF electionVars, leaderVars, historyVars
<1> QED
  BY <1>1, <1>2

\* CoreInv holds of the cluster with crashes and restarts.
THEOREM CoreInvariant == RestartSpec => []CoreInv
<1>1. CoreInv /\ [NextWithRestarts]_vars => CoreInv'
  BY NextCore
<1> QED
  BY InitCore, <1>1, PTL DEF RestartSpec

\* No value ever leaves its type, and nothing beyond the bounds is ever sent,
\* stored or answered, whatever fails.
THEOREM TypeCorrect == RestartSpec => []TypeOK
<1>1. CoreInv => TypeOK
  BY DEF CoreInv
<1> QED
  BY CoreInvariant, <1>1, PTL

\* The log of a node has no holes, in memory and on disk, whatever batches,
\* truncations and restarts it went through.
THEOREM LogsContiguous == RestartSpec => []LogContiguous
<1>1. CoreInv => LogContiguous
  BY DEF CoreInv
<1> QED
  BY CoreInvariant, <1>1, PTL

-----------------------------------------------------------------------------
\* The handlers adopt newer terms only.
LEMMA AdoptedTermNotLess ==
    ASSUME CoreInv, NEW j \in Server, NEW term \in Terms, AdoptTerm(j, term),
           NEW i \in Server
    PROVE  currentTerm'[i] >= currentTerm[i]
<1>1. currentTerm \in [Server -> Terms] /\ \A n \in Server : currentTerm[n] \in Int
  BY BoundsAssumption DEF CoreInv, TypeOK, Terms
<1>2. TermAfter(j, term) >= currentTerm[j]
  BY TermAdopted
<1> QED
  BY <1>1, <1>2 DEF AdoptTerm

\* A node is started in the term that is on its disk, and that is the term it
\* had.
LEMMA BootTerm ==
    ASSUME CoreInv, NEW j \in Server, Boot(j), NEW i \in Server
    PROVE  currentTerm'[i] = currentTerm[i]
<1>1. Load(store[j]).currentTerm = currentTerm[j]
  BY SoundStores, LoadSound DEF CoreInv, TermOnDisk
<1> QED
  BY <1>1 DEF Boot, CoreInv, TypeOK

LEMMA StepTerm ==
    ASSUME CoreInv, NEW j \in Server, Step(j) \/ Crash(j) \/ Restart(j),
           NEW i \in Server
    PROVE  currentTerm'[i] >= currentTerm[i]
<1>1. currentTerm \in [Server -> Terms] /\ currentTerm[i] \in Int
  BY BoundsAssumption DEF CoreInv, TypeOK, Terms
<1>2. CASE Launch(j) \/ Restart(j)
  BY <1>1, <1>2, BootTerm DEF Launch, Restart
<1>3. CASE HandleRequestVote(j)
  <2>1. Accepts(j, "RequestVote") /\ AdoptTerm(j, Request(j).term)
    BY <1>3 DEF HandleRequestVote
  <2> QED
    BY <2>1, RequestTyped, AdoptedTermNotLess DEF RequestVoteRequest
<1>4. CASE RejectAppendEntries(j) \/ AcceptAppendEntries(j)
  <2>1. ReceiveAppendEntries(j)
    BY <1>4 DEF RejectAppendEntries, AcceptAppendEntries
  <2> QED
    BY <2>1, AppendEntriesArrived, AdoptedTermNotLess DEF AppendEntriesRequest
<1>5. CASE StartElection(j)
  <2>1. currentTerm' = [currentTerm EXCEPT ![j] = currentTerm[j] + 1]
    BY <1>5 DEF StartElection
  <2> QED
    BY <1>1, <2>1
<1>6. CASE \/ DropConnection(j) \/ Continue(j) \/ StartHeartbeats(j)
           \/ \E command \in Command : ClientAppend(j, command)
           \/ Break(j) \/ CrashBetween(j) \/ CrashCommitting(j)
  <2>1. UNCHANGED currentTerm
    BY <1>6 DEF DropConnection, Continue, StartHeartbeats, ClientAppend, Break,
       CrashBetween, CrashCommitting, Send, WinElection, CollectVote, NoVote, HeartbeatAnswered, SkipPeer,
       ReplicationSucceeded, ReplicationRejected, ReplicationFailed, FinishAppend,
       electionVars
  <2> QED
    BY <1>1, <2>1
<1>7. CASE CrashServing(j)
  BY <1>7, DeathInHandler, AdoptedTermNotLess
<1> QED
  BY <1>2, <1>3, <1>4, <1>5, <1>6, <1>7 DEF Step, NodeStep, Serve, Crash

\* The term of a node never falls, in a crash and a restart neither.
THEOREM TermsNeverFall == RestartSpec => TermNeverFalls
<1>1. CoreInv /\ [NextWithRestarts]_vars
      => [\A i \in Server : currentTerm'[i] >= currentTerm[i]]_vars
  BY StepTerm DEF NextWithRestarts
<1> QED
  BY CoreInvariant, <1>1, PTL DEF RestartSpec, TermNeverFalls
=============================================================================
