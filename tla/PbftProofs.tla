------------------------------ MODULE PbftProofs ------------------------------
(***************************************************************************)
(* Types and agreement, for every number of replicas, faults, clients and  *)
(* requests, every window, and every loss, order and repetition of the     *)
(* messages: AgreementInv is an inductive invariant, the logs agree and    *)
(* only grow, and what is executed is prepared at a quorum.                *)
(***************************************************************************)
EXTENDS PbftInvariants, TLAPS, FiniteSetTheorems, FunctionTheorems, SequenceTheorems, WellFoundedInduction

-------------------------------------------------------------------------------
(* Facts about numbers and quorums. *)

\* A set of naturals that is not empty has a least element.
LEMMA LeastNatural ==
  ASSUME NEW S \in SUBSET Nat, S # {}
  PROVE  \E least \in S : \A x \in S : least <= x
<1>1. PICK least \in S : \A x \in S : <<x, least>> \notin OpToRel(<, Nat)
  BY WFMin, NatLessThanWellFounded
<1>2. \A x \in S : ~(x < least)
  BY <1>1, Zenon DEF OpToRel
<1> QED  BY <1>2

\* Latest is the maximum of the numbers it is given.
LEMMA LatestIsMaximum ==
  ASSUME NEW old \in 0..MaxRequest, NEW numbers \in SUBSET (0..MaxRequest)
  PROVE  /\ Latest(old, numbers) \in {old} \cup numbers
         /\ \A k \in {old} \cup numbers : k <= Latest(old, numbers)
<1> DEFINE all == {old} \cup numbers
           below == {MaxRequest - k : k \in all}
<1>1. MaxRequest \in Nat
  BY PbftAssumption
<1>2. below \in SUBSET Nat /\ below # {}
  BY <1>1
<1>3. PICK least \in below : \A x \in below : least <= x
  <2> HIDE DEF below
  <2> QED  BY <1>2, LeastNatural
<1>4. PICK n \in all : least = MaxRequest - n
  BY <1>3
<1>5. ASSUME NEW k \in all
      PROVE  k <= n
  <2>1. MaxRequest - n <= MaxRequest - k
    BY <1>3, <1>4
  <2>2. all \subseteq Int
    BY <1>1
  <2> QED  BY <1>1, <1>4, <2>1, <2>2
<1> QED  BY <1>5 DEF Latest

\* A larger set of replicas is a quorum if a smaller one is.
LEMMA LargerQuorum ==
  ASSUME NEW S \in SUBSET Replica, NEW T \in SUBSET Replica, S \subseteq T
  PROVE  /\ Cardinality(S) \in Nat
         /\ Cardinality(T) \in Nat
         /\ Cardinality(S) <= Cardinality(T)
BY PbftAssumption, FS_Subset, FS_CardinalityType

\* In a finite set with a strict total order, where below[x] is what precedes x,
\* the number of elements below is the position: each from 0 to the size of the
\* set is that of one element.
LEMMA RankIsPosition ==
  ASSUME NEW S, IsFiniteSet(S), NEW below \in [S -> SUBSET S],
         \A x \in S : x \notin below[x],
         \A x, y \in S : x # y => x \in below[y] \/ y \in below[x],
         \A x, y \in S : x \in below[y] => below[x] \subseteq below[y]
  PROVE  /\ \A x \in S : Cardinality(below[x]) \in 0..(Cardinality(S) - 1)
         /\ \A x, y \in S : x \in below[y] => Cardinality(below[x]) < Cardinality(below[y])
         /\ \A x, y \in S : Cardinality(below[x]) = Cardinality(below[y]) => x = y
         /\ \A n \in 0..(Cardinality(S) - 1) : \E x \in S : Cardinality(below[x]) = n
<1> DEFINE N == Cardinality(S)
           rank == [x \in S |-> Cardinality(below[x])]
<1>1. N \in Nat
  BY FS_CardinalityType
<1>2. ASSUME NEW x \in S
      PROVE  /\ IsFiniteSet(below[x])
             /\ Cardinality(below[x]) \in 0..(N - 1)
  <2>1. below[x] \in SUBSET S /\ below[x] # S
    OBVIOUS
  <2>2. IsFiniteSet(below[x]) /\ Cardinality(below[x]) <= N /\ Cardinality(below[x]) # N
    BY <2>1, FS_Subset
  <2>3. Cardinality(below[x]) \in Nat
    BY <2>2, FS_CardinalityType
  <2> QED  BY <1>1, <2>2, <2>3
<1>3. ASSUME NEW x \in S, NEW y \in S, x \in below[y]
      PROVE  Cardinality(below[x]) < Cardinality(below[y])
  <2>1. below[x] \in SUBSET below[y] /\ below[x] # below[y]
    BY <1>3
  <2>2. Cardinality(below[x]) <= Cardinality(below[y]) /\ Cardinality(below[x]) # Cardinality(below[y])
    BY <1>2, <2>1, FS_Subset
  <2> QED  BY <1>1, <1>2, <2>2
<1>4. ASSUME NEW x \in S, NEW y \in S, Cardinality(below[x]) = Cardinality(below[y])
      PROVE  x = y
  BY <1>1, <1>2, <1>3, <1>4
<1>5. rank \in Injection(S, 0..(N - 1))
  <2>1. rank \in [S -> 0..(N - 1)]
    BY <1>2
  <2>2. \A x, y \in S : rank[x] = rank[y] => x = y
    BY <1>4
  <2> HIDE DEF rank, N
  <2> QED  BY <2>1, <2>2, Fun_IsInj
<1>6. IsFiniteSet(0..(N - 1)) /\ Cardinality(0..(N - 1)) = N
  <2> HIDE DEF N
  <2> QED  BY <1>1, FS_Interval
<1>7. rank \in Surjection(S, 0..(N - 1))
  <2> HIDE DEF rank
  <2> QED  BY <1>5, <1>6, FS_Injection
<1>8. \A n \in 0..(N - 1) : \E x \in S : rank[x] = n
  <2> DEFINE places == 0..(N - 1)
  <2>1. rank \in Surjection(S, places)
    BY <1>7
  <2> HIDE DEF rank, places
  <2>2. \A n \in places : \E x \in S : rank[x] = n
    BY ONLY <2>1, Fun_SurjectionProperties
  <2> QED  BY <2>2 DEF places
<1> QED  BY <1>2, <1>3, <1>4, <1>8

\* A function on 1..n is a sequence of length n.
LEMMA FunctionIsSequence ==
  ASSUME NEW S, NEW n \in Nat, NEW f \in [1..n -> S]
  PROVE  f \in Seq(S) /\ Len(f) = n
<1>1. f \in Seq(S)
  BY SeqDef
<1>2. Len(f) \in Nat /\ 1..Len(f) = 1..n
  BY <1>1, LenProperties
<1> QED  BY <1>1, <1>2

-------------------------------------------------------------------------------
(* Types. *)

\* What main handles is one of its own messages or one from the network.
LEMMA InboxMessage ==
  ASSUME TypeOK, NEW i \in Replica, NEW m \in Inbox(i)
  PROVE  /\ m \in Message
         /\ m \in signing[i] \/ m \in network
BY DEF TypeOK, NetworkTypeOK, ReplicaTypeOK, Inbox, Received

\* Handing over messages keeps the types.
LEMMA ProcessType ==
  ASSUME TypeOK, NEW i \in Replica, NEW done, NEW out \in SUBSET Message,
         Process(i, done, out)
  PROVE  /\ signing' \in [Replica -> SUBSET Message]
         /\ network' \subseteq Message
BY DEF TypeOK, NetworkTypeOK, ReplicaTypeOK, Process

\* AcceptedLog extends the log by the PrePrepares of the op numbers that
\* follow, taken from the message and the reorder buffer.
LEMMA AcceptedLogExtends ==
  ASSUME TypeOK, NEW i \in Replica, NEW m \in PrePrepareMessage, IsDue(i, m),
         NEW last \in m.op_number..(m.op_number + Cardinality(reorder[i])),
         IsLastDue(i, m, last)
  PROVE  LET accepted == AcceptedLog(i, m, last)
         IN  /\ last \in Nat
             /\ m.op_number = Len(log[i]) + 1
             /\ Len(log[i]) \in Nat
             /\ accepted \in Seq(PrePrepareMessage)
             /\ Len(accepted) = last
             /\ \A k \in 1..Len(log[i]) : accepted[k] = log[i][k]
             /\ \A k \in m.op_number..last :
                  /\ accepted[k] \in PrePrepareMessage
                  /\ accepted[k].op_number = k
                  /\ accepted[k] = m \/ accepted[k] \in reorder[i]
<1> DEFINE accepted == AcceptedLog(i, m, last)
           bound == Cardinality(reorder[i])
<1>1. /\ log[i] \in Seq(PrePrepareMessage)
      /\ reorder[i] \subseteq PrePrepareMessage
  BY DEF TypeOK, ReplicaTypeOK
<1>2. Len(log[i]) \in Nat /\ m.op_number = Len(log[i]) + 1
  BY <1>1, LenProperties DEF IsDue, NextEntry
<1>3. last \in Nat /\ m.op_number <= last
  <2> HIDE DEF bound
  <2>1. last \in m.op_number..(m.op_number + bound)
    BY DEF bound
  <2> QED  BY <1>2, <2>1
<1>4. \A k \in 1..Len(log[i]) : accepted[k] = log[i][k]
  BY <1>2, <1>3 DEF AcceptedLog
<1>5. ASSUME NEW k \in m.op_number..last
      PROVE  /\ accepted[k] \in PrePrepareMessage
             /\ accepted[k].op_number = k
             /\ accepted[k] = m \/ accepted[k] \in reorder[i]
  <2>1. k \in 1..last
    BY <1>2, <1>3
  <2>2. CASE k = m.op_number
    BY <1>2, <2>1, <2>2 DEF AcceptedLog
  <2>3. CASE k # m.op_number
    <3>1. k \in OpNumbers(reorder[i])
      BY <1>2, <1>3, <2>3 DEF IsLastDue
    <3>2. accepted[k] = CHOOSE e \in reorder[i] : e.op_number = k
      BY <1>2, <1>3, <2>1, <2>3 DEF AcceptedLog
    <3> QED  BY <1>1, <3>1, <3>2 DEF OpNumbers
  <2> QED  BY <2>2, <2>3
<1>6. accepted \in [1..last -> PrePrepareMessage]
  <2>1. ASSUME NEW k \in 1..last  PROVE accepted[k] \in PrePrepareMessage
    <3>1. CASE k \in 1..Len(log[i])
      BY <1>1, <1>4, <3>1, ElementOfSeq
    <3>2. CASE k \in m.op_number..last
      BY <1>5, <3>2
    <3> QED  BY <1>2, <1>3, <3>1, <3>2
  <2> QED  BY <2>1 DEF AcceptedLog
<1> QED  BY <1>2, <1>3, <1>4, <1>5, <1>6, FunctionIsSequence

\* A slot is a request of a batch of the log, with its place.
LEMMA SlotOfLog ==
  ASSUME TypeOK, NEW i \in Replica, NEW lo \in OpNumber,
         NEW hi \in Nat, hi <= Len(log[i]), NEW x
  PROVE  x \in Slots(log[i], lo, hi) <=>
           /\ x \in Call
           /\ x.op_number \in lo..hi
           /\ x.index \in 1..Len(log[i][x.op_number].requests)
           /\ x.request = log[i][x.op_number].requests[x.index]
<1>1. log[i] \in Seq(PrePrepareMessage) /\ Len(log[i]) \in Nat
  BY LenProperties DEF TypeOK, ReplicaTypeOK
<1>2. ASSUME NEW k \in lo..hi
      PROVE  /\ k \in OpNumber
             /\ log[i][k].requests \in Seq(Request)
             /\ Len(log[i][k].requests) \in Nat
             /\ \A p \in 1..Len(log[i][k].requests) :
                  p \in OpNumber /\ log[i][k].requests[p] \in Request
  <2>1. k \in 1..Len(log[i]) /\ k \in OpNumber
    BY <1>1 DEF OpNumber
  <2>2. log[i][k] \in PrePrepareMessage
    BY <1>1, <2>1, ElementOfSeq
  <2>3. log[i][k].requests \in Seq(Request)
    BY <2>2 DEF PrePrepareMessage, Batch
  <2> QED  BY <2>1, <2>3, LenProperties, ElementOfSeq DEF OpNumber
<1>3. x \in Slots(log[i], lo, hi) <=>
        \E k \in lo..hi : \E p \in 1..Len(log[i][k].requests) :
          x = [op_number |-> k, index |-> p, request |-> log[i][k].requests[p]]
  BY DEF Slots
<1> QED  BY <1>2, <1>3 DEF Call

\* Executing keeps the types.
LEMMA ExecuteType ==
  ASSUME TypeOK, NEW i \in Replica, NEW commits, Execute(i, commits)
  PROVE  /\ execute_number' \in [Replica -> Nat]
         /\ app' \in [Replica -> SUBSET Call]
         /\ client_table' \in [Replica -> [Client -> 0..MaxRequest]]
         /\ replies' \subseteq ReplyMessage
<1> DEFINE exec == execute_number[i]
<1>1. exec \in Nat /\ Len(log[i]) \in Nat
  BY LenProperties DEF TypeOK, ReplicaTypeOK
<1>2. PICK to \in exec..Len(log[i]) :
        LET fresh == Fresh(client_table[i], Slots(log[i], exec + 1, to))
        IN  /\ execute_number' = [execute_number EXCEPT ![i] = to]
            /\ app' = [app EXCEPT ![i] = @ \cup fresh]
            /\ client_table' = [client_table EXCEPT ![i] =
                 [c \in Client |-> Latest(@[c],
                    {x.request.request_number :
                       x \in {y \in fresh : y.request.client = c}})]]
            /\ replies' = replies \cup {Reply(x.request, i) : x \in fresh}
  BY DEF Execute
<1> DEFINE fresh == Fresh(client_table[i], Slots(log[i], exec + 1, to))
           numbers(c) == {x.request.request_number :
                            x \in {y \in fresh : y.request.client = c}}
<1>3. to \in Nat /\ to <= Len(log[i])
  BY <1>1
<1>4. fresh \subseteq Call
  BY <1>1, <1>3, SlotOfLog DEF Fresh, OpNumber
<1>5. ASSUME NEW c \in Client
      PROVE  Latest(client_table[i][c], numbers(c)) \in 0..MaxRequest
  <2>1. client_table[i][c] \in 0..MaxRequest
    BY DEF TypeOK, ReplicaTypeOK
  <2>2. numbers(c) \in SUBSET (0..MaxRequest)
    BY <1>4, PbftAssumption DEF Call, Request
  <2> HIDE DEF numbers
  <2> QED  BY <2>1, <2>2, LatestIsMaximum
<1>6. replies' \subseteq ReplyMessage
  BY <1>2, <1>4 DEF TypeOK, NetworkTypeOK, Call, Request, Reply, ReplyMessage
<1>7. client_table' \in [Replica -> [Client -> 0..MaxRequest]]
  BY <1>2, <1>5 DEF TypeOK, ReplicaTypeOK
<1> QED  BY <1>2, <1>3, <1>4, <1>6, <1>7 DEF TypeOK, ReplicaTypeOK

LEMMA DoSendType ==
  ASSUME in_flight \in [Request -> Nat], NEW c, NEW n, DoSend(c, n)
  PROVE  in_flight' \in [Request -> Nat]
<1> DEFINE request == [client |-> c, request_number |-> n]
<1>1. in_flight' = [in_flight EXCEPT ![request] = @ + 1]
  BY DEF DoSend
<1> HIDE DEF request
<1>2. CASE request \in Request
  BY <1>1, <1>2
<1>3. CASE request \notin Request
  BY <1>1, <1>3
<1> QED  BY <1>2, <1>3

LEMMA ClientType ==
  ASSUME TypeOK, NEW c \in Client, ClientNext(c)
  PROVE  TypeOK'
<1>1. CASE Invoke(c)
  <2>1. in_flight' \in [Request -> Nat]
    BY <1>1, DoSendType DEF Invoke, TypeOK, NetworkTypeOK
  <2>2. request_number' \in [Client -> 0..MaxRequest]
    BY <1>1, PbftAssumption DEF Invoke, TypeOK, ClientTypeOK
  <2>3. pending' \in [Client -> BOOLEAN]
    BY <1>1 DEF Invoke, TypeOK, ClientTypeOK
  <2> QED  BY <1>1, <2>1, <2>2, <2>3 DEF ClientNext, Invoke, replicaVars, batchVars,
        orderVars, executeVars, TypeOK, NetworkTypeOK, ClientTypeOK, ReplicaTypeOK
<1>2. CASE ClientPoll(c)
  <2>1. /\ in_flight' \in [Request -> Nat]
        /\ resends' \in [Client -> 0..MaxResend]
    <3>1. CASE UNCHANGED <<in_flight, resends>>
      BY <3>1 DEF TypeOK, NetworkTypeOK, ClientTypeOK
    <3>2. CASE /\ resends[c] < MaxResend
               /\ DoSend(c, request_number[c])
               /\ resends' = [resends EXCEPT ![c] = @ + 1]
      BY <3>2, DoSendType, ResendAssumption DEF TypeOK, NetworkTypeOK, ClientTypeOK
    <3> QED  BY <1>2, <3>1, <3>2 DEF ClientPoll
  <2>2. /\ pending' \in [Client -> BOOLEAN]
        /\ results' \in [Client -> SUBSET Replica]
    <3>1. CASE UNCHANGED <<pending, results>>
      BY <3>1 DEF TypeOK, ClientTypeOK
    <3>2. CASE ReceiveReply(c)
      <4>1. PICK m \in replies :
              LET heard == results[c] \cup {m.replica_id}
                  done == EnoughResults(heard)
              IN  /\ results' = [results EXCEPT ![c] = IF done THEN {} ELSE heard]
                  /\ pending' = [pending EXCEPT ![c] = ~done]
        BY <3>2 DEF ReceiveReply
      <4>2. m.replica_id \in Replica
        BY DEF TypeOK, NetworkTypeOK, ReplyMessage
      <4>3. EnoughResults(results[c] \cup {m.replica_id}) \in BOOLEAN
        BY DEF EnoughResults
      <4> QED  BY <4>1, <4>2, <4>3 DEF TypeOK, ClientTypeOK
    <3> QED  BY <1>2, <3>1, <3>2 DEF ClientPoll
  <2> QED  BY <1>2, <2>1, <2>2 DEF ClientNext, ClientPoll, replicaVars, batchVars,
        orderVars, executeVars, TypeOK, NetworkTypeOK, ClientTypeOK, ReplicaTypeOK
<1> QED  BY <1>1, <1>2 DEF ClientNext

LEMMA HandleRequestType ==
  ASSUME TypeOK, NEW m \in Request, HandleRequest(m), UNCHANGED clientVars
  PROVE  TypeOK'
<1> DEFINE queue == Append(requests, m)
           batch == PrePrepare(op_number + 1, queue)
<1>1. queue \in Batch
  BY DEF TypeOK, ReplicaTypeOK, Batch
<1>2. batch \in Message
  BY <1>1 DEF PrePrepare, Message, PrePrepareMessage, Digest, Digests, OpNumber,
     TypeOK, ReplicaTypeOK
<1>3. Primary \in Replica
  BY PbftAssumption
<1>4. in_flight' \in [Request -> Nat]
  BY DEF HandleRequest, TypeOK, NetworkTypeOK
<1>5. replies' \subseteq ReplyMessage
  BY <1>3 DEF HandleRequest, Reply, ReplyMessage, Request, TypeOK, NetworkTypeOK
<1>6. op_number' \in Nat /\ requests' \in Batch
  <2>1. op_number \in Nat /\ requests \in Batch
    BY DEF TypeOK, ReplicaTypeOK
  <2>2. \/ UNCHANGED batchVars
        \/ CloseBatch(queue)
        \/ requests' = queue /\ UNCHANGED op_number
    BY DEF HandleRequest
  <2> HIDE DEF queue
  <2>3. <<>> \in Batch
    BY EmptySeq DEF Batch
  <2> QED  BY <1>1, <2>1, <2>2, <2>3 DEF CloseBatch, batchVars
<1>7. /\ signing' \in [Replica -> SUBSET Message]
      /\ network' \subseteq Message
  <2>1. CASE UNCHANGED <<signing, network>>
    BY <2>1 DEF TypeOK, NetworkTypeOK, ReplicaTypeOK
  <2>2. CASE Process(Primary, {}, {batch})
    BY <1>2, <1>3, <2>2, ProcessType
  <2> QED  BY <2>1, <2>2 DEF HandleRequest
<1> QED  BY <1>4, <1>5, <1>6, <1>7 DEF HandleRequest, orderVars, executeVars,
      clientVars, TypeOK, NetworkTypeOK, ClientTypeOK, ReplicaTypeOK

LEMMA HandlePrePrepareType ==
  ASSUME TypeOK, NEW i \in Replica, NEW m, HandlePrePrepare(i, m), UNCHANGED clientVars
  PROVE  TypeOK'
<1>1. m \in PrePrepareMessage
  BY InboxMessage DEF HandlePrePrepare, Message, VoteMessage
<1>2. /\ log' \in [Replica -> Seq(PrePrepareMessage)]
      /\ reorder' \in [Replica -> SUBSET PrePrepareMessage]
      /\ signing' \in [Replica -> SUBSET Message]
      /\ network' \subseteq Message
  <2>1. CASE ~IsDue(i, m)
    <3>1. Process(i, {m}, {})
      BY <2>1 DEF HandlePrePrepare
    <3>2. InsertReordered(i, m) \subseteq PrePrepareMessage
      BY <1>1 DEF InsertReordered, TypeOK, ReplicaTypeOK
    <3>3. /\ reorder' = [reorder EXCEPT ![i] = InsertReordered(i, m)]
          /\ UNCHANGED log
      BY <2>1 DEF HandlePrePrepare
    <3>4. /\ signing' \in [Replica -> SUBSET Message]
          /\ network' \subseteq Message
      BY <3>1, ProcessType
    <3> QED  BY <3>2, <3>3, <3>4 DEF TypeOK, ReplicaTypeOK
  <2>2. CASE IsDue(i, m)
    <3>1. PICK last \in m.op_number..(m.op_number + Cardinality(reorder[i])) :
            LET accepted == AcceptedLog(i, m, last)
            IN  /\ IsLastDue(i, m, last)
                /\ log' = [log EXCEPT ![i] = accepted]
                /\ reorder' = [reorder EXCEPT ![i] =
                     {e \in @ : e.op_number \notin (m.op_number + 1)..last}]
                /\ Process(i, {m},
                     IF i = Primary THEN {}
                     ELSE {Vote("Prepare", k, accepted[k].request_digest, i) :
                             k \in m.op_number..last})
      BY <2>2 DEF HandlePrePrepare
    <3> DEFINE accepted == AcceptedLog(i, m, last)
               out == IF i = Primary THEN {}
                      ELSE {Vote("Prepare", k, accepted[k].request_digest, i) :
                              k \in m.op_number..last}
    <3>2. /\ m.op_number \in OpNumber
          /\ accepted \in Seq(PrePrepareMessage)
          /\ \A k \in m.op_number..last : accepted[k] \in PrePrepareMessage
      BY <1>1, <2>2, <3>1, AcceptedLogExtends DEF PrePrepareMessage
    <3>3. out \in SUBSET Message
      BY <3>2 DEF Vote, Message, VoteMessage, PrePrepareMessage, OpNumber
    <3>4. Process(i, {m}, out)
      BY <3>1
    <3>5. /\ signing' \in [Replica -> SUBSET Message]
          /\ network' \subseteq Message
      <4> HIDE DEF out
      <4> QED  BY <3>3, <3>4, ProcessType
    <3> QED  BY <3>1, <3>2, <3>5 DEF TypeOK, ReplicaTypeOK
  <2> QED  BY <2>1, <2>2
<1> QED  BY <1>2 DEF HandlePrePrepare, batchVars, executeVars, clientVars,
      TypeOK, NetworkTypeOK, ClientTypeOK, ReplicaTypeOK

LEMMA BallotAdded ==
  ASSUME NEW quorums \in [Replica -> SUBSET Ballot], NEW i \in Replica,
         NEW ballot \in Ballot
  PROVE  [quorums EXCEPT ![i] = quorums[i] \cup {ballot}]
           \in [Replica -> SUBSET Ballot]
OBVIOUS

LEMMA HandlePrepareType ==
  ASSUME TypeOK, NEW i \in Replica, NEW m, HandlePrepare(i, m), UNCHANGED clientVars
  PROVE  TypeOK'
<1>1. m \in VoteMessage
  BY InboxMessage DEF HandlePrepare, Message, PrePrepareMessage
<1> DEFINE ballot == <<m.op_number, m.request_digest, m.replica_id>>
           commit == Vote("Commit", m.op_number, m.request_digest, i)
<1>2. ballot \in Ballot /\ commit \in Message
  BY <1>1 DEF VoteMessage, Ballot, Vote, Message
<1>3. prepare_quorums' \in [Replica -> SUBSET Ballot]
  <2>1. \/ UNCHANGED prepare_quorums
        \/ prepare_quorums' =
             [prepare_quorums EXCEPT ![i] = prepare_quorums[i] \cup {ballot}]
    BY DEF HandlePrepare
  <2>2. prepare_quorums \in [Replica -> SUBSET Ballot]
    BY DEF TypeOK, ReplicaTypeOK
  <2> HIDE DEF ballot
  <2> QED  BY <1>2, <2>1, <2>2, BallotAdded
<1>4. /\ signing' \in [Replica -> SUBSET Message]
      /\ network' \subseteq Message
  <2>1. Process(i, {m}, {}) \/ Process(i, {m}, {commit})
    BY DEF HandlePrepare
  <2> HIDE DEF commit
  <2> QED  BY <1>2, <2>1, ProcessType
<1> QED  BY <1>3, <1>4 DEF HandlePrepare, batchVars, orderVars, executeVars,
      clientVars, TypeOK, NetworkTypeOK, ClientTypeOK, ReplicaTypeOK

LEMMA HandleCommitType ==
  ASSUME TypeOK, NEW i \in Replica, NEW m, HandleCommit(i, m), UNCHANGED clientVars
  PROVE  TypeOK'
<1>1. m \in VoteMessage
  BY InboxMessage DEF HandleCommit, Message, PrePrepareMessage
<1> DEFINE ballot == <<m.op_number, m.request_digest, m.replica_id>>
           commits == commit_quorums[i] \cup {ballot}
           batch == PrePrepare(op_number + 1, requests)
<1>2. ballot \in Ballot /\ batch \in Message
  BY <1>1 DEF VoteMessage, Ballot, PrePrepare, Message, PrePrepareMessage, Digest,
     Digests, OpNumber, TypeOK, ReplicaTypeOK
<1>3. commit_quorums' \in [Replica -> SUBSET Ballot]
  <2>1. \/ UNCHANGED commit_quorums
        \/ commit_quorums' =
             [commit_quorums EXCEPT ![i] = commit_quorums[i] \cup {ballot}]
    BY DEF HandleCommit
  <2>2. commit_quorums \in [Replica -> SUBSET Ballot]
    BY DEF TypeOK, ReplicaTypeOK
  <2> HIDE DEF ballot
  <2> QED  BY <1>2, <2>1, <2>2, BallotAdded
<1>4. /\ execute_number' \in [Replica -> Nat]
      /\ app' \in [Replica -> SUBSET Call]
      /\ client_table' \in [Replica -> [Client -> 0..MaxRequest]]
      /\ replies' \subseteq ReplyMessage
  <2>1. UNCHANGED <<executeVars, replies>> \/ Execute(i, commits)
    BY DEF HandleCommit
  <2>2. CASE UNCHANGED <<executeVars, replies>>
    BY <2>2 DEF executeVars, TypeOK, NetworkTypeOK, ReplicaTypeOK
  <2>3. CASE Execute(i, commits)
    <3> HIDE DEF commits
    <3> QED  BY <2>3, ExecuteType
  <2> QED  BY <2>1, <2>2, <2>3
<1>5. /\ signing' \in [Replica -> SUBSET Message]
      /\ network' \subseteq Message
  <2>1. Process(i, {m}, {}) \/ Process(i, {m}, {batch})
    BY DEF HandleCommit
  <2> HIDE DEF batch
  <2> QED  BY <1>2, <2>1, ProcessType
<1>6. op_number' \in Nat /\ requests' \in Batch
  <2>1. UNCHANGED batchVars \/ CloseBatch(requests)
    BY DEF HandleCommit
  <2>2. <<>> \in Batch
    BY EmptySeq DEF Batch
  <2> QED  BY <2>1, <2>2 DEF CloseBatch, batchVars, TypeOK, ReplicaTypeOK
<1> QED  BY <1>3, <1>4, <1>5, <1>6 DEF HandleCommit, orderVars, clientVars,
      TypeOK, NetworkTypeOK, ClientTypeOK, ReplicaTypeOK

LEMMA InitType == Init => TypeOK
BY PbftAssumption, ResendAssumption, EmptySeq
   DEF Init, NetworkInit, ClientInit, ReplicaInit, TypeOK, NetworkTypeOK,
       ClientTypeOK, ReplicaTypeOK, Batch

LEMMA TypeStep == TypeOK /\ [Next]_vars => TypeOK'
<1> SUFFICES ASSUME TypeOK, [Next]_vars  PROVE TypeOK'
  OBVIOUS
<1>1. ASSUME NEW c \in Client, ClientNext(c)  PROVE TypeOK'
  BY <1>1, ClientType
<1>2. ASSUME NEW i \in Replica, ReplicaNext(i)  PROVE TypeOK'
  BY <1>2, HandleRequestType, HandlePrePrepareType, HandlePrepareType,
     HandleCommitType DEF ReplicaNext, MainPoll
<1>3. CASE UNCHANGED vars
  BY <1>3 DEF vars, networkVars, clientVars, replicaVars, batchVars, orderVars,
     executeVars, TypeOK, NetworkTypeOK, ClientTypeOK, ReplicaTypeOK
<1> QED  BY <1>1, <1>2, <1>3 DEF Next

\* Every variable stays in its type: what the handlers send is well formed, the
\* accepted PrePrepares form a sequence, and no number leaves its range.
THEOREM TypeCorrect == Spec => []TypeOK
BY InitType, TypeStep, PTL DEF Spec

-------------------------------------------------------------------------------
(* What a step does to the logs, the quorums and the network. *)

\* What a replica has accepted, counted or sent stays.
Grows ==
  /\ network \subseteq network'
  /\ op_number <= op_number'
  /\ \A i \in Replica :
       /\ Len(log[i]) <= Len(log'[i])
       /\ \A k \in 1..Len(log[i]) : log'[i][k] = log[i][k]
       /\ prepare_quorums[i] \subseteq prepare_quorums'[i]
       /\ commit_quorums[i] \subseteq commit_quorums'[i]

\* The messages a step sends: none, the next batch, the Prepares of entries
\* of a backup's log, or the Commit of a batch that is prepared.
Sends ==
  \/ UNCHANGED network /\ op_number' = op_number
  \/ \E batch \in Batch :
       /\ op_number' = op_number + 1
       /\ network' = network \cup {PrePrepare(op_number + 1, batch)}
  \/ \E i \in Replica : \E lo \in OpNumber : \E hi \in 1..Len(log'[i]) :
       /\ op_number' = op_number
       /\ network' = network \cup
            {Vote("Prepare", k, log'[i][k].request_digest, i) : k \in lo..hi}
  \/ \E i \in Replica : \E m \in network :
       /\ op_number' = op_number
       /\ m.type = "Prepare"
       /\ IsPrepared(log'[i], prepare_quorums'[i], m.op_number, m.request_digest)
       /\ network' = network \cup
            {Vote("Commit", m.op_number, m.request_digest, i)}

LEMMA LogType ==
  ASSUME TypeOK, NEW i \in Replica
  PROVE  /\ log[i] \in Seq(PrePrepareMessage)
         /\ Len(log[i]) \in Nat
         /\ \A k \in 1..Len(log[i]) : log[i][k] \in PrePrepareMessage
BY LenProperties, ElementOfSeq DEF TypeOK, ReplicaTypeOK

LEMMA ClientSteps ==
  ASSUME TypeOK, NEW c \in Client, ClientNext(c)
  PROVE  UNCHANGED <<replicaVars, network>>
BY DEF ClientNext, Invoke, ClientPoll

LEMMA PrePrepareSteps ==
  ASSUME TypeOK, OwnCopies, NEW i \in Replica, NEW m, HandlePrePrepare(i, m)
  PROVE  /\ Grows
         /\ Sends
         /\ \A k \in 1..Len(log'[i]) :
              \/ k \in 1..Len(log[i])
              \/ log'[i][k].op_number = k /\ log'[i][k] \in {m} \cup reorder[i]
         /\ reorder'[i] \subseteq {m} \cup reorder[i]
         /\ \A j \in Replica \ {i} : log'[j] = log[j] /\ reorder'[j] = reorder[j]
         /\ m \in PrePrepareMessage /\ m \in network
<1>1. m \in PrePrepareMessage /\ m \in network
  BY InboxMessage DEF HandlePrePrepare, Message, VoteMessage, OwnCopies
<1>2. /\ UNCHANGED <<batchVars, prepare_quorums, commit_quorums, executeVars>>
      /\ log \in [Replica -> Seq(PrePrepareMessage)]
      /\ reorder \in [Replica -> SUBSET PrePrepareMessage]
      /\ op_number \in Nat
      /\ Len(log[i]) \in Nat
  BY LogType DEF HandlePrePrepare, TypeOK, ReplicaTypeOK
<1>3. CASE ~IsDue(i, m)
  <2>1. /\ UNCHANGED log
        /\ reorder' = [reorder EXCEPT ![i] = InsertReordered(i, m)]
        /\ network' = network
    BY <1>3 DEF HandlePrePrepare, Process
  <2>2. Grows /\ Sends
    BY <1>2, <2>1, LogType DEF Grows, Sends, batchVars
  <2> QED  BY <1>1, <1>2, <2>1, <2>2 DEF InsertReordered
<1>4. CASE IsDue(i, m)
  <2>1. PICK last \in m.op_number..(m.op_number + Cardinality(reorder[i])) :
          LET accepted == AcceptedLog(i, m, last)
          IN  /\ IsLastDue(i, m, last)
              /\ log' = [log EXCEPT ![i] = accepted]
              /\ reorder' = [reorder EXCEPT ![i] =
                   {e \in @ : e.op_number \notin (m.op_number + 1)..last}]
              /\ Process(i, {m},
                   IF i = Primary THEN {}
                   ELSE {Vote("Prepare", k, accepted[k].request_digest, i) :
                           k \in m.op_number..last})
    BY <1>4 DEF HandlePrePrepare
  <2> DEFINE accepted == AcceptedLog(i, m, last)
  <2>2. /\ last \in Nat
        /\ m.op_number = Len(log[i]) + 1
        /\ m.op_number <= last
        /\ Len(accepted) = last
        /\ \A k \in 1..Len(log[i]) : accepted[k] = log[i][k]
        /\ \A k \in m.op_number..last :
             /\ accepted[k].op_number = k
             /\ accepted[k] = m \/ accepted[k] \in reorder[i]
    BY <1>1, <1>4, <2>1, AcceptedLogExtends
  <2>3. log'[i] = accepted /\ \A j \in Replica \ {i} : log'[j] = log[j]
    BY <1>2, <2>1
  <2>4. Grows
    <3> HIDE DEF accepted
    <3>1. network \subseteq network'
      BY <2>1 DEF Process
    <3>2. ASSUME NEW j \in Replica
          PROVE  /\ Len(log[j]) <= Len(log'[j])
                 /\ \A k \in 1..Len(log[j]) : log'[j][k] = log[j][k]
      <4>1. CASE j = i
        BY <1>2, <2>2, <2>3, <4>1
      <4>2. CASE j # i
        BY <2>3, <4>2, LogType
      <4> QED  BY <4>1, <4>2
    <3> QED  BY <1>2, <3>1, <3>2 DEF Grows, batchVars
  <2>5. Sends
    <3>1. CASE i = Primary
      BY <1>2, <2>1, <3>1 DEF Sends, Process, batchVars
    <3>2. CASE i # Primary
      <4>1. network' = network \cup
              {Vote("Prepare", k, log'[i][k].request_digest, i) :
                 k \in m.op_number..last}
        BY <2>1, <2>3, <3>2 DEF Process
      <4>2. m.op_number \in OpNumber /\ last \in 1..Len(log'[i])
        BY <1>1, <1>2, <2>2, <2>3 DEF PrePrepareMessage
      <4> QED  BY <1>2, <4>1, <4>2 DEF Sends, batchVars
    <3> QED  BY <3>1, <3>2
  <2>6. \A k \in 1..Len(log'[i]) :
          \/ k \in 1..Len(log[i])
          \/ log'[i][k].op_number = k /\ log'[i][k] \in {m} \cup reorder[i]
    <3> HIDE DEF accepted
    <3> QED  BY <1>2, <2>2, <2>3
  <2>7. /\ reorder'[i] \subseteq {m} \cup reorder[i]
        /\ \A j \in Replica \ {i} : reorder'[j] = reorder[j]
    BY <1>2, <2>1
  <2> QED  BY <1>1, <2>3, <2>4, <2>5, <2>6, <2>7
<1> QED  BY <1>3, <1>4

LEMMA RequestSteps ==
  ASSUME TypeOK, NEW m \in Request, HandleRequest(m)
  PROVE  /\ Grows
         /\ Sends
         /\ UNCHANGED <<orderVars, prepare_quorums, commit_quorums, executeVars>>
<1> DEFINE queue == Append(requests, m)
<1>1. queue \in Batch
  BY DEF TypeOK, ReplicaTypeOK, Batch
<1>2. UNCHANGED <<orderVars, prepare_quorums, commit_quorums, executeVars>>
  BY DEF HandleRequest
<1>3. \/ network' = network /\ op_number' = op_number
      \/ /\ op_number' = op_number + 1
         /\ network' = network \cup {PrePrepare(op_number + 1, queue)}
  <2> HIDE DEF queue
  <2> QED  BY DEF HandleRequest, CloseBatch, Process, batchVars, queue
<1>4. op_number \in Nat
  BY DEF TypeOK, ReplicaTypeOK
<1>5. Sends
  <2> HIDE DEF queue
  <2> QED  BY <1>1, <1>3 DEF Sends
<1>6. Grows
  <2> HIDE DEF queue
  <2> QED  BY <1>2, <1>3, <1>4, LogType DEF Grows, orderVars
<1> QED  BY <1>2, <1>5, <1>6

LEMMA PrepareSteps ==
  ASSUME TypeOK, OwnCopies, NEW i \in Replica, NEW m, HandlePrepare(i, m)
  PROVE  /\ Grows
         /\ Sends
         /\ UNCHANGED <<orderVars, commit_quorums, executeVars>>
         /\ m \in VoteMessage /\ m \in network /\ m.type = "Prepare"
         /\ prepare_quorums'[i] \subseteq prepare_quorums[i]
              \cup {<<m.op_number, m.request_digest, m.replica_id>>}
         /\ \A j \in Replica \ {i} : prepare_quorums'[j] = prepare_quorums[j]
<1> DEFINE ballot == <<m.op_number, m.request_digest, m.replica_id>>
           commit == Vote("Commit", m.op_number, m.request_digest, i)
<1>1. m \in VoteMessage /\ m \in network /\ m.type = "Prepare"
  BY InboxMessage DEF HandlePrepare, Message, PrePrepareMessage, OwnCopies
<1>2. /\ UNCHANGED <<batchVars, orderVars, commit_quorums, executeVars>>
      /\ prepare_quorums \in [Replica -> SUBSET Ballot]
      /\ op_number \in Nat
  BY DEF HandlePrepare, TypeOK, ReplicaTypeOK
<1>3. \/ UNCHANGED prepare_quorums
      \/ prepare_quorums' =
           [prepare_quorums EXCEPT ![i] = prepare_quorums[i] \cup {ballot}]
  BY DEF HandlePrepare
<1>4. /\ prepare_quorums[i] \subseteq prepare_quorums'[i]
      /\ prepare_quorums'[i] \subseteq prepare_quorums[i] \cup {ballot}
      /\ \A j \in Replica \ {i} : prepare_quorums'[j] = prepare_quorums[j]
  <2> HIDE DEF ballot
  <2> QED  BY <1>2, <1>3
<1>5. \/ network' = network
      \/ /\ IsPrepared(log[i], prepare_quorums'[i], m.op_number, m.request_digest)
         /\ network' = network \cup {commit}
  BY <1>2 DEF HandlePrepare, Process
<1>6. Sends
  BY <1>1, <1>2, <1>5 DEF Sends, batchVars, orderVars
<1>7. Grows
  <2> HIDE DEF ballot, commit
  <2>1. \A j \in Replica : prepare_quorums[j] \subseteq prepare_quorums'[j]
    BY <1>4
  <2> QED  BY <1>2, <1>5, <2>1, LogType DEF Grows, batchVars, orderVars
<1> QED  BY <1>1, <1>2, <1>4, <1>6, <1>7

LEMMA CommitSteps ==
  ASSUME TypeOK, OwnCopies, NEW i \in Replica, NEW m, HandleCommit(i, m)
  PROVE  /\ Grows
         /\ Sends
         /\ UNCHANGED <<orderVars, prepare_quorums>>
         /\ m \in VoteMessage /\ m \in network /\ m.type = "Commit"
         /\ commit_quorums'[i] \subseteq commit_quorums[i]
              \cup {<<m.op_number, m.request_digest, m.replica_id>>}
         /\ \A j \in Replica \ {i} : commit_quorums'[j] = commit_quorums[j]
         /\ \/ UNCHANGED executeVars
            \/ Execute(i, commit_quorums'[i])
<1> DEFINE ballot == <<m.op_number, m.request_digest, m.replica_id>>
           batch == PrePrepare(op_number + 1, requests)
<1>1. m \in VoteMessage /\ m \in network /\ m.type = "Commit"
  BY InboxMessage DEF HandleCommit, Message, PrePrepareMessage, OwnCopies
<1>2. /\ UNCHANGED <<orderVars, prepare_quorums>>
      /\ commit_quorums \in [Replica -> SUBSET Ballot]
      /\ op_number \in Nat /\ requests \in Batch
  BY DEF HandleCommit, TypeOK, ReplicaTypeOK
<1>3. \/ UNCHANGED <<commit_quorums, executeVars>>
      \/ /\ commit_quorums' =
              [commit_quorums EXCEPT ![i] = commit_quorums[i] \cup {ballot}]
         /\ \/ UNCHANGED executeVars
            \/ Execute(i, commit_quorums[i] \cup {ballot})
  BY DEF HandleCommit
<1>4. /\ commit_quorums[i] \subseteq commit_quorums'[i]
      /\ commit_quorums'[i] \subseteq commit_quorums[i] \cup {ballot}
      /\ \A j \in Replica \ {i} : commit_quorums'[j] = commit_quorums[j]
      /\ UNCHANGED executeVars \/ Execute(i, commit_quorums'[i])
  <2> HIDE DEF ballot
  <2>1. CASE UNCHANGED <<commit_quorums, executeVars>>
    BY <2>1
  <2>2. CASE commit_quorums' =
              [commit_quorums EXCEPT ![i] = commit_quorums[i] \cup {ballot}]
    <3>1. commit_quorums'[i] = commit_quorums[i] \cup {ballot}
      BY <1>2, <2>2
    <3> QED  BY <1>2, <1>3, <2>2, <3>1
  <2> QED  BY <1>3, <2>1, <2>2
<1>5. \/ network' = network /\ op_number' = op_number
      \/ op_number' = op_number + 1 /\ network' = network \cup {batch}
  <2> HIDE DEF batch
  <2> QED  BY DEF HandleCommit, CloseBatch, Process, batchVars, batch
<1>6. Sends
  BY <1>2, <1>5 DEF Sends
<1>7. Grows
  <2> HIDE DEF ballot, batch
  <2>1. \A j \in Replica : commit_quorums[j] \subseteq commit_quorums'[j]
    BY <1>4
  <2>2. network \subseteq network' /\ op_number <= op_number'
    BY <1>2, <1>5
  <2> QED  BY <1>2, <2>1, <2>2, LogType DEF Grows, orderVars
<1> QED  BY <1>1, <1>2, <1>4, <1>6, <1>7

LEMMA StutterSteps ==
  ASSUME TypeOK, UNCHANGED <<replicaVars, network>>
  PROVE  Grows /\ Sends
BY LogType DEF Grows, Sends, replicaVars, batchVars, orderVars, TypeOK, ReplicaTypeOK

-------------------------------------------------------------------------------
(* Consequences of Grows and Sends. *)

\* What is prepared stays prepared.
LEMMA PreparedStays ==
  ASSUME TypeOK, TypeOK', Grows, NEW i \in Replica, NEW op, NEW digest,
         IsPrepared(log[i], prepare_quorums[i], op, digest)
  PROVE  IsPrepared(log'[i], prepare_quorums'[i], op, digest)
<1> DEFINE before == Voters(prepare_quorums[i], op, digest)
           after == Voters(prepare_quorums'[i], op, digest)
<1>1. before \subseteq after /\ after \in SUBSET Replica
  BY DEF Voters, Grows
<1>2. /\ Cardinality(before) \in Nat
      /\ Cardinality(after) \in Nat
      /\ Cardinality(before) <= Cardinality(after)
  <2> HIDE DEF before, after
  <2> QED  BY <1>1, LargerQuorum
<1>3. op \in 1..Len(log[i]) /\ Cardinality(before) >= 2 * F
  BY DEF IsPrepared
<1>4. Len(log[i]) \in Nat /\ Len(log'[i]) \in Nat /\ Len(log[i]) <= Len(log'[i])
  BY LogType, LenProperties DEF Grows, TypeOK, ReplicaTypeOK
<1>5. op \in 1..Len(log'[i]) /\ Cardinality(after) >= 2 * F
  <2> HIDE DEF before, after
  <2> QED  BY <1>2, <1>3, <1>4, PbftAssumption
<1> QED  BY <1>5 DEF IsPrepared

\* What is committed stays committed.
LEMMA CommittedStays ==
  ASSUME TypeOK, TypeOK', Grows, NEW i \in Replica, NEW k, CommittedAt(i, k)
  PROVE  CommittedAt(i, k)'
<1> DEFINE digest == log[i][k].request_digest
           before == Voters(commit_quorums[i], k, digest)
           after == Voters(commit_quorums'[i], k, digest)
<1>1. before \subseteq after /\ after \in SUBSET Replica
  BY DEF Voters, Grows
<1>2. /\ Cardinality(before) \in Nat
      /\ Cardinality(after) \in Nat
      /\ Cardinality(before) <= Cardinality(after)
  <2> HIDE DEF before, after
  <2> QED  BY <1>1, LargerQuorum
<1>3. /\ k \in 1..Len(log[i])
      /\ IsPrepared(log[i], prepare_quorums[i], k, digest)
      /\ Cardinality(before) > 2 * F
  BY DEF CommittedAt, IsReady, IsCommitted
<1>4. IsPrepared(log'[i], prepare_quorums'[i], k, digest)
  BY <1>3, PreparedStays
<1>5. Cardinality(after) > 2 * F
  <2> HIDE DEF before, after
  <2> QED  BY <1>2, <1>3, PbftAssumption
<1>6. k \in 1..Len(log'[i]) /\ log'[i][k] = log[i][k]
  BY <1>3, <1>4 DEF IsPrepared, Grows
<1> QED  BY <1>4, <1>5, <1>6 DEF CommittedAt, IsReady, IsCommitted

LEMMA BatchesStayUnique ==
  ASSUME TypeOK, BatchesAreUnique, Sends
  PROVE  BatchesAreUnique'
<1>1. op_number \in Nat
  BY DEF TypeOK, ReplicaTypeOK
<1>2. \A p \in network : p.type = "PrePrepare" => p.op_number \in Nat
  BY DEF TypeOK, NetworkTypeOK, Message, PrePrepareMessage, VoteMessage, OpNumber
<1>3. CASE UNCHANGED network /\ op_number' = op_number
  BY <1>3 DEF BatchesAreUnique
<1>4. ASSUME NEW batch \in Batch,
             op_number' = op_number + 1,
             network' = network \cup {PrePrepare(op_number + 1, batch)}
      PROVE  BatchesAreUnique'
  <2> DEFINE new == PrePrepare(op_number + 1, batch)
  <2>1. new.op_number = op_number + 1
    BY DEF PrePrepare
  <2> HIDE DEF new
  <2>2. network' = network \cup {new}
    BY <1>4 DEF new
  <2> QED  BY <1>1, <1>2, <1>4, <2>1, <2>2 DEF BatchesAreUnique
<1>5. ASSUME NEW votes,
             \A v \in votes : v.type # "PrePrepare",
             op_number' = op_number, network' = network \cup votes
      PROVE  BatchesAreUnique'
  BY <1>5 DEF BatchesAreUnique
<1>6. ASSUME NEW i \in Replica, NEW lo \in OpNumber, NEW hi \in 1..Len(log'[i]),
             op_number' = op_number,
             network' = network \cup
               {Vote("Prepare", k, log'[i][k].request_digest, i) : k \in lo..hi}
      PROVE  BatchesAreUnique'
  <2> DEFINE votes ==
        {Vote("Prepare", k, log'[i][k].request_digest, i) : k \in lo..hi}
  <2>1. \A v \in votes : v.type # "PrePrepare"
    BY DEF Vote
  <2>2. op_number' = op_number /\ network' = network \cup votes
    BY <1>6
  <2> HIDE DEF votes
  <2> QED  BY <1>5, <2>1, <2>2
<1>7. ASSUME NEW i \in Replica, NEW m \in network, op_number' = op_number,
             network' = network \cup
               {Vote("Commit", m.op_number, m.request_digest, i)}
      PROVE  BatchesAreUnique'
  <2> DEFINE votes == {Vote("Commit", m.op_number, m.request_digest, i)}
  <2>1. \A v \in votes : v.type # "PrePrepare"
    BY DEF Vote
  <2>2. op_number' = op_number /\ network' = network \cup votes
    BY <1>7
  <2> HIDE DEF votes
  <2> QED  BY <1>5, <2>1, <2>2
<1> QED  BY <1>3, <1>4, <1>6, <1>7 DEF Sends

\* Entries of two logs with the same op number are the same.
LEMMA SentEntriesAgree ==
  ASSUME TypeOK, BatchesAreUnique, LogsAreSent
  PROVE  LogAgreement
<1> SUFFICES ASSUME NEW i \in Replica, NEW j \in Replica,
                    NEW k \in 1..Len(log[i]), k <= Len(log[j])
             PROVE  log[i][k] = log[j][k]
  BY DEF LogAgreement
<1>1. k \in 1..Len(log[j])
  BY LogType
<1>2. log[i][k].type = "PrePrepare" /\ log[j][k].type = "PrePrepare"
  BY <1>1, LogType DEF PrePrepareMessage
<1> QED  BY <1>1, <1>2 DEF BatchesAreUnique, LogsAreSent

LEMMA VoteType ==
  ASSUME TypeOK, NEW m \in network, m.type # "PrePrepare"
  PROVE  m \in VoteMessage
BY DEF TypeOK, NetworkTypeOK, Message, PrePrepareMessage

\* What a new vote is: a Prepare of an entry of the voter's log, or the Commit
\* of a batch that is prepared, for the digest of a Prepare that was sent.
LEMMA NewVotes ==
  ASSUME TypeOK, TypeOK', Sends, NEW m \in network', m \notin network,
         m.type # "PrePrepare"
  PROVE  \/ /\ m.type = "Prepare"
            /\ m.op_number \in 1..Len(log'[m.replica_id])
            /\ m.request_digest = log'[m.replica_id][m.op_number].request_digest
         \/ /\ m.type = "Commit"
            /\ IsPrepared(log'[m.replica_id], prepare_quorums'[m.replica_id],
                          m.op_number, m.request_digest)
            /\ \E v \in network : /\ v.type = "Prepare"
                                  /\ v.op_number = m.op_number
                                  /\ v.request_digest = m.request_digest
<1>1. network' # network
  OBVIOUS
<1>2. ASSUME NEW batch \in Batch,
             network' = network \cup {PrePrepare(op_number + 1, batch)}
      PROVE  FALSE
  <2> DEFINE new == PrePrepare(op_number + 1, batch)
  <2>1. new.type = "PrePrepare"
    BY DEF PrePrepare
  <2> HIDE DEF new
  <2> QED  BY <1>2, <2>1 DEF new
<1>3. ASSUME NEW i \in Replica, NEW lo \in OpNumber, NEW hi \in 1..Len(log'[i]),
             network' = network \cup
               {Vote("Prepare", k, log'[i][k].request_digest, i) : k \in lo..hi}
      PROVE  /\ m.type = "Prepare"
             /\ m.op_number \in 1..Len(log'[m.replica_id])
             /\ m.request_digest = log'[m.replica_id][m.op_number].request_digest
  <2>1. PICK k \in lo..hi : m = Vote("Prepare", k, log'[i][k].request_digest, i)
    BY <1>3
  <2>2. Len(log'[i]) \in Nat
    BY LenProperties DEF TypeOK, ReplicaTypeOK
  <2>3. k \in 1..Len(log'[i])
    BY <2>2 DEF OpNumber
  <2> QED  BY <2>1, <2>3 DEF Vote
<1>4. ASSUME NEW i \in Replica, NEW v \in network, v.type = "Prepare",
             IsPrepared(log'[i], prepare_quorums'[i], v.op_number, v.request_digest),
             network' = network \cup
               {Vote("Commit", v.op_number, v.request_digest, i)}
      PROVE  /\ m.type = "Commit"
             /\ IsPrepared(log'[m.replica_id], prepare_quorums'[m.replica_id],
                           m.op_number, m.request_digest)
             /\ v.op_number = m.op_number
             /\ v.request_digest = m.request_digest
  <2>1. m = Vote("Commit", v.op_number, v.request_digest, i)
    BY <1>4
  <2>2. /\ m.type = "Commit" /\ m.replica_id = i
        /\ m.op_number = v.op_number /\ m.request_digest = v.request_digest
    BY <2>1 DEF Vote
  <2> QED  BY <1>4, <2>2
<1> QED  BY <1>1, <1>2, <1>3, <1>4 DEF Sends

LEMMA VotesKeepEntries ==
  ASSUME TypeOK, TypeOK', Grows, Sends, VotesHaveEntries, LogAgreement'
  PROVE  VotesHaveEntries'
<1>1. ASSUME NEW m \in network, m.type # "PrePrepare"
      PROVE  /\ m.op_number \in 1..Len(log'[m.replica_id])
             /\ log'[m.replica_id][m.op_number].request_digest = m.request_digest
  <2>1. m.replica_id \in Replica
    BY <1>1, VoteType DEF VoteMessage
  <2>2. /\ Len(log[m.replica_id]) \in Nat
        /\ Len(log'[m.replica_id]) \in Nat
    BY <2>1, LogType, LenProperties DEF TypeOK, ReplicaTypeOK
  <2> QED  BY <1>1, <2>1, <2>2 DEF VotesHaveEntries, Grows
<1>2. ASSUME NEW m \in network', m \notin network, m.type # "PrePrepare"
      PROVE  /\ m.op_number \in 1..Len(log'[m.replica_id])
             /\ log'[m.replica_id][m.op_number].request_digest = m.request_digest
  <2>1. m.replica_id \in Replica
    BY <1>2, TypeOK' DEF TypeOK, NetworkTypeOK, Message, PrePrepareMessage, VoteMessage
  <2>2. CASE m.type = "Prepare"
    BY <1>2, <2>2, NewVotes
  <2>3. CASE m.type # "Prepare"
    <3>1. /\ IsPrepared(log'[m.replica_id], prepare_quorums'[m.replica_id],
                        m.op_number, m.request_digest)
          /\ \E v \in network : /\ v.type = "Prepare"
                                /\ v.op_number = m.op_number
                                /\ v.request_digest = m.request_digest
      BY <1>2, <2>3, NewVotes
    <3>2. PICK v \in network : /\ v.type = "Prepare"
                               /\ v.op_number = m.op_number
                               /\ v.request_digest = m.request_digest
      BY <3>1
    <3>3. /\ m.op_number \in 1..Len(log'[v.replica_id])
          /\ log'[v.replica_id][m.op_number].request_digest = m.request_digest
      BY <1>1, <3>2
    <3>4. v.replica_id \in Replica
      BY <3>2, VoteType DEF VoteMessage
    <3>5. m.op_number \in 1..Len(log'[m.replica_id])
      BY <3>1 DEF IsPrepared
    <3>6. Len(log'[v.replica_id]) \in Nat
      BY <3>4, LenProperties DEF TypeOK, ReplicaTypeOK
    <3>7. log'[m.replica_id][m.op_number] = log'[v.replica_id][m.op_number]
      BY <2>1, <3>3, <3>4, <3>5, <3>6 DEF LogAgreement
    <3> QED  BY <3>3, <3>5, <3>7
  <2> QED  BY <2>2, <2>3
<1> QED  BY <1>1, <1>2 DEF VotesHaveEntries

LEMMA CommitsStayPrepared ==
  ASSUME TypeOK, TypeOK', Grows, Sends, CommitsArePrepared
  PROVE  CommitsArePrepared'
<1>1. ASSUME NEW m \in network, m.type = "Commit"
      PROVE  IsPrepared(log'[m.replica_id], prepare_quorums'[m.replica_id],
                        m.op_number, m.request_digest)
  <2>1. m.replica_id \in Replica
    BY <1>1, VoteType DEF VoteMessage
  <2>2. IsPrepared(log[m.replica_id], prepare_quorums[m.replica_id],
                   m.op_number, m.request_digest)
    BY <1>1 DEF CommitsArePrepared
  <2> QED  BY <2>1, <2>2, PreparedStays
<1>2. ASSUME NEW m \in network', m \notin network, m.type = "Commit"
      PROVE  IsPrepared(log'[m.replica_id], prepare_quorums'[m.replica_id],
                        m.op_number, m.request_digest)
  BY <1>2, NewVotes
<1> QED  BY <1>1, <1>2 DEF CommitsArePrepared

-------------------------------------------------------------------------------
(* The steps preserve the invariant. *)

\* A handler's copies are its own if what it hands over is.
LEMMA ProcessOwn ==
  ASSUME TypeOK, OwnCopies, NEW i \in Replica, NEW done, NEW out,
         \A m \in out : Sender(m) = i, Process(i, done, out)
  PROVE  OwnCopies'
<1>1. /\ network' = network \cup out
      /\ signing'[i] = (signing[i] \ done) \cup out
      /\ \A j \in Replica \ {i} : signing'[j] = signing[j]
  BY DEF Process, TypeOK, ReplicaTypeOK
<1> QED  BY <1>1 DEF OwnCopies, Sender

LEMMA ReplicaOwn ==
  ASSUME TypeOK, OwnCopies, NEW i \in Replica, MainPoll(i)
  PROVE  OwnCopies'
<1>1. ASSUME NEW m \in Request, HandleRequest(m)  PROVE OwnCopies'
  <2>1. CASE UNCHANGED <<signing, network>>
    BY <2>1 DEF OwnCopies, Sender
  <2>2. CASE Process(Primary, {}, {PrePrepare(op_number + 1, Append(requests, m))})
    <3>1. Sender(PrePrepare(op_number + 1, Append(requests, m))) = Primary
      BY DEF Sender, PrePrepare
    <3> QED  BY <2>2, <3>1, ProcessOwn, PbftAssumption
  <2> QED  BY <1>1, <2>1, <2>2 DEF HandleRequest
<1>2. ASSUME NEW m, HandlePrePrepare(i, m)  PROVE OwnCopies'
  <2>1. PICK votes : /\ Process(i, {m}, votes)
                     /\ \A v \in votes : v.type = "Prepare" /\ v.replica_id = i
    <3>1. CASE ~IsDue(i, m)
      BY <1>2, <3>1 DEF HandlePrePrepare
    <3>2. CASE IsDue(i, m)
      <4>1. PICK last \in m.op_number..(m.op_number + Cardinality(reorder[i])) :
              Process(i, {m},
                IF i = Primary THEN {}
                ELSE {Vote("Prepare", k, AcceptedLog(i, m, last)[k].request_digest, i) :
                        k \in m.op_number..last})
        BY <1>2, <3>2 DEF HandlePrePrepare
      <4> DEFINE votes == IF i = Primary THEN {}
            ELSE {Vote("Prepare", k, AcceptedLog(i, m, last)[k].request_digest, i) :
                    k \in m.op_number..last}
      <4>2. \A v \in votes : v.type = "Prepare" /\ v.replica_id = i
        BY DEF Vote
      <4> HIDE DEF votes
      <4> QED  BY <4>1, <4>2 DEF votes
    <3> QED  BY <3>1, <3>2
  <2> QED  BY <2>1, ProcessOwn DEF Sender
<1>3. ASSUME NEW m, HandlePrepare(i, m)  PROVE OwnCopies'
  <2>1. PICK votes : /\ Process(i, {m}, votes)
                     /\ \A v \in votes : v.type = "Commit" /\ v.replica_id = i
    BY <1>3 DEF HandlePrepare, Vote
  <2> QED  BY <2>1, ProcessOwn DEF Sender
<1>4. ASSUME NEW m, HandleCommit(i, m)  PROVE OwnCopies'
  <2>1. CASE Process(i, {m}, {})
    BY <2>1, ProcessOwn
  <2>2. CASE i = Primary /\ Process(i, {m}, {PrePrepare(op_number + 1, requests)})
    <3>1. Sender(PrePrepare(op_number + 1, requests)) = Primary
      BY DEF Sender, PrePrepare
    <3> QED  BY <2>2, <3>1, ProcessOwn
  <2> QED  BY <1>4, <2>1, <2>2 DEF HandleCommit, HasBacklog
<1> QED  BY <1>1, <1>2, <1>3, <1>4 DEF MainPoll

LEMMA LogsStaySent ==
  ASSUME TypeOK, OwnCopies, LogsAreSent, BuffersAreSent,
         NEW i \in Replica, NEW m, HandlePrePrepare(i, m)
  PROVE  LogsAreSent' /\ BuffersAreSent'
<1>1. /\ Grows
      /\ \A k \in 1..Len(log'[i]) :
           \/ k \in 1..Len(log[i])
           \/ log'[i][k].op_number = k /\ log'[i][k] \in {m} \cup reorder[i]
      /\ reorder'[i] \subseteq {m} \cup reorder[i]
      /\ \A j \in Replica \ {i} : log'[j] = log[j] /\ reorder'[j] = reorder[j]
      /\ m \in network
  BY PrePrepareSteps
<1>2. network \subseteq network'
  BY <1>1 DEF Grows
<1>3. BuffersAreSent'
  BY <1>1, <1>2 DEF BuffersAreSent
<1>4. ASSUME NEW j \in Replica, NEW k \in 1..Len(log'[j])
      PROVE  log'[j][k] \in network' /\ log'[j][k].op_number = k
  <2>1. CASE k \in 1..Len(log[j])
    BY <1>1, <1>2, <2>1 DEF Grows, LogsAreSent
  <2>2. CASE k \notin 1..Len(log[j])
    <3>1. j = i
      BY <1>1, <1>4, <2>2
    <3> QED  BY <1>1, <1>2, <1>4, <2>2, <3>1 DEF BuffersAreSent
  <2> QED  BY <2>1, <2>2
<1> QED  BY <1>3, <1>4 DEF LogsAreSent

LEMMA BallotOfVote ==
  ASSUME NEW m \in VoteMessage
  PROVE  m = Vote(m.type, m.op_number, m.request_digest, m.replica_id)
BY DEF VoteMessage, Vote

LEMMA QuorumsStaySent ==
  ASSUME TypeOK, OwnCopies, QuorumsAreSent, NEW i \in Replica, NEW m,
         HandlePrepare(i, m) \/ HandleCommit(i, m)
  PROVE  QuorumsAreSent'
<1> DEFINE ballot == <<m.op_number, m.request_digest, m.replica_id>>
<1>1. CASE HandlePrepare(i, m)
  <2>1. /\ network \subseteq network' /\ commit_quorums' = commit_quorums
        /\ m \in VoteMessage /\ m \in network /\ m.type = "Prepare"
        /\ prepare_quorums'[i] \subseteq prepare_quorums[i] \cup {ballot}
        /\ \A j \in Replica \ {i} : prepare_quorums'[j] = prepare_quorums[j]
    BY <1>1, PrepareSteps DEF Grows
  <2>2. Vote("Prepare", ballot[1], ballot[2], ballot[3]) \in network
    BY <2>1, BallotOfVote
  <2> HIDE DEF ballot
  <2> QED  BY <2>1, <2>2 DEF QuorumsAreSent
<1>2. CASE HandleCommit(i, m)
  <2>1. /\ network \subseteq network' /\ prepare_quorums' = prepare_quorums
        /\ m \in VoteMessage /\ m \in network /\ m.type = "Commit"
        /\ commit_quorums'[i] \subseteq commit_quorums[i] \cup {ballot}
        /\ \A j \in Replica \ {i} : commit_quorums'[j] = commit_quorums[j]
    BY <1>2, CommitSteps DEF Grows
  <2>2. Vote("Commit", ballot[1], ballot[2], ballot[3]) \in network
    BY <2>1, BallotOfVote
  <2> HIDE DEF ballot
  <2> QED  BY <2>1, <2>2 DEF QuorumsAreSent
<1> QED  BY <1>1, <1>2

LEMMA ExecutedStays ==
  ASSUME TypeOK, TypeOK', Grows, ExecutedIsCommitted,
         NEW j \in Replica, execute_number'[j] = execute_number[j]
  PROVE  /\ execute_number'[j] <= Len(log'[j])
         /\ \A k \in 1..execute_number'[j] : CommittedAt(j, k)'
<1>1. /\ execute_number[j] \in Nat /\ Len(log[j]) \in Nat /\ Len(log'[j]) \in Nat
      /\ Len(log[j]) <= Len(log'[j])
      /\ execute_number[j] <= Len(log[j])
  BY LenProperties DEF TypeOK, ReplicaTypeOK, Grows, ExecutedIsCommitted
<1>2. \A k \in 1..execute_number[j] : CommittedAt(j, k)
  BY DEF ExecutedIsCommitted
<1> QED  BY <1>1, <1>2, CommittedStays

LEMMA ExecuteCommitted ==
  ASSUME TypeOK, TypeOK', OwnCopies, ExecutedIsCommitted,
         NEW i \in Replica, NEW m, HandleCommit(i, m)
  PROVE  ExecutedIsCommitted'
<1>1. /\ Grows
      /\ log' = log /\ prepare_quorums' = prepare_quorums
      /\ UNCHANGED executeVars \/ Execute(i, commit_quorums'[i])
  BY CommitSteps DEF orderVars
<1>2. CASE UNCHANGED executeVars
  BY <1>1, <1>2, ExecutedStays DEF executeVars, ExecutedIsCommitted
<1>3. CASE Execute(i, commit_quorums'[i])
  <2>1. PICK to \in execute_number[i]..Len(log[i]) :
          /\ \A k \in (execute_number[i] + 1)..to :
               IsCommitted(log[i], prepare_quorums[i], commit_quorums'[i], k,
                           log[i][k].request_digest)
          /\ execute_number' = [execute_number EXCEPT ![i] = to]
    BY <1>3 DEF Execute, IsSweep, IsReady
  <2>2. /\ execute_number[i] \in Nat /\ Len(log[i]) \in Nat
        /\ execute_number \in [Replica -> Nat]
    BY LogType DEF TypeOK, ReplicaTypeOK
  <2>3. execute_number'[i] = to /\ to \in Nat /\ to <= Len(log[i])
    BY <2>1, <2>2
  <2>4. ASSUME NEW k \in 1..to  PROVE CommittedAt(i, k)'
    <3>1. CASE k <= execute_number[i]
      BY <1>1, <2>2, <3>1, CommittedStays DEF ExecutedIsCommitted
    <3>2. CASE k > execute_number[i]
      <4>1. /\ k \in 1..Len(log'[i])
            /\ IsCommitted(log'[i], prepare_quorums'[i], commit_quorums'[i], k,
                           log'[i][k].request_digest)
        BY <1>1, <2>1, <2>2, <2>3, <3>2
      <4> QED  BY <4>1 DEF CommittedAt, IsReady
    <3> QED  BY <2>2, <2>3, <3>1, <3>2
  <2>5. ASSUME NEW j \in Replica
        PROVE  /\ execute_number'[j] <= Len(log'[j])
               /\ \A k \in 1..execute_number'[j] : CommittedAt(j, k)'
    <3>1. CASE j = i
      BY <1>1, <2>3, <2>4, <3>1
    <3>2. CASE j # i
      BY <1>1, <2>1, <2>2, <3>2, ExecutedStays
    <3> QED  BY <3>1, <3>2
  <2> QED  BY <2>5 DEF ExecutedIsCommitted
<1> QED  BY <1>1, <1>2, <1>3

\* Every step grows the state and preserves what the parts of the invariant say.
LEMMA AgreementStep ==
  ASSUME TypeOK, TypeOK', AgreementInv, [Next]_vars
  PROVE  /\ Grows
         /\ Sends
         /\ OwnCopies'
         /\ LogsAreSent' /\ BuffersAreSent'
         /\ QuorumsAreSent'
         /\ ExecutedIsCommitted'
<1> USE DEF AgreementInv
<1>1. CASE UNCHANGED <<replicaVars, network>>
  <2>1. Grows /\ Sends
    BY <1>1, StutterSteps
  <2>2. UNCHANGED <<network, signing, log, reorder, prepare_quorums,
                    commit_quorums, execute_number>>
    BY <1>1 DEF replicaVars, orderVars, executeVars
  <2> QED  BY <2>1, <2>2 DEF OwnCopies, Sender, LogsAreSent, BuffersAreSent,
        QuorumsAreSent, ExecutedIsCommitted, CommittedAt, IsReady
<1>2. ASSUME NEW m \in Request, HandleRequest(m), OwnCopies'
      PROVE  Grows /\ Sends /\ LogsAreSent' /\ BuffersAreSent' /\ QuorumsAreSent'
             /\ ExecutedIsCommitted'
  <2>1. /\ Grows /\ Sends /\ network \subseteq network'
        /\ UNCHANGED <<log, reorder, prepare_quorums, commit_quorums, execute_number>>
    BY <1>2, RequestSteps DEF orderVars, executeVars, Grows
  <2> QED  BY <2>1 DEF LogsAreSent, BuffersAreSent, QuorumsAreSent,
        ExecutedIsCommitted, CommittedAt, IsReady
<1>3. ASSUME NEW i \in Replica, NEW m, HandlePrePrepare(i, m), OwnCopies'
      PROVE  Grows /\ Sends /\ LogsAreSent' /\ BuffersAreSent' /\ QuorumsAreSent'
             /\ ExecutedIsCommitted'
  <2>1. /\ Grows /\ Sends /\ network \subseteq network'
        /\ UNCHANGED <<prepare_quorums, commit_quorums, execute_number>>
    BY <1>3, PrePrepareSteps DEF HandlePrePrepare, executeVars, Grows
  <2>2. LogsAreSent' /\ BuffersAreSent'
    BY <1>3, LogsStaySent
  <2>3. QuorumsAreSent'
    BY <2>1 DEF QuorumsAreSent
  <2>4. ExecutedIsCommitted'
    BY <2>1, ExecutedStays DEF ExecutedIsCommitted
  <2> QED  BY <2>1, <2>2, <2>3, <2>4
<1>4. ASSUME NEW i \in Replica, NEW m, HandlePrepare(i, m), OwnCopies'
      PROVE  Grows /\ Sends /\ LogsAreSent' /\ BuffersAreSent' /\ QuorumsAreSent'
             /\ ExecutedIsCommitted'
  <2>1. /\ Grows /\ Sends /\ network \subseteq network'
        /\ UNCHANGED <<log, reorder, commit_quorums, execute_number>>
    BY <1>4, PrepareSteps DEF orderVars, executeVars, Grows
  <2>2. QuorumsAreSent'
    BY <1>4, QuorumsStaySent
  <2>3. ExecutedIsCommitted'
    BY <2>1, ExecutedStays DEF ExecutedIsCommitted
  <2> QED  BY <2>1, <2>2, <2>3 DEF LogsAreSent, BuffersAreSent
<1>5. ASSUME NEW i \in Replica, NEW m, HandleCommit(i, m), OwnCopies'
      PROVE  Grows /\ Sends /\ LogsAreSent' /\ BuffersAreSent' /\ QuorumsAreSent'
             /\ ExecutedIsCommitted'
  <2>1. /\ Grows /\ Sends /\ network \subseteq network'
        /\ UNCHANGED <<log, reorder, prepare_quorums>>
    BY <1>5, CommitSteps DEF orderVars, Grows
  <2>2. QuorumsAreSent'
    BY <1>5, QuorumsStaySent
  <2>3. ExecutedIsCommitted'
    BY <1>5, ExecuteCommitted
  <2> QED  BY <2>1, <2>2, <2>3 DEF LogsAreSent, BuffersAreSent
<1>6. ASSUME NEW i \in Replica, MainPoll(i)
      PROVE  Grows /\ Sends /\ OwnCopies' /\ LogsAreSent' /\ BuffersAreSent'
             /\ QuorumsAreSent' /\ ExecutedIsCommitted'
  <2>1. OwnCopies'
    BY <1>6, ReplicaOwn
  <2> QED  BY <1>2, <1>3, <1>4, <1>5, <1>6, <2>1 DEF MainPoll
<1>7. CASE UNCHANGED vars
  BY <1>1, <1>7 DEF vars, networkVars
<1>8. ASSUME NEW c \in Client, ClientNext(c)
      PROVE  UNCHANGED <<replicaVars, network>>
  BY <1>8, ClientSteps
<1> QED  BY <1>1, <1>6, <1>7, <1>8 DEF Next, ReplicaNext

LEMMA InitAgreement == Init => AgreementInv
<1> SUFFICES ASSUME Init  PROVE AgreementInv
  OBVIOUS
<1>1. /\ network = {}
      /\ \A i \in Replica :
           /\ signing[i] = {} /\ Len(log[i]) = 0 /\ reorder[i] = {}
           /\ prepare_quorums[i] = {} /\ commit_quorums[i] = {}
           /\ execute_number[i] = 0
  BY EmptySeq DEF Init, NetworkInit, ReplicaInit
<1> QED  BY <1>1 DEF AgreementInv, OwnCopies, BatchesAreUnique, LogsAreSent,
      BuffersAreSent, VotesHaveEntries, CommitsArePrepared, QuorumsAreSent,
      ExecutedIsCommitted

LEMMA AgreementKept == TypeOK /\ TypeOK' /\ AgreementInv /\ [Next]_vars => AgreementInv'
<1> SUFFICES ASSUME TypeOK, TypeOK', AgreementInv, [Next]_vars
             PROVE  AgreementInv'
  OBVIOUS
<1>1. /\ Grows /\ Sends /\ OwnCopies' /\ LogsAreSent' /\ BuffersAreSent'
      /\ QuorumsAreSent' /\ ExecutedIsCommitted'
  BY AgreementStep
<1>2. BatchesAreUnique'
  BY <1>1, BatchesStayUnique DEF AgreementInv
<1>3. LogAgreement'
  <2>1. (TypeOK /\ BatchesAreUnique /\ LogsAreSent => LogAgreement)'
    BY SentEntriesAgree, PTL
  <2> QED  BY <1>1, <1>2, <2>1
<1>4. VotesHaveEntries' /\ CommitsArePrepared'
  BY <1>1, <1>3, VotesKeepEntries, CommitsStayPrepared DEF AgreementInv
<1> QED  BY <1>1, <1>2, <1>4 DEF AgreementInv

\* The parts of AgreementInv, in every reachable state.
THEOREM AgreementInvariant == Spec => []AgreementInv
BY InitAgreement, AgreementKept, TypeCorrect, PTL DEF Spec

-------------------------------------------------------------------------------
(* The properties. *)

\* The logs of all replicas agree wherever they have entries, in whatever
\* order the PrePrepares reached them.
THEOREM LogsAgree == Spec => []LogAgreement
<1>1. TypeOK /\ AgreementInv => LogAgreement
  BY SentEntriesAgree DEF AgreementInv
<1> QED  BY <1>1, TypeCorrect, AgreementInvariant, PTL

\* A replica's log is only ever extended, whatever arrives again or late.
THEOREM LogsOnlyGrow == Spec => LogOnlyGrows
<1>1. TypeOK /\ TypeOK' /\ AgreementInv /\ [Next]_vars =>
        [\A i \in Replica : \A k \in 1..Len(log[i]) :
           k <= Len(log'[i]) /\ log'[i][k] = log[i][k]]_vars
  <2> SUFFICES ASSUME TypeOK, TypeOK', AgreementInv, [Next]_vars
               PROVE  \A i \in Replica : \A k \in 1..Len(log[i]) :
                        k <= Len(log'[i]) /\ log'[i][k] = log[i][k]
    OBVIOUS
  <2> SUFFICES ASSUME NEW i \in Replica, NEW k \in 1..Len(log[i])
               PROVE  k <= Len(log'[i]) /\ log'[i][k] = log[i][k]
    OBVIOUS
  <2>1. Len(log[i]) <= Len(log'[i]) /\ log'[i][k] = log[i][k]
    BY AgreementStep DEF Grows
  <2>2. Len(log[i]) \in Nat /\ Len(log'[i]) \in Nat
    BY LogType, LenProperties DEF TypeOK, ReplicaTypeOK
  <2> QED  BY <2>1, <2>2
<1> QED  BY <1>1, TypeCorrect, AgreementInvariant, PTL DEF Spec, LogOnlyGrows

\* No replica sends two different messages of one kind for one op number: the
\* primary closes each batch once, and votes are for the entry of the log.
THEOREM NobodyEquivocates == Spec => []NoEquivocation
<1>1. TypeOK /\ AgreementInv => NoEquivocation
  <2> SUFFICES ASSUME TypeOK, AgreementInv, NEW m \in network, NEW n \in network,
                      m.type = n.type, m.op_number = n.op_number,
                      Sender(m) = Sender(n)
               PROVE  m = n
    BY DEF NoEquivocation
  <2>1. CASE m.type = "PrePrepare"
    BY <2>1 DEF AgreementInv, BatchesAreUnique
  <2>2. CASE m.type # "PrePrepare"
    <3>1. m.replica_id = n.replica_id
      BY <2>2 DEF Sender
    <3>2. m.request_digest = n.request_digest
      BY <2>2, <3>1 DEF AgreementInv, VotesHaveEntries
    <3>3. m \in VoteMessage /\ n \in VoteMessage
      BY <2>2, VoteType
    <3> QED  BY <3>1, <3>2, <3>3, BallotOfVote
  <2> QED  BY <2>1, <2>2
<1> QED  BY <1>1, TypeCorrect, AgreementInvariant, PTL

\* What any replica executed is prepared, as the same entry, at 2F+1 replicas:
\* each of the 2F+1 Commits came from a replica that had it prepared.
THEOREM ExecutedPrepared == Spec => []ExecutedIsPrepared
<1>1. TypeOK /\ AgreementInv => ExecutedIsPrepared
  <2> SUFFICES ASSUME TypeOK, AgreementInv,
                      NEW i \in Replica, NEW k \in 1..execute_number[i]
               PROVE  Cardinality({r \in Replica :
                        /\ IsPrepared(log[r], prepare_quorums[r], k,
                                      log[i][k].request_digest)
                        /\ log[r][k] = log[i][k]}) > 2 * F
    BY DEF ExecutedIsPrepared
  <2> DEFINE digest == log[i][k].request_digest
             voters == Voters(commit_quorums[i], k, digest)
             prepared == {r \in Replica :
                            /\ IsPrepared(log[r], prepare_quorums[r], k, digest)
                            /\ log[r][k] = log[i][k]}
  <2>1. k \in 1..Len(log[i]) /\ Cardinality(voters) > 2 * F
    BY DEF AgreementInv, ExecutedIsCommitted, CommittedAt, IsReady, IsCommitted
  <2>2. ASSUME NEW r \in voters  PROVE r \in prepared
    <3>1. r \in Replica /\ <<k, digest, r>> \in commit_quorums[i]
      BY <2>2 DEF Voters
    <3>2. Vote("Commit", k, digest, r) \in network
      BY <3>1 DEF AgreementInv, QuorumsAreSent
    <3>3. IsPrepared(log[r], prepare_quorums[r], k, digest)
      BY <3>2 DEF AgreementInv, CommitsArePrepared, Vote
    <3>4. k \in 1..Len(log[r])
      BY <3>3 DEF IsPrepared
    <3>5. log[r][k] = log[i][k]
      <4>1. LogAgreement
        BY SentEntriesAgree DEF AgreementInv
      <4>2. Len(log[i]) \in Nat
        BY LogType
      <4> QED  BY <2>1, <3>1, <3>4, <4>1, <4>2 DEF LogAgreement
    <3> QED  BY <3>1, <3>3, <3>5
  <2>3. voters \in SUBSET Replica /\ prepared \in SUBSET Replica
    BY DEF Voters
  <2> HIDE DEF voters, prepared
  <2>4. /\ Cardinality(voters) \in Nat /\ Cardinality(prepared) \in Nat
        /\ Cardinality(voters) <= Cardinality(prepared)
    BY <2>2, <2>3, LargerQuorum
  <2>5. Cardinality(prepared) > 2 * F
    BY <2>1, <2>4, PbftAssumption
  <2> QED  BY <2>5 DEF prepared
<1> QED  BY <1>1, TypeCorrect, AgreementInvariant, PTL

===============================================================================
