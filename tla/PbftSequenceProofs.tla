-------------------------- MODULE PbftSequenceProofs --------------------------
(***************************************************************************)
(* The order of a client's requests: SequenceInv is an inductive invariant *)
(* together with the others, and no replica skips a request of a client.   *)
(* With that the PBFT service implements Service.                          *)
(***************************************************************************)
EXTENDS PbftExecutionProofs, PbftService

-------------------------------------------------------------------------------
(* Requests and batches. *)

LEMMA BatchType ==
  ASSUME TypeOK, NEW b \in Batches
  PROVE  /\ b \in network
         /\ b.op_number \in Nat
         /\ Elements(b.requests) \subseteq Request
<1>1. b \in PrePrepareMessage
  BY DEF Batches, TypeOK, NetworkTypeOK, Message, VoteMessage
<1>2. b.requests \in Seq(Request) /\ b.op_number \in Nat
  BY <1>1 DEF PrePrepareMessage, Batch, OpNumber
<1>3. \A p \in 1..Len(b.requests) : b.requests[p] \in Request
  BY <1>2, ElementOfSeq
<1> QED  BY <1>2, <1>3 DEF Batches, Elements

LEMMA RequestNumber ==
  ASSUME TypeOK, NEW r \in Request
  PROVE  /\ r.client \in Client
         /\ r.request_number \in Nat
         /\ r.request_number > 0
         /\ request_number[r.client] \in Nat
         /\ r = [client |-> r.client, request_number |-> r.request_number]
BY PbftAssumption DEF Request, TypeOK, ClientTypeOK

LEMMA RequestsType ==
  ASSUME TypeOK
  PROVE  Elements(requests) \subseteq Request /\ op_number \in Nat
<1>1. requests \in Seq(Request) /\ op_number \in Nat
  BY DEF TypeOK, ReplicaTypeOK, Batch
<1>2. \A p \in 1..Len(requests) : requests[p] \in Request
  BY <1>1, ElementOfSeq
<1> QED  BY <1>1, <1>2 DEF Elements

LEMMA AppendedElements ==
  ASSUME NEW queue \in Seq(Request), NEW m \in Request
  PROVE  Elements(Append(queue, m)) \subseteq Elements(queue) \cup {m}
<1>1. /\ Len(queue) \in Nat
      /\ Len(Append(queue, m)) = Len(queue) + 1
      /\ \A p \in 1..Len(queue) : Append(queue, m)[p] = queue[p]
      /\ Append(queue, m)[Len(queue) + 1] = m
  BY AppendProperties, LenProperties
<1>2. ASSUME NEW p \in 1..Len(Append(queue, m))
      PROVE  Append(queue, m)[p] \in Elements(queue) \cup {m}
  <2>1. p \in 1..Len(queue) \/ p = Len(queue) + 1
    BY <1>1
  <2> QED  BY <1>1, <2>1 DEF Elements
<1> QED  BY <1>2 DEF Elements

\* The requests that wait for a batch or may yet arrive.
Waiting == Elements(requests) \cup {r \in Request : in_flight[r] > 0}

\* What a step of a replica does to the requests: none is invented.
Forwards ==
  /\ \A r \in Request : in_flight'[r] > 0 => in_flight[r] > 0
  /\ Elements(requests') \subseteq Waiting
  /\ Batches \subseteq Batches'
  /\ \A b \in Batches' \ Batches :
       b.op_number = op_number + 1 /\ Elements(b.requests) \subseteq Waiting

LEMMA QuietForwards ==
  ASSUME UNCHANGED <<in_flight, requests>>, Batches' = Batches
  PROVE  Forwards
BY DEF Forwards, Waiting

LEMMA VotesAreNoBatches ==
  ASSUME NEW i, NEW done, NEW out, Process(i, done, out),
         \A m \in out : m.type # "PrePrepare"
  PROVE  Batches' = Batches
BY DEF Process, Batches

LEMMA ClosedBatch ==
  ASSUME NEW i, NEW done, NEW queue, Elements(queue) \subseteq Waiting,
         Process(i, done, {PrePrepare(op_number + 1, queue)})
  PROVE  /\ Batches \subseteq Batches'
         /\ \A b \in Batches' \ Batches :
              b.op_number = op_number + 1 /\ Elements(b.requests) \subseteq Waiting
BY DEF Process, Batches, PrePrepare

LEMMA RequestForwards ==
  ASSUME TypeOK, NEW m \in Request, HandleRequest(m)
  PROVE  Forwards
<1> DEFINE queue == Append(requests, m)
<1>1. Elements(queue) \subseteq Waiting
  <2>1. requests \in Seq(Request)
    BY DEF TypeOK, ReplicaTypeOK, Batch
  <2>2. m \in Waiting
    BY DEF HandleRequest, Waiting
  <2> QED  BY <2>1, <2>2, AppendedElements DEF Waiting
<1>2. \A r \in Request : in_flight'[r] > 0 => in_flight[r] > 0
  <2>1. in_flight' = [in_flight EXCEPT ![m] = @ - 1] /\ in_flight[m] > 0
    BY DEF HandleRequest
  <2> QED  BY <2>1 DEF TypeOK, NetworkTypeOK
<1> HIDE DEF queue
<1>3. CASE UNCHANGED <<requests, network>>
  BY <1>2, <1>3 DEF Forwards, Waiting, Batches
<1>4. CASE CloseBatch(queue) /\ Process(Primary, {}, {PrePrepare(op_number + 1, queue)})
  <2>1. Elements(requests') = {}
    BY <1>4 DEF CloseBatch, Elements
  <2> QED  BY <1>1, <1>2, <1>4, <2>1, ClosedBatch DEF Forwards
<1>5. CASE requests' = queue /\ UNCHANGED network
  BY <1>1, <1>2, <1>5 DEF Forwards, Batches
<1> QED  BY <1>3, <1>4, <1>5 DEF HandleRequest, batchVars, queue

LEMMA ReplicaForwards ==
  ASSUME TypeOK, NEW i \in Replica, MainPoll(i)
  PROVE  Forwards
<1>1. ASSUME NEW m, HandlePrePrepare(i, m)  PROVE Forwards
  <2>1. UNCHANGED <<in_flight, requests>>
    BY <1>1 DEF HandlePrePrepare, batchVars
  <2>2. \E votes : Process(i, {m}, votes) /\ \A v \in votes : v.type # "PrePrepare"
    <3>1. CASE ~IsDue(i, m)
      BY <1>1, <3>1 DEF HandlePrePrepare
    <3>2. CASE IsDue(i, m)
      <4>1. PICK last \in m.op_number..(m.op_number + Cardinality(reorder[i])) :
              Process(i, {m},
                IF i = Primary THEN {}
                ELSE {Vote("Prepare", k, AcceptedLog(i, m, last)[k].request_digest, i) :
                        k \in m.op_number..last})
        BY <1>1, <3>2 DEF HandlePrePrepare
      <4> QED  BY <4>1 DEF Vote
    <3> QED  BY <3>1, <3>2
  <2> QED  BY <2>1, <2>2, VotesAreNoBatches, QuietForwards
<1>2. ASSUME NEW m, HandlePrepare(i, m)  PROVE Forwards
  <2>1. UNCHANGED <<in_flight, requests>>
    BY <1>2 DEF HandlePrepare, batchVars
  <2>2. \/ Process(i, {m}, {})
        \/ Process(i, {m}, {Vote("Commit", m.op_number, m.request_digest, i)})
    BY <1>2 DEF HandlePrepare
  <2>3. Vote("Commit", m.op_number, m.request_digest, i).type # "PrePrepare"
    BY DEF Vote
  <2>4. Batches' = Batches
    BY <2>2, <2>3, VotesAreNoBatches
  <2> QED  BY <2>1, <2>4, QuietForwards
<1>3. ASSUME NEW m, HandleCommit(i, m)  PROVE Forwards
  <2>1. in_flight' = in_flight
    BY <1>3 DEF HandleCommit
  <2>2. CASE UNCHANGED batchVars /\ Process(i, {m}, {})
    <3>1. Batches' = Batches
      BY <2>2, VotesAreNoBatches
    <3> QED  BY <2>1, <2>2, <3>1, QuietForwards DEF batchVars
  <2>3. CASE CloseBatch(requests) /\ Process(i, {m}, {PrePrepare(op_number + 1, requests)})
    <3>1. Elements(requests') = {}
      BY <2>3 DEF CloseBatch, Elements
    <3>2. Elements(requests) \subseteq Waiting
      BY DEF Waiting
    <3> QED  BY <2>1, <2>3, <3>1, <3>2, ClosedBatch DEF Forwards
  <2> QED  BY <1>3, <2>2, <2>3 DEF HandleCommit
<1> QED  BY <1>1, <1>2, <1>3, RequestForwards DEF MainPoll

-------------------------------------------------------------------------------
(* What the clients have issued. *)

\* The parts of RequestsAreIssued about the replicas.
LEMMA WaitingIsIssued ==
  ASSUME TypeOK, RequestsAreIssued, NEW r \in Waiting
  PROVE  r \in Request /\ r.request_number <= request_number[r.client]
BY RequestsType DEF Waiting, RequestsAreIssued

LEMMA ForwardsIssued ==
  ASSUME TypeOK, RequestsAreIssued, Forwards, UNCHANGED clientVars
  PROVE  RequestsAreIssued'
<1>1. UNCHANGED request_number
  BY DEF clientVars
<1>2. \A r \in Waiting : r.request_number <= request_number[r.client]
  BY WaitingIsIssued
<1> QED  BY <1>1, <1>2 DEF RequestsAreIssued, Forwards

\* What a step of a client sends is one of its issued requests.
LEMMA ClientIssues ==
  ASSUME TypeOK, RequestsAreIssued, NEW c \in Client, ClientNext(c)
  PROVE  RequestsAreIssued'
<1> DEFINE Sent(n) == [client |-> c, request_number |-> n]
<1>1. /\ \A d \in Client : /\ request_number[d] \in Nat /\ request_number'[d] \in Nat
                           /\ request_number[d] <= request_number'[d]
      /\ UNCHANGED <<requests, network>>
  BY PbftAssumption DEF ClientNext, Invoke, ClientPoll, replicaVars, batchVars,
     TypeOK, ClientTypeOK
<1>2. Batches' = Batches
  BY <1>1 DEF Batches
<1>3. in_flight' = in_flight \/ DoSend(c, request_number'[c])
  <2>1. CASE Invoke(c)
    <3>1. request_number'[c] = request_number[c] + 1
      BY <2>1 DEF Invoke, TypeOK, ClientTypeOK
    <3> QED  BY <2>1, <3>1 DEF Invoke
  <2>2. CASE ClientPoll(c)
    BY <2>2 DEF ClientPoll
  <2> QED  BY <2>1, <2>2 DEF ClientNext
<1>4. ASSUME NEW r \in Request, in_flight'[r] > 0
      PROVE  in_flight[r] > 0 \/ r = Sent(request_number'[c])
  <2>1. CASE DoSend(c, request_number'[c])
    <3>1. in_flight' = [in_flight EXCEPT ![Sent(request_number'[c])] = @ + 1]
      BY <2>1 DEF DoSend
    <3> HIDE DEF Sent
    <3> QED  BY <1>4, <3>1 DEF TypeOK, NetworkTypeOK
  <2> QED  BY <1>3, <1>4, <2>1
<1>5. ASSUME NEW r \in Request, r.request_number <= request_number[r.client]
      PROVE  r.request_number <= request_number'[r.client]
  BY <1>1, <1>5, RequestNumber
<1>6. ASSUME NEW r \in Request, in_flight'[r] > 0
      PROVE  r.request_number <= request_number'[r.client]
  <2>1. CASE in_flight[r] > 0
    BY <1>5, <2>1 DEF RequestsAreIssued
  <2>2. CASE r = Sent(request_number'[c])
    <3>1. r.client = c /\ r.request_number = request_number'[c]
      BY <2>2
    <3> QED  BY <3>1, RequestNumber
  <2> QED  BY <1>4, <1>6, <2>1, <2>2
<1>7. \A r \in Elements(requests) : r.request_number <= request_number'[r.client]
  BY <1>5, RequestsType DEF RequestsAreIssued
<1>8. \A b \in Batches : \A r \in Elements(b.requests) :
        r.request_number <= request_number'[r.client]
  BY <1>5, BatchType DEF RequestsAreIssued
<1> QED  BY <1>1, <1>2, <1>6, <1>7, <1>8 DEF RequestsAreIssued

-------------------------------------------------------------------------------
(* The order of batches. *)

\* A call that a replica made is for a request of a batch that was sent.
LEMMA ExecutedIsBatched ==
  ASSUME TypeOK, AgreementInv, NEW i \in Replica, NEW x \in ExecutedSlots(i)
  PROVE  /\ log[i][x.op_number] \in Batches
         /\ log[i][x.op_number].op_number = x.op_number
         /\ x.request \in Elements(log[i][x.op_number].requests)
<1>1. /\ execute_number[i] \in Nat /\ execute_number[i] <= Len(log[i])
      /\ x.op_number \in 1..execute_number[i]
  BY ExecutedSlot DEF AgreementInv
<1>2. /\ x.index \in 1..Len(log[i][x.op_number].requests)
      /\ x.request = log[i][x.op_number].requests[x.index]
  BY <1>1, SlotOfLog DEF ExecutedSlots, OpNumber
<1>3. x.op_number \in 1..Len(log[i])
  BY <1>1, LogType
<1>4. /\ log[i][x.op_number] \in network
      /\ log[i][x.op_number].op_number = x.op_number
      /\ log[i][x.op_number].type = "PrePrepare"
  BY <1>3, LogType DEF AgreementInv, LogsAreSent, PrePrepareMessage
<1> QED  BY <1>2, <1>4 DEF Batches, Elements

\* A request that was answered is in a batch.
LEMMA AnsweredIsBatched ==
  ASSUME TypeOK, AgreementInv, ExecutionInv, NEW c \in Client, NEW n \in 1..Answered(c)
  PROVE  \E a \in Batches :
           /\ a.op_number <= op_number
           /\ [client |-> c, request_number |-> n] \in Elements(a.requests)
<1> DEFINE request == [client |-> c, request_number |-> n]
<1>1. PICK i \in Replica : HasExecuted(i, request)
  <2> DEFINE executors == {i \in Replica : HasExecuted(i, request)}
  <2>1. Cardinality(executors) > F
    BY DEF ExecutionInv, ResultIsExecuted
  <2>2. ~(0 > F)
    BY PbftAssumption
  <2>3. executors # {}
    <3> HIDE DEF executors
    <3> QED  BY <2>1, <2>2, FS_EmptySet
  <2> QED  BY <2>3
<1>2. PICK x \in app[i] : x.request = request
  BY <1>1 DEF HasExecuted
<1>3. x \in ExecutedSlots(i)
  BY DEF ExecutionInv, AppIsFiltered, Fresh
<1> DEFINE a == log[i][x.op_number]
<1>4. a \in Batches /\ request \in Elements(a.requests)
  BY <1>2, <1>3, ExecutedIsBatched
<1>5. a.op_number <= op_number
  BY <1>4 DEF Batches, AgreementInv, BatchesAreUnique
<1> QED  BY <1>4, <1>5

LEMMA OrderStays ==
  ASSUME TypeOK, AgreementInv, ExecutionInv, SequenceInv, Forwards
  PROVE  BatchesAreOrdered'
<1>1. ASSUME NEW b \in Batches' \ Batches, NEW r \in Elements(b.requests),
             NEW n \in 1..(r.request_number - 1)
      PROVE  \E a \in Batches :
               /\ a.op_number < b.op_number
               /\ [client |-> r.client, request_number |-> n] \in Elements(a.requests)
  <2>1. r \in Request /\ r.request_number <= request_number[r.client]
    BY WaitingIsIssued DEF Forwards, SequenceInv
  <2>2. n \in 1..Answered(r.client) /\ r.client \in Client
    BY <2>1, RequestNumber DEF Answered
  <2>3. PICK a \in Batches :
          /\ a.op_number <= op_number
          /\ [client |-> r.client, request_number |-> n] \in Elements(a.requests)
    BY <2>2, AnsweredIsBatched
  <2>4. b.op_number = op_number + 1
    BY DEF Forwards
  <2> QED  BY <2>3, <2>4, BatchType, RequestsType
<1>2. \A b \in Batches : \A r \in Elements(b.requests) :
        \A n \in 1..(r.request_number - 1) :
          \E a \in Batches :
            /\ a.op_number < b.op_number
            /\ [client |-> r.client, request_number |-> n] \in Elements(a.requests)
  BY DEF SequenceInv, BatchesAreOrdered
<1>3. Batches \subseteq Batches'
  BY DEF Forwards
<1> HIDE DEF Batches
<1>4. ASSUME NEW b \in Batches', NEW r \in Elements(b.requests),
             NEW n \in 1..(r.request_number - 1)
      PROVE  \E a \in Batches' :
               /\ a.op_number < b.op_number
               /\ [client |-> r.client, request_number |-> n] \in Elements(a.requests)
  BY <1>1, <1>2, <1>3
<1> QED  BY <1>4 DEF BatchesAreOrdered

\* A client's requests are issued before they are forwarded, and batched in the
\* order of their numbers.
THEOREM SequenceInvariant == Spec => []SequenceInv
<1>1. Init => SequenceInv
  <2> SUFFICES ASSUME Init  PROVE SequenceInv
    OBVIOUS
  <2>1. /\ \A r \in Request : in_flight[r] = 0
        /\ Batches = {} /\ Elements(requests) = {}
    BY DEF Init, NetworkInit, ReplicaInit, Batches, Elements
  <2> QED  BY <2>1 DEF SequenceInv, RequestsAreIssued, BatchesAreOrdered
<1>2. TypeOK /\ AgreementInv /\ ExecutionInv /\ SequenceInv /\ [Next]_vars => SequenceInv'
  <2> SUFFICES ASSUME TypeOK, AgreementInv, ExecutionInv, SequenceInv, [Next]_vars
               PROVE  SequenceInv'
    OBVIOUS
  <2>1. ASSUME NEW i \in Replica, ReplicaNext(i)  PROVE SequenceInv'
    <3>1. Forwards
      BY <2>1, ReplicaForwards DEF ReplicaNext
    <3> QED  BY <2>1, <3>1, ForwardsIssued, OrderStays DEF ReplicaNext, SequenceInv
  <2>2. ASSUME NEW c \in Client, ClientNext(c)  PROVE SequenceInv'
    <3>1. Batches' = Batches
      BY <2>2, ClientSteps DEF Batches
    <3> QED  BY <2>2, <3>1, ClientIssues DEF SequenceInv, BatchesAreOrdered
  <2>3. CASE UNCHANGED vars
    <3>1. UNCHANGED <<in_flight, requests>> /\ UNCHANGED clientVars /\ Batches' = Batches
      BY <2>3 DEF vars, networkVars, replicaVars, batchVars, Batches
    <3> QED  BY <3>1, QuietForwards, ForwardsIssued, OrderStays DEF SequenceInv
  <2> QED  BY <2>1, <2>2, <2>3 DEF Next
<1> QED  BY <1>1, <1>2, TypeCorrect, AgreementInvariant, ExecutionInvariant, PTL DEF Spec

-------------------------------------------------------------------------------
(* The property. *)

\* A request of a batch that was sent before an executed one has a slot.
LEMMA SlotOfBatch ==
  ASSUME TypeOK, AgreementInv, NEW i \in Replica, NEW a \in Batches,
         NEW request \in Elements(a.requests), a.op_number <= execute_number[i]
  PROVE  \E x \in ExecutedSlots(i) : x.op_number = a.op_number /\ x.request = request
<1>1. /\ execute_number[i] \in Nat /\ execute_number[i] <= Len(log[i])
      /\ Len(log[i]) \in Nat
  BY ExecutedSlot, LogType DEF AgreementInv
<1>2. a \in PrePrepareMessage /\ a \in network
  BY DEF Batches, TypeOK, NetworkTypeOK, Message, VoteMessage
<1>3. a.op_number \in 1..execute_number[i] /\ a.op_number \in 1..Len(log[i])
  BY <1>1, <1>2 DEF PrePrepareMessage, OpNumber
<1>4. log[i][a.op_number] = a
  <2>1. /\ log[i][a.op_number] \in network
        /\ log[i][a.op_number].op_number = a.op_number
        /\ log[i][a.op_number].type = "PrePrepare"
    BY <1>3, LogType DEF AgreementInv, LogsAreSent, PrePrepareMessage
  <2> QED  BY <1>2, <2>1 DEF AgreementInv, BatchesAreUnique, Batches
<1>5. PICK p \in 1..Len(a.requests) : request = a.requests[p]
  BY DEF Elements
<1> DEFINE x == [op_number |-> a.op_number, index |-> p, request |-> request]
<1>6. x \in ExecutedSlots(i)
  BY <1>3, <1>4, <1>5 DEF ExecutedSlots, Slots
<1> QED  BY <1>6

\* Of the slots of a request the first one passes the filter.
LEMMA FirstIsFresh ==
  ASSUME TypeOK, AgreementInv, SequenceInv, NEW i \in Replica, NEW c, NEW n,
         NEW z \in ExecutedSlots(i),
         z.request = [client |-> c, request_number |-> n],
         \A y \in ExecutedSlots(i) :
           y.request = [client |-> c, request_number |-> n] => ~Precedes(y, z)
  PROVE  z \in Fresh(EmptyTable, ExecutedSlots(i))
<1>1. ExecutedSlots(i) \in SUBSET Call /\ execute_number[i] <= Len(log[i])
      /\ execute_number[i] \in Nat
  BY ExecutedSlot DEF AgreementInv
<1>2. z.request.client = c /\ z.request.request_number = n /\ n \in Nat /\ n > 0
      /\ c \in Client /\ z.op_number \in Nat
  BY <1>1, CallNumber
<1>3. ASSUME NEW y \in ExecutedSlots(i), Precedes(y, z), y.request.client = c
      PROVE  y.request.request_number < n
  <2> DEFINE k == y.request.request_number
  <2>1. /\ y \in Call /\ k \in Nat /\ y.op_number \in Nat
        /\ y.request = [client |-> c, request_number |-> k]
    BY <1>1, <1>3, CallNumber, RequestNumber
  <2>2. k # n
    BY <1>3, <2>1
  <2>3. ASSUME k > n  PROVE FALSE
    <3>1. PICK a \in Batches :
            /\ a.op_number < y.op_number
            /\ [client |-> c, request_number |-> n] \in Elements(a.requests)
      <4>1. /\ log[i][y.op_number] \in Batches
            /\ log[i][y.op_number].op_number = y.op_number
            /\ y.request \in Elements(log[i][y.op_number].requests)
        BY ExecutedIsBatched
      <4>2. n \in 1..(k - 1)
        BY <1>2, <2>1, <2>3
      <4> QED  BY <1>3, <4>1, <4>2 DEF SequenceInv, BatchesAreOrdered
    <3>2. PICK x \in ExecutedSlots(i) :
            /\ x.op_number = a.op_number
            /\ x.request = [client |-> c, request_number |-> n]
      <4>1. y.op_number \in 1..execute_number[i]
        BY ExecutedSlot DEF AgreementInv
      <4>2. a.op_number <= execute_number[i]
        BY <1>1, <3>1, <4>1, BatchType
      <4> QED  BY <3>1, <4>2, SlotOfBatch
    <3>3. y.op_number <= z.op_number
      BY <1>2, <1>3, <2>1 DEF Precedes
    <3>4. Precedes(x, z)
      BY <1>1, <1>2, <2>1, <3>1, <3>2, <3>3, CallNumber DEF Precedes
    <3> QED  BY <3>2, <3>4
  <2> QED  BY <1>2, <2>1, <2>2, <2>3
<1>4. EmptyTable[c] < n
  BY <1>2 DEF EmptyTable
<1> QED  BY <1>2, <1>3, <1>4 DEF Fresh

\* A replica that executes a request has executed all the client's earlier ones.
THEOREM NothingSkipped == Spec => []NoRequestSkipped
<1>1. TypeOK /\ AgreementInv /\ ExecutionInv /\ SequenceInv => NoRequestSkipped
  <2> SUFFICES ASSUME TypeOK, AgreementInv, ExecutionInv, SequenceInv,
                      NEW i \in Replica, NEW x \in app[i],
                      NEW n \in 1..(x.request.request_number - 1)
               PROVE  \E y \in app[i] :
                        /\ y.request = [client |-> x.request.client, request_number |-> n]
                        /\ Precedes(y, x)
    BY DEF NoRequestSkipped
  <2> DEFINE c == x.request.client
             request == [client |-> c, request_number |-> n]
             same == {y \in ExecutedSlots(i) : y.request = request}
  <2>1. x \in ExecutedSlots(i) /\ app[i] = Fresh(EmptyTable, ExecutedSlots(i))
    BY DEF ExecutionInv, AppIsFiltered, Fresh
  <2>2. /\ ExecutedSlots(i) \in SUBSET Call
        /\ x.op_number \in 1..execute_number[i]
        /\ execute_number[i] \in Nat
    BY <2>1, ExecutedSlot DEF AgreementInv
  <2>3. PICK a \in Batches :
          a.op_number < x.op_number /\ request \in Elements(a.requests)
    <3>1. /\ log[i][x.op_number] \in Batches
          /\ log[i][x.op_number].op_number = x.op_number
          /\ x.request \in Elements(log[i][x.op_number].requests)
      BY <2>1, ExecutedIsBatched
    <3> QED  BY <3>1 DEF SequenceInv, BatchesAreOrdered
  <2>4. PICK s \in ExecutedSlots(i) : s.op_number = a.op_number /\ s.request = request
    <3>1. a.op_number <= execute_number[i]
      BY <2>2, <2>3, BatchType
    <3> HIDE DEF request
    <3> QED  BY <2>3, <3>1, SlotOfBatch
  <2>5. PICK z \in same : \A y \in same : ~Precedes(y, z)
    <3>1. same \in SUBSET Call /\ same # {}
      BY <2>2, <2>4
    <3> HIDE DEF same
    <3> QED  BY <3>1, FirstCall
  <2>6. z \in app[i]
    BY <2>1, <2>5, FirstIsFresh
  <2>7. z.op_number < x.op_number
    <3>1. z \in Call /\ s \in Call /\ x \in Call
      BY <2>1, <2>2
    <3>2. z.op_number <= s.op_number
      BY <2>4, <2>5, <3>1, CallNumber DEF Precedes
    <3> QED  BY <2>3, <2>4, <3>1, <3>2, CallNumber
  <2> QED  BY <2>5, <2>6, <2>7 DEF Precedes
<1> QED  BY <1>1, TypeCorrect, AgreementInvariant, ExecutionInvariant, SequenceInvariant, PTL

-------------------------------------------------------------------------------
(* The order of calls. *)

\* No two calls have the same place in a log.
Apart(calls) ==
  \A x, y \in calls : x.op_number = y.op_number /\ x.index = y.index => x = y

\* The places of calls run from 1 to their number, in the order of the log.
LEMMA CallPlaces ==
  ASSUME NEW calls \in SUBSET Call, IsFiniteSet(calls), Apart(calls)
  PROVE  /\ Cardinality(calls) \in Nat
         /\ \A x \in calls : Place(calls, x) \in 1..Cardinality(calls)
         /\ \A x, y \in calls : Place(calls, x) = Place(calls, y) => x = y
         /\ \A x, y \in calls : Precedes(x, y) => Place(calls, x) < Place(calls, y)
         /\ \A p \in 1..Cardinality(calls) : \E x \in calls : Place(calls, x) = p
<1> DEFINE N == Cardinality(calls)
           below == [x \in calls |-> {y \in calls : Precedes(y, x)}]
<1>1. N \in Nat
  BY FS_CardinalityType
<1>2. \A x \in calls : x.op_number \in Nat /\ x.index \in Nat
  BY CallNumber
<1>3. /\ below \in [calls -> SUBSET calls]
      /\ \A x \in calls : x \notin below[x]
      /\ \A x, y \in calls : x # y => x \in below[y] \/ y \in below[x]
      /\ \A x, y \in calls : x \in below[y] => below[x] \subseteq below[y]
  <2>1. \A x, y \in calls : x # y => Precedes(x, y) \/ Precedes(y, x)
    BY <1>2 DEF Apart, Precedes
  <2>2. \A x \in calls : ~Precedes(x, x)
    BY <1>2 DEF Precedes
  <2>3. \A x, y, z \in calls : Precedes(x, y) /\ Precedes(y, z) => Precedes(x, z)
    BY <1>2 DEF Precedes
  <2> QED  BY <2>1, <2>2, <2>3
<1>4. \A x \in calls : Place(calls, x) = Cardinality(below[x]) + 1
  BY DEF Place
<1>5. \A x, y \in calls : Precedes(x, y) => x \in below[y]
  OBVIOUS
<1> HIDE DEF below
<1>6. /\ \A x \in calls : Cardinality(below[x]) \in 0..(N - 1)
      /\ \A x, y \in calls : x \in below[y] => Cardinality(below[x]) < Cardinality(below[y])
      /\ \A x, y \in calls : Cardinality(below[x]) = Cardinality(below[y]) => x = y
      /\ \A n \in 0..(N - 1) : \E x \in calls : Cardinality(below[x]) = n
  BY <1>3, RankIsPosition
<1> HIDE DEF N
<1>7. ASSUME NEW p \in 1..N
      PROVE  \E x \in calls : Place(calls, x) = p
  <2>1. PICK x \in calls : Cardinality(below[x]) = p - 1
    BY <1>1, <1>6
  <2> QED  BY <1>1, <1>4, <2>1
<1>8. \A x \in calls : Place(calls, x) \in 1..N
  BY <1>1, <1>4, <1>6
<1>9. \A x, y \in calls : Place(calls, x) = Place(calls, y) => x = y
  BY <1>1, <1>4, <1>6
<1>10. \A x, y \in calls : Precedes(x, y) => Place(calls, x) < Place(calls, y)
  BY <1>1, <1>4, <1>5, <1>6
<1> QED  BY <1>1, <1>7, <1>8, <1>9, <1>10 DEF N

LEMMA OrderedRequests ==
  ASSUME NEW calls \in SUBSET Call, IsFiniteSet(calls), Apart(calls)
  PROVE  /\ RequestsInOrder(calls) \in Seq(Request)
         /\ Len(RequestsInOrder(calls)) = Cardinality(calls)
         /\ \A x \in calls : RequestsInOrder(calls)[Place(calls, x)] = x.request
<1> DEFINE N == Cardinality(calls)
           order == RequestsInOrder(calls)
<1>1. /\ N \in Nat
      /\ \A x \in calls : Place(calls, x) \in 1..N
      /\ \A x, y \in calls : Place(calls, x) = Place(calls, y) => x = y
      /\ \A p \in 1..N : \E x \in calls : Place(calls, x) = p
  BY CallPlaces
<1>2. order = [p \in 1..N |-> (CHOOSE x \in calls : Place(calls, x) = p).request]
  BY DEF RequestsInOrder
<1> HIDE DEF N, order
<1>3. ASSUME NEW p \in 1..N
      PROVE  \E x \in calls : Place(calls, x) = p /\ order[p] = x.request
  <2>1. \E x \in calls : Place(calls, x) = p
    BY <1>1
  <2> QED  BY <1>2, <2>1
<1>4. order \in [1..N -> Request]
  <2>1. \A p \in 1..N : order[p] \in Request
    BY <1>3, CallNumber
  <2> QED  BY <1>2, <2>1
<1>5. order \in Seq(Request) /\ Len(order) = N
  BY <1>1, <1>4, FunctionIsSequence
<1>6. ASSUME NEW x \in calls
      PROVE  order[Place(calls, x)] = x.request
  BY <1>1, <1>3
<1> QED  BY <1>5, <1>6 DEF N, order

\* Later calls leave the places of the earlier ones alone.
LEMMA OrderIsKept ==
  ASSUME NEW new \in SUBSET Call, IsFiniteSet(new), Apart(new),
         NEW old \in SUBSET new,
         \A x \in old, y \in new \ old : x.op_number < y.op_number
  PROVE  /\ IsFiniteSet(old)
         /\ Cardinality(old) <= Cardinality(new)
         /\ Cardinality(old) = Cardinality(new) => old = new
         /\ \A p \in 1..Cardinality(old) :
              RequestsInOrder(old)[p] = RequestsInOrder(new)[p]
         /\ \A p \in 1..Cardinality(new) : p \notin 1..Cardinality(old) =>
              \E x \in new : RequestsInOrder(new)[p] = x.request
<1>1. /\ IsFiniteSet(old)
      /\ Cardinality(old) <= Cardinality(new)
      /\ Cardinality(old) = Cardinality(new) => old = new
  BY FS_Subset
<1>2. old \in SUBSET Call /\ Apart(old)
  BY DEF Apart
<1>3. ASSUME NEW x \in old
      PROVE  Place(old, x) = Place(new, x)
  <2>1. ASSUME NEW y \in new, Precedes(y, x)  PROVE y \in old
    <3>1. x.op_number \in Nat /\ y.op_number \in Nat /\ y.op_number <= x.op_number
      BY <2>1, CallNumber DEF Precedes
    <3> QED  BY <3>1
  <2>2. {y \in old : Precedes(y, x)} = {y \in new : Precedes(y, x)}
    BY <2>1
  <2> QED  BY <2>2 DEF Place
<1>4. ASSUME NEW p \in 1..Cardinality(old)
      PROVE  RequestsInOrder(old)[p] = RequestsInOrder(new)[p]
  <2>1. PICK x \in old : Place(old, x) = p
    BY <1>1, <1>2, CallPlaces
  <2>2. RequestsInOrder(old)[p] = x.request
    BY <1>1, <1>2, <2>1, OrderedRequests
  <2>3. RequestsInOrder(new)[Place(new, x)] = x.request
    BY OrderedRequests
  <2> QED  BY <1>3, <2>1, <2>2, <2>3
<1>5. ASSUME NEW p \in 1..Cardinality(new)
      PROVE  \E x \in new : RequestsInOrder(new)[p] = x.request
  <2>1. PICK x \in new : Place(new, x) = p
    BY CallPlaces
  <2> QED  BY <2>1, OrderedRequests
<1> QED  BY <1>1, <1>4, <1>5

-------------------------------------------------------------------------------
(* The calls of one state. *)

LEMMA FiniteImage ==
  ASSUME NEW S, IsFiniteSet(S), NEW f
  PROVE  IsFiniteSet({f[x] : x \in S})
<1> DEFINE T == {f[x] : x \in S}
           g == [x \in S |-> f[x]]
<1>1. g \in [S -> T] /\ \A y \in T : \E x \in S : g[x] = y
  OBVIOUS
<1> HIDE DEF T, g
<1>2. g \in Surjection(S, T)
  BY <1>1, Fun_IsSurj
<1>3. IsFiniteSet(T)
  BY <1>2, FS_Surjection
<1> QED  BY <1>3 DEF T

LEMMA ExecutedSlotsAreFinite ==
  ASSUME TypeOK, ExecutedIsCommitted, NEW i \in Replica
  PROVE  IsFiniteSet(ExecutedSlots(i))
<1> DEFINE batch == [k \in 1..execute_number[i] |->
                       {[op_number |-> k, index |-> p, request |-> log[i][k].requests[p]] :
                          p \in 1..Len(log[i][k].requests)}]
           all == {batch[k] : k \in 1..execute_number[i]}
<1>1. execute_number[i] \in Nat /\ execute_number[i] <= Len(log[i])
  BY ExecutedSlot
<1>2. ASSUME NEW k \in 1..execute_number[i]
      PROVE  IsFiniteSet(batch[k])
  <2> DEFINE n == Len(log[i][k].requests)
             slot == [p \in 1..n |->
                        [op_number |-> k, index |-> p, request |-> log[i][k].requests[p]]]
  <2>1. n \in Nat
    <3>1. log[i][k] \in PrePrepareMessage
      BY <1>1, LogType
    <3>2. log[i][k].requests \in Seq(Request)
      BY <3>1 DEF PrePrepareMessage, Batch
    <3> QED  BY <3>2
  <2>2. batch[k] = {slot[p] : p \in 1..n}
    OBVIOUS
  <2> HIDE DEF batch, n, slot
  <2>3. IsFiniteSet(1..n)
    BY <2>1, FS_Interval
  <2>4. IsFiniteSet({slot[p] : p \in 1..n})
    BY ONLY <2>3, FiniteImage
  <2> QED  BY <2>2, <2>4
<1>3. IsFiniteSet(all)
  <2> HIDE DEF batch
  <2>1. IsFiniteSet(1..execute_number[i])
    BY <1>1, FS_Interval
  <2> QED  BY <2>1, FiniteImage
<1>4. ExecutedSlots(i) = UNION all
  <2>1. ASSUME NEW x
        PROVE  x \in ExecutedSlots(i) <=> \E k \in 1..execute_number[i] : x \in batch[k]
    BY DEF ExecutedSlots, Slots
  <2> HIDE DEF batch
  <2> QED  BY <2>1
<1>5. \A T \in all : IsFiniteSet(T)
  BY <1>2
<1> HIDE DEF all
<1> QED  BY <1>3, <1>4, <1>5, FS_UNION

\* Some replica has executed most: none has executed more than the primary has
\* closed.
LEMMA SomeIsMostAdvanced ==
  ASSUME TypeOK, AgreementInv
  PROVE  /\ MostAdvanced \in Replica
         /\ \A j \in Replica : execute_number[j] <= execute_number[MostAdvanced]
<1> DEFINE behind == {op_number - execute_number[j] : j \in Replica}
<1>1. op_number \in Nat /\ Primary \in Replica
  BY PbftAssumption DEF TypeOK, ReplicaTypeOK
<1>2. ASSUME NEW j \in Replica
      PROVE  execute_number[j] \in Nat /\ execute_number[j] <= op_number
  <2>1. execute_number[j] \in Nat /\ execute_number[j] <= Len(log[j]) /\ Len(log[j]) \in Nat
    BY ExecutedSlot, LogType DEF AgreementInv
  <2>2. CASE execute_number[j] = 0
    BY <1>1, <2>2
  <2>3. CASE execute_number[j] # 0
    <3> DEFINE k == execute_number[j]
    <3>1. k \in 1..Len(log[j])
      BY <2>1, <2>3
    <3> HIDE DEF k
    <3>2. log[j][k] \in network /\ log[j][k].op_number = k /\ log[j][k].type = "PrePrepare"
      BY <3>1, LogType DEF AgreementInv, LogsAreSent, PrePrepareMessage
    <3>3. k <= op_number
      BY <3>2 DEF AgreementInv, BatchesAreUnique
    <3> QED  BY <2>1, <3>3 DEF k
  <2> QED  BY <2>2, <2>3
<1>3. behind \in SUBSET Nat /\ behind # {}
  BY <1>1, <1>2
<1>4. PICK least \in behind : \A x \in behind : least <= x
  <2> HIDE DEF behind
  <2> QED  BY <1>3, LeastNatural
<1>5. PICK i \in Replica : least = op_number - execute_number[i]
  BY <1>4
<1>6. \A j \in Replica : execute_number[j] <= execute_number[i]
  <2> TAKE j \in Replica
  <2>1. op_number - execute_number[i] <= op_number - execute_number[j]
    BY <1>4, <1>5
  <2> QED  BY <1>1, <1>2, <2>1
<1> QED  BY <1>6 DEF MostAdvanced

\* The calls of replica i stand in the order of its log, each for a request that
\* its client has issued.
CallsAreOfLog(i) ==
  /\ IsFiniteSet(app[i])
  /\ Apart(app[i])
  /\ \A x \in app[i] :
       /\ x.op_number <= execute_number[i]
       /\ x.request.request_number <= request_number[x.request.client]

LEMMA AppCalls ==
  ASSUME TypeOK, AgreementInv, ExecutionInv, SequenceInv, NEW i \in Replica
  PROVE  CallsAreOfLog(i)
<1>1. app[i] \in SUBSET ExecutedSlots(i)
  BY DEF ExecutionInv, AppIsFiltered, Fresh
<1>2. IsFiniteSet(app[i])
  <2>1. IsFiniteSet(ExecutedSlots(i))
    BY ExecutedSlotsAreFinite DEF AgreementInv
  <2> QED  BY <1>1, <2>1, FS_Subset
<1>3. /\ execute_number[i] \in Nat /\ execute_number[i] <= Len(log[i])
      /\ \A x \in ExecutedSlots(i) : x \in Call /\ x.op_number \in 1..execute_number[i]
  BY ExecutedSlot DEF AgreementInv
<1>4. \A x \in ExecutedSlots(i) : x.request = log[i][x.op_number].requests[x.index]
  BY <1>3, SlotOfLog DEF ExecutedSlots, OpNumber
<1>5. Apart(app[i])
  <2>1. \A x, y \in ExecutedSlots(i) :
          x.op_number = y.op_number /\ x.index = y.index => x.request = y.request
    BY <1>4
  <2>2. \A x, y \in Call :
          x.op_number = y.op_number /\ x.index = y.index /\ x.request = y.request => x = y
    BY DEF Call
  <2> QED  BY <1>1, <1>3, <2>1, <2>2 DEF Apart
<1>6. ASSUME NEW x \in app[i]
      PROVE  /\ x.op_number <= execute_number[i]
             /\ x.request.request_number <= request_number[x.request.client]
  <2>1. x \in ExecutedSlots(i)
    BY <1>1
  <2>2. log[i][x.op_number] \in Batches /\ x.request \in Elements(log[i][x.op_number].requests)
    BY <2>1, ExecutedIsBatched
  <2> QED  BY <1>3, <2>1, <2>2 DEF SequenceInv, RequestsAreIssued
<1> QED  BY <1>2, <1>5, <1>6 DEF CallsAreOfLog

-------------------------------------------------------------------------------
(* The order of execution from one state to the next. *)

LEMMA ExecutedOnlyGrows ==
  ASSUME TypeOK, [Next]_vars, NEW i \in Replica
  PROVE  execute_number[i] \in Nat /\ execute_number[i] <= execute_number'[i]
<1>1. execute_number \in [Replica -> Nat]
  BY DEF TypeOK, ReplicaTypeOK
<1>2. CASE UNCHANGED execute_number
  BY <1>1, <1>2
<1>3. ASSUME NEW j \in Replica, NEW m, HandleCommit(j, m)
      PROVE  execute_number[i] <= execute_number'[i]
  <2>1. CASE UNCHANGED executeVars
    BY <1>2, <2>1 DEF executeVars
  <2>2. ASSUME NEW commits, Execute(j, commits)
        PROVE  execute_number[i] <= execute_number'[i]
    <3>1. PICK to \in execute_number[j]..Len(log[j]) :
            execute_number' = [execute_number EXCEPT ![j] = to]
      BY <2>2 DEF Execute
    <3>2. Len(log[j]) \in Nat /\ execute_number[j] \in Nat
      BY <1>1, LogType
    <3> QED  BY <1>1, <3>1, <3>2
  <2> QED  BY <1>3, <2>1, <2>2 DEF HandleCommit
<1>4. ASSUME NEW j \in Replica, ReplicaNext(j)
      PROVE  execute_number[i] <= execute_number'[i]
  BY <1>2, <1>3, <1>4 DEF ReplicaNext, MainPoll, HandleRequest, HandlePrePrepare,
     HandlePrepare, executeVars
<1>5. ASSUME NEW c \in Client, ClientNext(c)
      PROVE  UNCHANGED execute_number
  BY <1>5 DEF ClientNext, replicaVars, executeVars
<1>6. CASE UNCHANGED vars
  BY <1>2, <1>6 DEF vars, replicaVars, executeVars
<1> QED  BY <1>1, <1>2, <1>4, <1>5, <1>6 DEF Next

\* The calls for the batches a replica had executed stay what they were.
LEMMA CallsStay ==
  ASSUME TypeOK, TypeOK', AgreementInv, ExecutionInv, ExecutionInv', Grows,
         NEW i \in Replica, execute_number[i] <= execute_number'[i]
  PROVE  \A x : x \in app[i] <=> x \in app'[i] /\ x.op_number <= execute_number[i]
<1> DEFINE exec == execute_number[i]
           more == execute_number'[i]
           before == Slots(log[i], 1, exec)
           later == Slots(log'[i], exec + 1, more)
<1>1. exec \in Nat /\ more \in Nat /\ exec <= more /\ exec <= Len(log[i])
  BY ExecutedSlot DEF AgreementInv, TypeOK, ReplicaTypeOK
<1>2. app[i] = Fresh(EmptyTable, before)
  BY DEF ExecutionInv, AppIsFiltered, ExecutedSlots
<1>3. app'[i] = Fresh(EmptyTable, before \cup later)
  <2>1. app'[i] = Fresh(EmptyTable, Slots(log'[i], 1, more))
    BY DEF ExecutionInv, AppIsFiltered, ExecutedSlots, EmptyTable
  <2>2. Slots(log'[i], 1, exec) = before
    <3>1. \A k \in 1..exec : log'[i][k] = log[i][k]
      <4>1. 1..exec \subseteq 1..Len(log[i])
        BY <1>1, LogType
      <4> QED  BY <4>1 DEF Grows
    <3> QED  BY <3>1, SameSlots
  <2>3. Slots(log'[i], 1, more) = Slots(log'[i], 1, exec) \cup later
    <3> HIDE DEF exec, more
    <3> QED  BY <1>1, SlotsSplit
  <2> QED  BY <2>1, <2>2, <2>3
<1>4. \A x \in before : x.op_number \in 1..exec
  BY DEF Slots
<1>5. \A x \in later : x.op_number \in (exec + 1)..more
  BY DEF Slots
<1>6. \A x \in before, y \in later : ~Precedes(y, x) /\ x \notin later
  <2> HIDE DEF before, later
  <2> QED  BY <1>1, <1>4, <1>5 DEF Precedes
<1> HIDE DEF before, later
<1>7. \A x : x \in Fresh(EmptyTable, before) <=>
              x \in before /\ x \in Fresh(EmptyTable, before \cup later)
  BY <1>6 DEF Fresh
<1>8. \A x \in before \cup later : x \in before <=> x.op_number <= exec
  BY <1>1, <1>4, <1>5
<1>9. Fresh(EmptyTable, before \cup later) \subseteq before \cup later
  BY DEF Fresh
<1> HIDE DEF exec
<1>10. \A x : x \in app[i] <=> x \in app'[i] /\ x.op_number <= exec
  BY <1>2, <1>3, <1>7, <1>8, <1>9
<1> QED  BY <1>10 DEF exec

-------------------------------------------------------------------------------
(* The service. *)

\* What one state says of the abstract service's.
ServiceInv ==
  /\ MostAdvanced \in Replica
  /\ \A j \in Replica : execute_number[j] <= execute_number[MostAdvanced]
  /\ \A i \in Replica : CallsAreOfLog(i)
  /\ ExecutionAgreement
  /\ Abstract!InOrder(History)
  /\ \A c \in Client : \A n \in 1..Answered(c) :
       \E p \in 1..Len(History) : History[p] = [client |-> c, request_number |-> n]

LEMMA HistoryOrder ==
  ASSUME TypeOK, NEW i \in Replica, CallsAreOfLog(i), ExactlyOnce, NoRequestSkipped
  PROVE  Abstract!InOrder(ExecutionOrder(i))
<1> DEFINE calls == app[i]
           h == ExecutionOrder(i)
<1>1. calls \in SUBSET Call /\ IsFiniteSet(calls) /\ Apart(calls)
  BY DEF CallsAreOfLog, TypeOK, ReplicaTypeOK
<1>2. /\ Len(h) = Cardinality(calls)
      /\ \A x \in calls : h[Place(calls, x)] = x.request
  BY <1>1, OrderedRequests DEF ExecutionOrder
<1>3. /\ Cardinality(calls) \in Nat
      /\ \A x \in calls : Place(calls, x) \in 1..Cardinality(calls)
      /\ \A x, y \in calls : Precedes(x, y) => Place(calls, x) < Place(calls, y)
      /\ \A p \in 1..Cardinality(calls) : \E x \in calls : Place(calls, x) = p
  BY <1>1, CallPlaces
<1>4. /\ \A x, y \in calls : x.request = y.request => x = y
      /\ \A x \in calls : \A n \in 1..(x.request.request_number - 1) :
           \E y \in calls :
             /\ y.request = [client |-> x.request.client, request_number |-> n]
             /\ Precedes(y, x)
  BY DEF ExactlyOnce, NoRequestSkipped
<1> HIDE DEF calls, h
<1>5. \A p \in 1..Len(h) : \E x \in calls : Place(calls, x) = p /\ h[p] = x.request
  BY <1>2, <1>3
<1>6. ASSUME NEW p \in 1..Len(h), NEW q \in 1..Len(h), h[p] = h[q]
      PROVE  p = q
  BY <1>4, <1>5, <1>6
<1>7. ASSUME NEW p \in 1..Len(h), h[p].request_number > 1
      PROVE  \E q \in 1..(p - 1) :
               h[q] = [client |-> h[p].client, request_number |-> h[p].request_number - 1]
  <2>1. PICK x \in calls : Place(calls, x) = p /\ h[p] = x.request
    BY <1>5
  <2>2. x.request.request_number \in Nat
    BY <1>1, CallNumber
  <2>3. x.request.request_number - 1 \in 1..(x.request.request_number - 1)
    BY <1>7, <2>1, <2>2
  <2>4. PICK y \in calls :
          /\ y.request = [client |-> x.request.client,
                          request_number |-> x.request.request_number - 1]
          /\ Precedes(y, x)
    BY <1>4, <2>3
  <2>5. Place(calls, y) \in 1..(p - 1)
    BY <1>2, <1>3, <2>1, <2>4
  <2> QED  BY <1>2, <2>1, <2>4, <2>5
<1> QED  BY <1>6, <1>7 DEF Abstract!InOrder, h

\* Whoever has executed most has executed every request that was answered.
LEMMA AnswerInHistory ==
  ASSUME TypeOK, ResultIsExecuted, ExecutionAgreement,
         MostAdvanced \in Replica,
         \A j \in Replica : execute_number[j] <= execute_number[MostAdvanced],
         \A i \in Replica : CallsAreOfLog(i),
         NEW c \in Client, NEW n \in 1..Answered(c)
  PROVE  \E p \in 1..Len(History) : History[p] = [client |-> c, request_number |-> n]
<1> DEFINE request == [client |-> c, request_number |-> n]
           executors == {i \in Replica : HasExecuted(i, request)}
<1>1. PICK i \in Replica : HasExecuted(i, request)
  <2>1. Cardinality(executors) > F
    BY DEF ResultIsExecuted
  <2>2. ~(0 > F)
    BY PbftAssumption
  <2>3. executors # {}
    <3> HIDE DEF executors
    <3> QED  BY <2>1, <2>2, FS_EmptySet
  <2> QED  BY <2>3
<1> HIDE DEF request
<1>2. PICK x \in app[i] : x.request = request
  BY <1>1 DEF HasExecuted
<1>3. PICK j \in Replica : j = MostAdvanced
  OBVIOUS
<1>4. x.op_number <= execute_number[j]
  <2>1. x \in Call
    BY <1>2 DEF TypeOK, ReplicaTypeOK
  <2>2. x.op_number \in Nat /\ execute_number[i] \in Nat /\ execute_number[j] \in Nat
    BY <2>1, CallNumber DEF TypeOK, ReplicaTypeOK
  <2>3. x.op_number <= execute_number[i] /\ execute_number[i] <= execute_number[j]
    BY <1>3 DEF CallsAreOfLog
  <2> QED  BY <2>2, <2>3
<1>5. x \in app[j]
  BY <1>4 DEF ExecutionAgreement
<1>6. app[j] \in SUBSET Call /\ IsFiniteSet(app[j]) /\ Apart(app[j])
  BY DEF CallsAreOfLog, TypeOK, ReplicaTypeOK
<1>7. Place(app[j], x) \in 1..Cardinality(app[j])
  BY <1>5, <1>6, CallPlaces
<1>8. /\ Len(RequestsInOrder(app[j])) = Cardinality(app[j])
      /\ RequestsInOrder(app[j])[Place(app[j], x)] = x.request
  BY <1>5, <1>6, OrderedRequests
<1>9. History = RequestsInOrder(app[j])
  BY <1>3 DEF History, ExecutionOrder
<1> QED  BY <1>2, <1>7, <1>8, <1>9 DEF request

LEMMA StateServes ==
  TypeOK /\ AgreementInv /\ ExecutionInv /\ SequenceInv
    /\ ExecutionAgreement /\ ExactlyOnce /\ NoRequestSkipped => ServiceInv
<1> SUFFICES ASSUME TypeOK, AgreementInv, ExecutionInv, SequenceInv,
                    ExecutionAgreement, ExactlyOnce, NoRequestSkipped
             PROVE  ServiceInv
  OBVIOUS
<1>1. /\ MostAdvanced \in Replica
      /\ \A j \in Replica : execute_number[j] <= execute_number[MostAdvanced]
  BY SomeIsMostAdvanced
<1>2. \A i \in Replica : CallsAreOfLog(i)
  BY AppCalls
<1>3. Abstract!InOrder(History)
  <2>1. \A i \in Replica : Abstract!InOrder(ExecutionOrder(i))
    BY <1>2, HistoryOrder
  <2> QED  BY <1>1, <2>1 DEF History
<1>4. ResultIsExecuted
  BY DEF ExecutionInv
<1>5. \A c \in Client : \A n \in 1..Answered(c) :
        \E p \in 1..Len(History) : History[p] = [client |-> c, request_number |-> n]
  BY <1>1, <1>2, <1>4, AnswerInHistory
<1> QED  BY <1>1, <1>2, <1>3, <1>5 DEF ServiceInv

\* A step appends to the history or leaves it alone, whichever replica has
\* executed most before it and after it.
LEMMA HistoryGrows ==
  ASSUME TypeOK, TypeOK', AgreementInv, ExecutionInv, ExecutionInv',
         ServiceInv, ServiceInv', [Next]_vars
  PROVE  /\ History' \in Seq(Request)
         /\ Len(History) \in Nat /\ Len(History') \in Nat
         /\ Len(History) <= Len(History')
         /\ Len(History) = Len(History') => History' = History
         /\ \A p \in 1..Len(History) : History'[p] = History[p]
         /\ \A p \in 1..Len(History') : p \notin 1..Len(History) =>
              History'[p].request_number <= request_number'[History'[p].client]
<1>1. PICK i \in Replica : i = MostAdvanced
  BY DEF ServiceInv
<1>2. PICK j \in Replica : j = MostAdvanced'
  BY DEF ServiceInv
<1> DEFINE old == app[i]
           new == app'[j]
           exec == execute_number[i]
<1>3. History = RequestsInOrder(old) /\ History' = RequestsInOrder(new)
  BY <1>1, <1>2 DEF History, ExecutionOrder
<1>4. /\ new \in SUBSET Call /\ IsFiniteSet(new) /\ Apart(new)
      /\ \A x \in new : x.request.request_number <= request_number'[x.request.client]
  BY DEF ServiceInv, CallsAreOfLog, Apart, TypeOK, ReplicaTypeOK
<1>5. /\ exec \in Nat /\ execute_number'[i] \in Nat /\ execute_number'[j] \in Nat
      /\ exec <= execute_number'[i]
      /\ execute_number'[i] <= execute_number'[j]
  <2>1. exec \in Nat /\ exec <= execute_number'[i]
    BY ExecutedOnlyGrows
  <2>2. execute_number'[i] \in Nat /\ execute_number'[j] \in Nat
    BY DEF TypeOK, ReplicaTypeOK
  <2>3. execute_number'[i] <= execute_number'[j]
    BY <1>2 DEF ServiceInv
  <2> QED  BY <2>1, <2>2, <2>3
<1>6. Grows
  BY AgreementStep
<1>7. \A x : x \in old <=> x \in app'[i] /\ x.op_number <= exec
  BY <1>5, <1>6, CallsStay
<1>8. \A x \in app'[i] : x.op_number <= execute_number'[i]
  BY DEF ServiceInv, CallsAreOfLog
<1>9. \A x \in app'[i] : x.op_number <= execute_number'[j] => x \in app'[j]
  BY DEF ServiceInv, ExecutionAgreement
<1>10. \A x \in app'[j] : x.op_number <= execute_number'[i] => x \in app'[i]
  BY DEF ServiceInv, ExecutionAgreement
<1>11. \A x \in app'[i] \cup new : x.op_number \in Nat
  BY CallNumber DEF TypeOK, ReplicaTypeOK
<1>12. old \in SUBSET new
  BY <1>5, <1>7, <1>8, <1>9, <1>11
<1>13. \A y \in new \ old : ~(y.op_number <= exec)
  BY <1>5, <1>7, <1>10, <1>11
<1>14. \A x \in old, y \in new \ old : x.op_number < y.op_number
  BY <1>5, <1>7, <1>11, <1>12, <1>13
<1> HIDE DEF old, new, exec
<1>15. /\ IsFiniteSet(old)
       /\ Cardinality(old) <= Cardinality(new)
       /\ Cardinality(old) = Cardinality(new) => old = new
       /\ \A p \in 1..Cardinality(old) :
            RequestsInOrder(old)[p] = RequestsInOrder(new)[p]
       /\ \A p \in 1..Cardinality(new) : p \notin 1..Cardinality(old) =>
            \E x \in new : RequestsInOrder(new)[p] = x.request
  BY <1>4, <1>12, <1>14, OrderIsKept
<1>16. RequestsInOrder(new) \in Seq(Request) /\ Len(RequestsInOrder(new)) = Cardinality(new)
  BY <1>4, OrderedRequests
<1>17. Len(RequestsInOrder(old)) = Cardinality(old)
  <2>1. old \in SUBSET Call /\ Apart(old)
    BY <1>4, <1>12 DEF Apart
  <2> QED  BY <1>15, <2>1, OrderedRequests
<1>18. Cardinality(old) \in Nat /\ Cardinality(new) \in Nat
  BY <1>4, <1>15, FS_CardinalityType
<1> QED  BY <1>3, <1>4, <1>15, <1>16, <1>17, <1>18

\* A replica executes: the abstract service executes what it appended to the
\* history, if anything.
LEMMA ReplicaServes ==
  ASSUME TypeOK, TypeOK', AgreementInv, ExecutionInv, ExecutionInv',
         ServiceInv, ServiceInv', NEW i \in Replica, ReplicaNext(i)
  PROVE  Abstract!ExecuteRequests \/ UNCHANGED Abstract!serviceVars
<1>1. [Next]_vars
  BY DEF Next
<1>2. UNCHANGED <<request_number, pending>>
  BY DEF ReplicaNext, clientVars
<1>3. \A c \in Client : Answered(c)' = Answered(c)
  BY <1>2 DEF Answered
<1>4. [c \in Client |-> Answered(c)]' = [c \in Client |-> Answered(c)]
  BY <1>3
<1>5. /\ History' \in Seq(Request)
      /\ Len(History) \in Nat /\ Len(History') \in Nat
      /\ Len(History) <= Len(History')
      /\ Len(History) = Len(History') => History' = History
      /\ \A p \in 1..Len(History) : History'[p] = History[p]
      /\ \A p \in 1..Len(History') : p \notin 1..Len(History) =>
           History'[p].request_number <= request_number'[History'[p].client]
  BY <1>1, HistoryGrows
<1>6. CASE Len(History) = Len(History')
  BY <1>2, <1>4, <1>5, <1>6 DEF Abstract!serviceVars
<1>7. CASE Len(History) < Len(History')
  <2>1. Abstract!ServiceRequest = Request
    BY DEF Abstract!ServiceRequest, Request
  <2>2. Abstract!InOrder(History')
    BY DEF ServiceInv, Abstract!InOrder
  <2>3. \A p \in (Len(History) + 1)..Len(History') :
          History'[p].request_number <= request_number[History'[p].client]
    BY <1>2, <1>5
  <2> QED  BY <1>2, <1>4, <1>5, <1>7, <2>1, <2>2, <2>3 DEF Abstract!ExecuteRequests
<1> QED  BY <1>5, <1>6, <1>7

\* A client invokes, is answered, or does nothing that the service sees.
LEMMA ClientServes ==
  ASSUME TypeOK, TypeOK', ServiceInv, ServiceInv', NEW c \in Client, ClientNext(c)
  PROVE  \/ Abstract!InvokeRequest(c) \/ Abstract!AnswerRequest(c)
         \/ UNCHANGED Abstract!serviceVars
<1>1. UNCHANGED <<execute_number, app>>
  BY DEF ClientNext, replicaVars, executeVars
<1>2. History' = History
  BY <1>1 DEF History, ExecutionOrder, MostAdvanced
<1> DEFINE answered == [d \in Client |-> Answered(d)]
<1>3. \A d \in Client : /\ request_number[d] \in 0..MaxRequest
                        /\ request_number[d] \in Nat
                        /\ request_number'[d] \in Nat
                        /\ pending[d] \in BOOLEAN
                        /\ pending'[d] \in BOOLEAN
  BY PbftAssumption DEF TypeOK, ClientTypeOK
<1>4. CASE Invoke(c)
  <2>1. /\ ~pending[c] /\ request_number[c] < MaxRequest
        /\ request_number' = [request_number EXCEPT ![c] = @ + 1]
        /\ \A d \in Client : /\ pending'[d] = (d = c \/ pending[d])
                             /\ request_number'[d] = IF d = c THEN request_number[c] + 1
                                                     ELSE request_number[d]
    BY <1>4 DEF Invoke, TypeOK, ClientTypeOK
  <2>2. \A d \in Client : Answered(d)' = Answered(d)
    BY <1>3, <2>1 DEF Answered
  <2>3. Answered(c) = request_number[c]
    BY <2>1 DEF Answered
  <2>4. answered' = answered /\ answered[c] = request_number[c]
    BY <2>2, <2>3
  <2> QED  BY <1>2, <2>1, <2>4 DEF Abstract!InvokeRequest
<1>5. CASE ClientPoll(c)
  <2>1. request_number' = request_number
    BY <1>5 DEF ClientPoll
  <2>2. CASE pending' = pending
    <3>1. \A d \in Client : Answered(d)' = Answered(d)
      BY <2>1, <2>2 DEF Answered
    <3>2. answered' = answered
      BY <3>1
    <3> QED  BY <1>2, <2>1, <3>2 DEF Abstract!serviceVars
  <2>3. CASE pending' # pending
    <3>1. /\ pending[c]
          /\ \E done \in BOOLEAN : pending' = [pending EXCEPT ![c] = ~done]
      BY <1>5, <2>3 DEF ClientPoll, ReceiveReply, IsAwaited, EnoughResults
    <3>2. pending' = [pending EXCEPT ![c] = FALSE]
      <4>1. PICK done \in BOOLEAN : pending' = [pending EXCEPT ![c] = ~done]
        BY <3>1
      <4>2. pending \in [Client -> BOOLEAN]
        BY DEF TypeOK, ClientTypeOK
      <4>3. CASE done
        BY <4>1, <4>3
      <4>4. CASE ~done
        <5>1. [pending EXCEPT ![c] = TRUE] = pending
          BY ONLY <3>1, <4>2
        <5> QED  BY <2>3, <4>1, <4>4, <5>1
      <4> QED  BY <4>3, <4>4
    <3>3. /\ ~pending'[c]
          /\ \A d \in Client \ {c} : pending'[d] = pending[d]
      BY <3>2 DEF TypeOK, ClientTypeOK
    <3>4. /\ Answered(c)' = request_number[c]
          /\ Answered(c) = request_number[c] - 1
          /\ \A d \in Client \ {c} : Answered(d)' = Answered(d)
      BY <2>1, <3>1, <3>3 DEF Answered
    <3>5. answered' = [answered EXCEPT ![c] = request_number[c]] /\ answered[c] < request_number[c]
      <4>1. answered[c] < request_number[c]
        BY <1>3, <3>4
      <4>2. \A d \in Client :
              Answered(d)' = IF d = c THEN request_number[c] ELSE Answered(d)
        BY <3>4
      <4>3. answered' = [d \in Client |-> IF d = c THEN request_number[c] ELSE Answered(d)]
        BY <4>2
      <4>4. answered' = [answered EXCEPT ![c] = request_number[c]]
        BY <4>3
      <4> QED  BY <4>1, <4>4
    <3>6. request_number[c] \in 1..Answered(c)'
      <4>1. request_number[c] # 0
        <5>1. \E m \in replies : m.request_number = request_number[c]
          BY <1>5, <2>3 DEF ClientPoll, ReceiveReply, IsAwaited
        <5>2. \A m \in replies : m.request_number # 0
          BY PbftAssumption DEF TypeOK, NetworkTypeOK, ReplyMessage
        <5> QED  BY <5>1, <5>2
      <4> QED  BY <1>3, <3>4, <4>1
    <3>7. \E p \in 1..Len(History) :
            History[p] = [client |-> c, request_number |-> request_number[c]]
      <4>1. \A n \in 1..Answered(c)' : \E p \in 1..Len(History') :
              History'[p] = [client |-> c, request_number |-> n]
        BY DEF ServiceInv
      <4> QED  BY <1>2, <3>6, <4>1
    <3> QED  BY <1>2, <2>1, <3>5, <3>7 DEF Abstract!AnswerRequest
  <2> QED  BY <2>2, <2>3
<1> QED  BY <1>4, <1>5 DEF ClientNext

\* The PBFT service implements Service: its clients cannot tell it from one that
\* executes every request once, in one order that never changes, and answers
\* after that, whichever replicas have executed and however far.
THEOREM PbftImplementsService == Spec => ImplementsService
<1> DEFINE Inv == TypeOK /\ AgreementInv /\ ExecutionInv /\ ServiceInv
<1>1. Init => Abstract!ServiceInit
  <2> SUFFICES ASSUME Init  PROVE Abstract!ServiceInit
    OBVIOUS
  <2>1. /\ request_number = [c \in Client |-> 0]
        /\ \A c \in Client : Answered(c) = 0
        /\ \A i \in Replica : app[i] = {} /\ execute_number[i] = 0
    BY DEF Init, ClientInit, ReplicaInit, Answered
  <2>2. MostAdvanced \in Replica
    <3>1. \E i \in Replica : \A j \in Replica : execute_number[j] <= execute_number[i]
      BY <2>1, PbftAssumption
    <3> QED  BY <3>1 DEF MostAdvanced
  <2>3. History = RequestsInOrder({})
    BY <2>1, <2>2 DEF History, ExecutionOrder
  <2>4. RequestsInOrder({}) = <<>>
    <3>1. RequestsInOrder({}) \in Seq(Request) /\ Len(RequestsInOrder({})) = 0
      BY OrderedRequests, FS_EmptySet DEF Apart
    <3> QED  BY <3>1, EmptySeq
  <2> QED  BY <2>1, <2>3, <2>4 DEF Abstract!ServiceInit
<1>2. Inv /\ Inv' /\ [Next]_vars => [Abstract!ServiceNext]_Abstract!serviceVars
  <2> SUFFICES ASSUME TypeOK, AgreementInv, ExecutionInv, ServiceInv,
                      TypeOK', ExecutionInv', ServiceInv', [Next]_vars
               PROVE  Abstract!ServiceNext \/ UNCHANGED Abstract!serviceVars
    OBVIOUS
  <2>1. ASSUME NEW i \in Replica, ReplicaNext(i)
        PROVE  Abstract!ServiceNext \/ UNCHANGED Abstract!serviceVars
    BY <2>1, ReplicaServes DEF Abstract!ServiceNext
  <2>2. ASSUME NEW c \in Client, ClientNext(c)
        PROVE  Abstract!ServiceNext \/ UNCHANGED Abstract!serviceVars
    BY <2>2, ClientServes DEF Abstract!ServiceNext
  <2>3. CASE UNCHANGED vars
    <3>1. UNCHANGED <<request_number, pending, execute_number, app>>
      BY <2>3 DEF vars, clientVars, replicaVars, executeVars
    <3>2. History' = History
      BY <3>1 DEF History, ExecutionOrder, MostAdvanced
    <3>3. \A c \in Client : Answered(c)' = Answered(c)
      BY <3>1 DEF Answered
    <3>4. [c \in Client |-> Answered(c)]' = [c \in Client |-> Answered(c)]
      BY <3>3
    <3> QED  BY <3>1, <3>2, <3>4 DEF Abstract!serviceVars
  <2> QED  BY <2>1, <2>2, <2>3 DEF Next
<1>3. Spec => []Inv
  <2>1. Spec => [](TypeOK /\ AgreementInv /\ ExecutionInv /\ ServiceInv)
    BY StateServes, TypeCorrect, AgreementInvariant, ExecutionInvariant,
       SequenceInvariant, ExecutionsAgree, ExecutedOnce, NothingSkipped, PTL
  <2> QED  BY <2>1
<1> HIDE DEF Inv
<1> QED  BY <1>1, <1>2, <1>3, PTL DEF Spec, ImplementsService, Abstract!ServiceSpec

===============================================================================
