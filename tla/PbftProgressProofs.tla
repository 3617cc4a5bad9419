--------------------------- MODULE PbftProgressProofs --------------------------
(***************************************************************************)
(* Progress as far as it is not temporal: ProgressInv is an inductive      *)
(* invariant, and where no vote overtakes the service does not come to     *)
(* rest while a client waits.                                              *)
(***************************************************************************)
EXTENDS PbftSequenceProofs, PbftQueueProofs

-------------------------------------------------------------------------------
(* What was taken in stays. *)

\* A committed batch stays committed, under any digest.
LEMMA VotesStayCommitted ==
  ASSUME TypeOK, TypeOK', Grows, NEW i \in Replica, NEW op, NEW digest,
         IsCommitted(log[i], prepare_quorums[i], commit_quorums[i], op, digest)
  PROVE  IsCommitted(log'[i], prepare_quorums'[i], commit_quorums'[i], op, digest)
<1> DEFINE before == Voters(commit_quorums[i], op, digest)
           after == Voters(commit_quorums'[i], op, digest)
<1>1. before \subseteq after /\ after \in SUBSET Replica
  BY DEF Voters, Grows
<1>2. IsPrepared(log[i], prepare_quorums[i], op, digest) /\ Cardinality(before) > 2 * F
  BY DEF IsCommitted
<1>3. IsPrepared(log'[i], prepare_quorums'[i], op, digest)
  BY <1>2, PreparedStays
<1>4. Cardinality(after) > 2 * F
  <2> HIDE DEF before, after
  <2>1. /\ Cardinality(before) \in Nat /\ Cardinality(after) \in Nat
        /\ Cardinality(before) <= Cardinality(after)
    BY <1>1, LargerQuorum
  <2> QED  BY <1>2, <2>1, PbftAssumption
<1> QED  BY <1>3, <1>4 DEF IsCommitted

\* The op numbers whose PrePrepares replica i has.
Taken(i) == 1..Len(log[i]) \cup OpNumbers(reorder[i])

\* What has been counted stays counted.
LEMMA CountedStays ==
  ASSUME TypeOK, TypeOK', Grows, NEW i \in Replica, Taken(i) \subseteq Taken(i)',
         NEW m, IsCounted(i, m)
  PROVE  IsCounted(i, m)'
<1> DEFINE ballot == <<m.op_number, m.request_digest, m.replica_id>>
<1>1. ASSUME m.type = "PrePrepare"
      PROVE  m.op_number \in 1..Len(log'[i]) \cup OpNumbers(reorder'[i])
  <2>1. m.op_number \in Taken(i)
    BY <1>1 DEF IsCounted, Taken
  <2>2. m.op_number \in Taken(i)'
    BY <2>1
  <2> QED  BY <2>2 DEF Taken, OpNumbers
<1>2. ASSUME m.type = "Prepare"
      PROVE  \/ IsPrepared(log'[i], prepare_quorums'[i], m.op_number, m.request_digest)
             \/ ballot \in prepare_quorums'[i]
  BY <1>2, PreparedStays DEF IsCounted, Grows
<1>3. ASSUME m.type = "Commit"
      PROVE  \/ IsCommitted(log'[i], prepare_quorums'[i], commit_quorums'[i],
                            m.op_number, m.request_digest)
             \/ ballot \in commit_quorums'[i]
  BY <1>3, VotesStayCommitted DEF IsCounted, Grows
<1> QED  BY <1>1, <1>2, <1>3 DEF IsCounted, OpNumbers

\* The drain moves op numbers from the reorder buffer to the log.
LEMMA PrePrepareTakes ==
  ASSUME TypeOK, OwnCopies, NEW i \in Replica, NEW m, HandlePrePrepare(i, m)
  PROVE  /\ m.op_number \in Taken(i)'
         /\ \A j \in Replica : Taken(j) \subseteq Taken(j)'
<1>1. /\ m \in PrePrepareMessage
      /\ \A j \in Replica \ {i} : log'[j] = log[j] /\ reorder'[j] = reorder[j]
  BY PrePrepareSteps
<1>2. /\ log \in [Replica -> Seq(PrePrepareMessage)]
      /\ reorder \in [Replica -> SUBSET PrePrepareMessage]
      /\ Len(log[i]) \in Nat
      /\ m.op_number \in Nat
  BY <1>1, LogType DEF TypeOK, ReplicaTypeOK, PrePrepareMessage, OpNumber
<1>3. CASE ~IsDue(i, m)
  <2>1. log'[i] = log[i] /\ reorder'[i] = InsertReordered(i, m)
    BY <1>2, <1>3 DEF HandlePrePrepare
  <2>2. /\ m.op_number \in OpNumbers(InsertReordered(i, m))
        /\ OpNumbers(reorder[i]) \subseteq OpNumbers(InsertReordered(i, m))
    BY DEF OpNumbers, InsertReordered
  <2>3. m.op_number \in Taken(i)' /\ Taken(i) \subseteq Taken(i)'
    BY <2>1, <2>2 DEF Taken, OpNumbers
  <2> QED  BY <1>1, <2>3 DEF Taken, OpNumbers
<1>4. CASE IsDue(i, m)
  <2>1. PICK last \in m.op_number..(m.op_number + Cardinality(reorder[i])) :
          /\ IsLastDue(i, m, last)
          /\ log' = [log EXCEPT ![i] = AcceptedLog(i, m, last)]
          /\ reorder' = [reorder EXCEPT ![i] =
               {e \in @ : e.op_number \notin (m.op_number + 1)..last}]
    BY <1>4 DEF HandlePrePrepare
  <2>2. /\ last \in Nat /\ m.op_number = Len(log[i]) + 1
        /\ m.op_number <= last
        /\ Len(AcceptedLog(i, m, last)) = last
    BY <1>1, <1>4, <2>1, AcceptedLogExtends
  <2>3. /\ Len(log'[i]) = last
        /\ reorder'[i] = {e \in reorder[i] : e.op_number \notin (m.op_number + 1)..last}
    BY <1>2, <2>1, <2>2
  <2>4. m.op_number \in 1..last
    BY <2>2, <1>2
  <2>5. \A n \in 1..Len(log[i]) : n \in 1..last
    BY <1>2, <2>2
  <2>6. \A e \in reorder[i] : e.op_number \in 1..last \cup OpNumbers(reorder'[i])
    <3>1. \A e \in reorder[i] : e.op_number \in Nat
      BY <1>2 DEF PrePrepareMessage, OpNumber
    <3>2. \A n \in (m.op_number + 1)..last : n \in 1..last
      BY <1>2, <2>2
    <3> QED  BY <2>3, <3>1, <3>2 DEF OpNumbers
  <2>7. m.op_number \in Taken(i)' /\ Taken(i) \subseteq Taken(i)'
    BY <2>3, <2>4, <2>5, <2>6 DEF Taken, OpNumbers
  <2> QED  BY <1>1, <2>7 DEF Taken, OpNumbers
<1> QED  BY <1>3, <1>4

\* A step takes in what it handles, if nothing else leaves signing.
LEMMA HandledIsCounted ==
  ASSUME TypeOK, TypeOK', OwnCopies, OwnIsCounted, Grows,
         \A j \in Replica : Taken(j) \subseteq Taken(j)',
         NEW i \in Replica, NEW m, NEW out, Process(i, {m}, out),
         \A n \in out \ network : Sender(n) = i,
         IsCounted(i, m)'
  PROVE  OwnIsCounted'
<1> SUFFICES ASSUME NEW j \in Replica, NEW n \in network', Sender(n) = j, n \notin signing'[j]
             PROVE  IsCounted(j, n)'
  BY DEF OwnIsCounted, Sender
<1>1. /\ signing'[i] = (signing[i] \ {m}) \cup out
      /\ \A r \in Replica \ {i} : signing'[r] = signing[r]
      /\ network' = network \cup out
  BY DEF Process, TypeOK, ReplicaTypeOK
<1>2. n \in network
  BY <1>1
<1>3. CASE n = m /\ j = i
  BY <1>3
<1>4. CASE ~(n = m /\ j = i)
  <2>1. n \notin signing[j]
    BY <1>1, <1>4
  <2> QED  BY <1>2, <2>1, CountedStays DEF OwnIsCounted
<1> QED  BY <1>3, <1>4

\* What a handler adds to the quorums is what it handles.
LEMMA PrepareIsCounted ==
  ASSUME TypeOK, OwnCopies, NEW i \in Replica, NEW m, HandlePrepare(i, m)
  PROVE  IsCounted(i, m)'
<1> DEFINE ballot == <<m.op_number, m.request_digest, m.replica_id>>
<1>1. m.type = "Prepare" /\ UNCHANGED log
  BY DEF HandlePrepare, orderVars
<1>2. CASE /\ IsPrepared(log[i], prepare_quorums[i], m.op_number, m.request_digest)
           /\ UNCHANGED prepare_quorums
  BY <1>1, <1>2 DEF IsCounted
<1>3. CASE prepare_quorums' = [prepare_quorums EXCEPT ![i] = prepare_quorums[i] \cup {ballot}]
  <2>1. ballot \in prepare_quorums'[i]
    BY <1>3 DEF TypeOK, ReplicaTypeOK
  <2> QED  BY <1>1, <2>1 DEF IsCounted
<1> QED  BY <1>2, <1>3 DEF HandlePrepare

LEMMA CommitIsCounted ==
  ASSUME TypeOK, OwnCopies, NEW i \in Replica, NEW m, HandleCommit(i, m)
  PROVE  IsCounted(i, m)'
<1> DEFINE ballot == <<m.op_number, m.request_digest, m.replica_id>>
<1>1. m.type = "Commit" /\ UNCHANGED <<log, prepare_quorums>>
  BY DEF HandleCommit, orderVars
<1>2. CASE /\ IsCommitted(log[i], prepare_quorums[i], commit_quorums[i],
                          m.op_number, m.request_digest)
           /\ UNCHANGED commit_quorums
  BY <1>1, <1>2 DEF IsCounted
<1>3. CASE commit_quorums' = [commit_quorums EXCEPT ![i] = commit_quorums[i] \cup {ballot}]
  <2>1. ballot \in commit_quorums'[i]
    BY <1>3 DEF TypeOK, ReplicaTypeOK
  <2> QED  BY <1>1, <2>1 DEF IsCounted
<1> QED  BY <1>2, <1>3 DEF HandleCommit

\* Main loses no copy of its own that it has handled.
LEMMA OwnStaysCounted ==
  ASSUME TypeOK, TypeOK', AgreementInv, OwnIsCounted, [Next]_vars
  PROVE  OwnIsCounted'
<1> USE DEF AgreementInv
<1>1. Grows /\ OwnCopies'
  BY AgreementStep, AgreementKept
<1>2. ASSUME UNCHANGED orderVars  PROVE \A j \in Replica : Taken(j) \subseteq Taken(j)'
  BY <1>2 DEF orderVars, Taken, OpNumbers
<1>3. CASE UNCHANGED <<network, replicaVars>>
  BY <1>3 DEF OwnIsCounted, IsCounted, OpNumbers, replicaVars, orderVars
<1>4. ASSUME NEW m \in Request, HandleRequest(m)  PROVE OwnIsCounted'
  <2>1. UNCHANGED <<orderVars, prepare_quorums, commit_quorums>>
    BY <1>4 DEF HandleRequest
  <2>2. \/ UNCHANGED <<signing, network>>
        \/ \E new : Process(Primary, {}, {new})
    BY <1>4 DEF HandleRequest
  <2>3. \A j \in Replica : \A n \in network' :
          n \notin signing'[j] => (n \in network /\ n \notin signing[j]) \/ Sender(n) # j
    <3>1. CASE UNCHANGED <<signing, network>>
      BY <3>1
    <3>2. ASSUME NEW new, Process(Primary, {}, {new})
          PROVE  \A j \in Replica : \A n \in network' :
                   n \notin signing'[j] => (n \in network /\ n \notin signing[j]) \/ Sender(n) # j
      <4>1. new \in signing'[Primary] /\ network' = network \cup {new}
            /\ \A j \in Replica : signing[j] \subseteq signing'[j]
        BY <3>2, PbftAssumption DEF Process, TypeOK, ReplicaTypeOK
      <4>2. Sender(new) = Primary
        BY <1>1, <4>1, PbftAssumption DEF OwnCopies
      <4> QED  BY <4>1, <4>2
    <3> QED  BY <2>2, <3>1, <3>2
  <2>4. \A j \in Replica : \A n : IsCounted(j, n) => IsCounted(j, n)'
    BY <2>1 DEF IsCounted, OpNumbers, orderVars
  <2> QED  BY <2>3, <2>4 DEF OwnIsCounted, Sender
<1>5. ASSUME NEW i \in Replica, NEW m, IsCounted(i, m)', NEW out, Process(i, {m}, out),
             \A j \in Replica : Taken(j) \subseteq Taken(j)'
      PROVE  OwnIsCounted'
  <2>1. \A n \in out : Sender(n) = i
    BY <1>1, <1>5 DEF Process, OwnCopies, TypeOK, ReplicaTypeOK
  <2> QED  BY <1>1, <1>5, <2>1, HandledIsCounted
<1>6. ASSUME NEW i \in Replica, NEW m, HandlePrePrepare(i, m)  PROVE OwnIsCounted'
  <2>1. m.op_number \in Taken(i)' /\ \A j \in Replica : Taken(j) \subseteq Taken(j)'
    BY <1>6, PrePrepareTakes
  <2>2. IsCounted(i, m)'
    <3>1. m.type = "PrePrepare"
      BY <1>6 DEF HandlePrePrepare
    <3> QED  BY <2>1, <3>1 DEF IsCounted, Taken, OpNumbers
  <2>3. \E out : Process(i, {m}, out)
    BY <1>6 DEF HandlePrePrepare
  <2> QED  BY <1>5, <2>1, <2>2, <2>3
<1>7. ASSUME NEW i \in Replica, NEW m, HandlePrepare(i, m)  PROVE OwnIsCounted'
  <2>1. UNCHANGED orderVars /\ \E out : Process(i, {m}, out)
    BY <1>7 DEF HandlePrepare
  <2> QED  BY <1>2, <1>5, <1>7, <2>1, PrepareIsCounted
<1>8. ASSUME NEW i \in Replica, NEW m, HandleCommit(i, m)  PROVE OwnIsCounted'
  <2>1. UNCHANGED orderVars /\ \E out : Process(i, {m}, out)
    BY <1>8 DEF HandleCommit
  <2> QED  BY <1>2, <1>5, <1>8, <2>1, CommitIsCounted
<1>9. ASSUME NEW c \in Client, ClientNext(c)  PROVE OwnIsCounted'
  BY <1>3, <1>9, ClientSteps
<1>10. CASE UNCHANGED vars
  BY <1>3, <1>10 DEF vars, networkVars
<1> QED  BY <1>4, <1>6, <1>7, <1>8, <1>9, <1>10 DEF Next, ReplicaNext, MainPoll

-------------------------------------------------------------------------------
(* What is sent and kept. *)

\* An op number is used when its batch is sent.
LEMMA BatchesStaySent ==
  ASSUME TypeOK, BatchesAreSent, Sends
  PROVE  BatchesAreSent'
<1>1. op_number \in Nat
  BY DEF TypeOK, ReplicaTypeOK
<1>2. CASE op_number' = op_number
  <2>1. Batches \subseteq Batches'
    BY DEF Sends, Batches
  <2> QED  BY <1>2, <2>1 DEF BatchesAreSent
<1>3. ASSUME NEW batch \in Batch,
             op_number' = op_number + 1,
             network' = network \cup {PrePrepare(op_number + 1, batch)}
      PROVE  BatchesAreSent'
  <2> DEFINE new == PrePrepare(op_number + 1, batch)
  <2>1. new.op_number = op_number + 1 /\ new.type = "PrePrepare"
    BY DEF PrePrepare
  <2>2. Batches' = Batches \cup {new}
    <3> HIDE DEF new
    <3>1. network' = network \cup {new}
      BY <1>3 DEF new
    <3> QED  BY <2>1, <3>1 DEF Batches
  <2> HIDE DEF new
  <2>3. \A k \in 1..(op_number + 1) : k \in 1..op_number \/ k = op_number + 1
    BY <1>1
  <2> QED  BY <1>3, <2>1, <2>2, <2>3 DEF BatchesAreSent
<1> QED  BY <1>2, <1>3 DEF Sends

\* A backup votes for every entry that one drain adds.
LEMMA EntriesStayVoted ==
  ASSUME TypeOK, TypeOK', AgreementInv, EntriesAreVoted, [Next]_vars
  PROVE  EntriesAreVoted'
<1>1. Grows
  BY AgreementStep
<1>2. ASSUME UNCHANGED log  PROVE EntriesAreVoted'
  BY <1>1, <1>2 DEF EntriesAreVoted, Grows
<1>3. ASSUME NEW i \in Replica, NEW m, HandlePrePrepare(i, m), IsDue(i, m)
      PROVE  EntriesAreVoted'
  <2>1. PICK last \in m.op_number..(m.op_number + Cardinality(reorder[i])) :
          /\ IsLastDue(i, m, last)
          /\ log' = [log EXCEPT ![i] = AcceptedLog(i, m, last)]
          /\ Process(i, {m},
               IF i = Primary THEN {}
               ELSE {Vote("Prepare", k, AcceptedLog(i, m, last)[k].request_digest, i) :
                       k \in m.op_number..last})
    BY <1>3 DEF HandlePrePrepare
  <2>2. m \in PrePrepareMessage /\ Len(log[i]) \in Nat
    BY <1>3, PrePrepareSteps, LogType DEF AgreementInv
  <2>3. /\ last \in Nat /\ m.op_number = Len(log[i]) + 1
        /\ Len(AcceptedLog(i, m, last)) = last
    BY <1>3, <2>1, <2>2, AcceptedLogExtends
  <2>4. /\ log'[i] = AcceptedLog(i, m, last)
        /\ \A j \in Replica \ {i} : log'[j] = log[j]
    BY <2>1 DEF TypeOK, ReplicaTypeOK
  <2>5. i # Primary =>
          \A k \in m.op_number..last :
            Vote("Prepare", k, log'[i][k].request_digest, i) \in network'
    BY <2>1, <2>4 DEF Process
  <2>6. \A k \in 1..Len(log'[i]) : k \in 1..Len(log[i]) \/ k \in m.op_number..last
    BY <2>2, <2>3, <2>4
  <2> QED  BY <1>1, <2>4, <2>5, <2>6 DEF EntriesAreVoted, Grows
<1>4. ASSUME NEW i \in Replica, NEW m, HandlePrePrepare(i, m)  PROVE EntriesAreVoted'
  BY <1>2, <1>3, <1>4 DEF HandlePrePrepare
<1>5. ASSUME NEW i \in Replica, NEW m, HandlePrepare(i, m) \/ HandleCommit(i, m)
      PROVE  UNCHANGED log
  BY <1>5 DEF HandlePrepare, HandleCommit, orderVars
<1>6. ASSUME NEW m \in Request, HandleRequest(m)  PROVE UNCHANGED log
  BY <1>6 DEF HandleRequest, orderVars
<1>7. ASSUME NEW c \in Client, ClientNext(c)  PROVE UNCHANGED log
  BY <1>7 DEF ClientNext, replicaVars, orderVars
<1>8. CASE UNCHANGED vars
  BY <1>2, <1>8 DEF vars, replicaVars, orderVars
<1> QED  BY <1>2, <1>4, <1>5, <1>6, <1>7, <1>8 DEF Next, ReplicaNext, MainPoll

\* A request that is appended to a queue is in it, and so is what was before.
LEMMA AppendedIsThere ==
  ASSUME NEW queue \in Seq(Request), NEW m \in Request
  PROVE  Elements(queue) \cup {m} \subseteq Elements(Append(queue, m))
<1>1. /\ Len(queue) \in Nat
      /\ Len(Append(queue, m)) = Len(queue) + 1
      /\ \A p \in 1..Len(queue) : Append(queue, m)[p] = queue[p]
      /\ Append(queue, m)[Len(queue) + 1] = m
  BY AppendProperties, LenProperties
<1>2. \A p \in 1..Len(queue) : p \in 1..(Len(queue) + 1)
  BY <1>1
<1>3. Len(queue) + 1 \in 1..(Len(queue) + 1)
  BY <1>1
<1> QED  BY <1>1, <1>2, <1>3 DEF Elements

\* The batch that a queue becomes holds what the queue held.
LEMMA QueueIsKept ==
  ASSUME NEW i, NEW done, NEW queue, NEW r \in Elements(queue),
         \/ requests' = queue
         \/ Process(i, done, {PrePrepare(op_number + 1, queue)})
  PROVE  IsKept(r)'
<1>1. CASE requests' = queue
  BY <1>1 DEF IsKept
<1>2. CASE Process(i, done, {PrePrepare(op_number + 1, queue)})
  <2> DEFINE new == PrePrepare(op_number + 1, queue)
  <2>1. new.type = "PrePrepare" /\ new.requests = queue
    BY DEF PrePrepare
  <2>2. new \in network'
    BY <1>2 DEF Process
  <2> QED  BY <2>1, <2>2 DEF IsKept, Batches
<1> QED  BY <1>1, <1>2

\* What the table of the primary has is in a batch.
LEMMA TableIsBatched ==
  ASSUME TypeOK, AgreementInv, ExecutionInv, SequenceInv, NEW i \in Replica,
         NEW c \in Client, request_number[c] > 0,
         client_table[i][c] >= request_number[c]
  PROVE  /\ HasExecuted(i, LastRequest(c))
         /\ \E b \in Batches : LastRequest(c) \in Elements(b.requests)
<1> DEFINE n == client_table[i][c]
           r == [client |-> c, request_number |-> n]
<1>1. n \in Nat /\ request_number[c] \in Nat
  BY PbftAssumption DEF TypeOK, ReplicaTypeOK, ClientTypeOK
<1>2. PICK x \in app[i] : x.request = r
  BY <1>1 DEF ExecutionInv, TableIsNewest, HasExecuted
<1>3. x \in ExecutedSlots(i)
  BY DEF ExecutionInv, AppIsFiltered, Fresh
<1>4. PICK b \in Batches : r \in Elements(b.requests)
  BY <1>2, <1>3, ExecutedIsBatched
<1>5. n <= request_number[c]
  BY <1>4 DEF SequenceInv, RequestsAreIssued
<1>6. n = request_number[c]
  BY <1>1, <1>5
<1> QED  BY <1>2, <1>4, <1>6 DEF HasExecuted, LastRequest

\* A replica keeps every request that it does not know to be executed.
LEMMA ReplicaKeeps ==
  ASSUME TypeOK, NEW i \in Replica, MainPoll(i), NEW r \in Request, IsKept(r),
         client_table[Primary][r.client] >= r.request_number =>
           \E b \in Batches : r \in Elements(b.requests)
  PROVE  IsKept(r)'
<1>1. Batches \subseteq Batches'
  BY ReplicaForwards DEF Forwards
<1>2. ASSUME UNCHANGED <<in_flight, requests>>  PROVE IsKept(r)'
  BY <1>1, <1>2 DEF IsKept
<1>3. ASSUME NEW m, HandlePrePrepare(i, m) \/ HandlePrepare(i, m)  PROVE IsKept(r)'
  BY <1>2, <1>3 DEF HandlePrePrepare, HandlePrepare, batchVars
<1>4. ASSUME NEW m, HandleCommit(i, m)  PROVE IsKept(r)'
  <2>1. in_flight' = in_flight
    BY <1>4 DEF HandleCommit
  <2>2. CASE r \in Elements(requests)
    <3>1. \/ requests' = requests
          \/ Process(i, {m}, {PrePrepare(op_number + 1, requests)})
      BY <1>4 DEF HandleCommit, batchVars
    <3> QED  BY <2>2, <3>1, QueueIsKept
  <2>3. CASE r \notin Elements(requests)
    BY <1>1, <2>1, <2>3 DEF IsKept
  <2> QED  BY <2>2, <2>3
<1>5. ASSUME NEW m \in Request, HandleRequest(m)  PROVE IsKept(r)'
  <2> DEFINE queue == Append(requests, m)
  <2>1. \A s \in Request \ {m} : in_flight'[s] = in_flight[s]
    BY <1>5 DEF HandleRequest, TypeOK, NetworkTypeOK
  <2>2. \/ /\ client_table[Primary][m.client] >= m.request_number
           /\ requests' = requests
        \/ requests' = queue
        \/ Process(Primary, {}, {PrePrepare(op_number + 1, queue)})
    <3>1. client_table[Primary][m.client] \in Nat /\ m.request_number \in Nat
      BY PbftAssumption DEF TypeOK, ReplicaTypeOK, Request
    <3> QED  BY <1>5, <3>1 DEF HandleRequest, batchVars
  <2>3. Elements(requests) \cup {m} \subseteq Elements(queue)
    BY AppendedIsThere DEF TypeOK, ReplicaTypeOK, Batch
  <2> HIDE DEF queue
  <2>4. CASE \E b \in Batches : r \in Elements(b.requests)
    BY <1>1, <2>4 DEF IsKept
  <2>5. CASE r \in Elements(requests)
    BY <2>2, <2>3, <2>5, QueueIsKept
  <2>6. CASE in_flight[r] > 0 /\ r # m
    BY <2>1, <2>6 DEF IsKept
  <2>7. CASE r = m
    BY <2>2, <2>3, <2>4, <2>7, QueueIsKept
  <2> QED  BY <2>4, <2>5, <2>6, <2>7 DEF IsKept
<1> QED  BY <1>3, <1>4, <1>5 DEF MainPoll

\* Clients send, and so lose nothing.
LEMMA SentIsKept ==
  ASSUME TypeOK, UNCHANGED <<requests, network>>,
         NEW c \in Client, in_flight' = in_flight \/ DoSend(c, request_number'[c])
  PROVE  \A r \in Request : IsKept(r) => IsKept(r)'
<1> DEFINE sent == [client |-> c, request_number |-> request_number'[c]]
<1>1. \A r \in Request : in_flight[r] > 0 => in_flight'[r] > 0
  <2>1. CASE in_flight' = [in_flight EXCEPT ![sent] = @ + 1]
    <3> HIDE DEF sent
    <3> QED  BY <2>1 DEF TypeOK, NetworkTypeOK
  <2> QED  BY <2>1 DEF DoSend
<1>2. Batches' = Batches
  BY DEF Batches
<1> QED  BY <1>1, <1>2 DEF IsKept

LEMMA ClientKeeps ==
  ASSUME TypeOK, TypeOK', RequestsAreKept, NEW c \in Client, ClientNext(c),
         \A d \in Client : pending[d] => LastRequest(d) \in Request
  PROVE  RequestsAreKept'
<1>1. UNCHANGED <<requests, network>>
  BY ClientSteps DEF replicaVars, batchVars
<1>2. CASE Invoke(c)
  <2>1. /\ request_number'[c] = request_number[c] + 1
        /\ request_number[c] \in Nat
        /\ \A d \in Client \ {c} : /\ request_number'[d] = request_number[d]
                                   /\ pending'[d] = pending[d]
        /\ DoSend(c, request_number'[c])
    BY <1>2, PbftAssumption DEF Invoke, TypeOK, ClientTypeOK
  <2>2. \A r \in Request : IsKept(r) => IsKept(r)'
    BY <1>1, <2>1, SentIsKept
  <2>3. LastRequest(c)' \in Request
    <3>1. request_number'[c] \in 1..MaxRequest
      BY <2>1, PbftAssumption DEF TypeOK, ClientTypeOK
    <3> QED  BY <3>1 DEF Request, LastRequest
  <2>4. IsKept(LastRequest(c))'
    <3>1. in_flight' = [in_flight EXCEPT ![LastRequest(c)'] = @ + 1]
      BY <2>1 DEF DoSend, LastRequest
    <3>2. in_flight'[LastRequest(c)'] > 0
      BY <2>3, <3>1 DEF TypeOK, NetworkTypeOK
    <3> QED  BY <3>2 DEF IsKept
  <2>5. ASSUME NEW d \in Client, pending'[d]
        PROVE  request_number'[d] > 0 /\ IsKept(LastRequest(d))'
    <3>1. CASE d = c
      BY <2>1, <2>4, <3>1 DEF IsKept
    <3>2. CASE d # c
      <4>1. pending[d] /\ LastRequest(d)' = LastRequest(d) /\ request_number'[d] = request_number[d]
        BY <2>1, <2>5, <3>2 DEF LastRequest
      <4>2. IsKept(LastRequest(d)) /\ request_number[d] > 0
        BY <4>1 DEF RequestsAreKept
      <4> QED  BY <2>2, <4>1, <4>2 DEF IsKept
    <3> QED  BY <3>1, <3>2
  <2> QED  BY <2>5 DEF RequestsAreKept
<1>3. CASE ClientPoll(c)
  <2>1. /\ request_number' = request_number
        /\ in_flight' = in_flight \/ DoSend(c, request_number'[c])
        /\ \A d \in Client : pending'[d] => pending[d]
    <3>1. UNCHANGED pending \/ (pending[c] /\ \E b : pending' = [pending EXCEPT ![c] = b])
      BY <1>3 DEF ClientPoll, ReceiveReply, IsAwaited
    <3> QED  BY <1>3, <3>1 DEF ClientPoll, TypeOK, ClientTypeOK
  <2>2. \A r \in Request : IsKept(r) => IsKept(r)'
    BY <1>1, <2>1, SentIsKept
  <2>3. ASSUME NEW d \in Client, pending'[d]
        PROVE  request_number'[d] > 0 /\ IsKept(LastRequest(d))'
    <3>1. LastRequest(d)' = LastRequest(d) /\ IsKept(LastRequest(d)) /\ request_number[d] > 0
      BY <2>1, <2>3 DEF RequestsAreKept, LastRequest
    <3> QED  BY <2>1, <2>2, <2>3, <3>1 DEF IsKept
  <2> QED  BY <2>3 DEF RequestsAreKept
<1> QED  BY <1>2, <1>3 DEF ClientNext

\* No request that a client waits for is lost, not even one that handle_request
\* drops: it drops what is in a batch.
LEMMA RequestsStayKept ==
  ASSUME TypeOK, TypeOK', AgreementInv, ExecutionInv, SequenceInv, RequestsAreKept, [Next]_vars
  PROVE  RequestsAreKept'
<1>1. ASSUME NEW c \in Client, pending[c]  PROVE LastRequest(c) \in Request /\ request_number[c] > 0
  <2>1. request_number[c] \in 1..MaxRequest
    BY <1>1, PbftAssumption DEF RequestsAreKept, TypeOK, ClientTypeOK
  <2> QED  BY <1>1, <2>1 DEF Request, RequestsAreKept, LastRequest
<1>2. ASSUME NEW i \in Replica, ReplicaNext(i)  PROVE RequestsAreKept'
  <2>1. MainPoll(i) /\ UNCHANGED <<pending, request_number>>
    BY <1>2 DEF ReplicaNext, clientVars
  <2>2. ASSUME NEW c \in Client, pending[c]  PROVE IsKept(LastRequest(c))'
    <3>1. IsKept(LastRequest(c))
      BY <2>2 DEF RequestsAreKept
    <3>2. ASSUME client_table[Primary][c] >= request_number[c]
          PROVE  \E b \in Batches : LastRequest(c) \in Elements(b.requests)
      BY <1>1, <2>2, <3>2, TableIsBatched, PbftAssumption
    <3>3. /\ LastRequest(c)' = LastRequest(c)
          /\ LastRequest(c).client = c /\ LastRequest(c).request_number = request_number[c]
      BY <2>1 DEF LastRequest
    <3> QED  BY <1>1, <2>1, <2>2, <3>1, <3>2, <3>3, ReplicaKeeps DEF IsKept
  <2> QED  BY <1>1, <2>1, <2>2 DEF RequestsAreKept
<1>3. ASSUME NEW c \in Client, ClientNext(c)  PROVE RequestsAreKept'
  BY <1>1, <1>3, ClientKeeps
<1>4. CASE UNCHANGED vars
  <2>1. UNCHANGED <<in_flight, network, pending, request_number, requests>>
    BY <1>4 DEF vars, networkVars, clientVars, replicaVars, batchVars
  <2> QED  BY <2>1 DEF RequestsAreKept, LastRequest, IsKept, Batches
<1> QED  BY <1>2, <1>3, <1>4 DEF Next

-------------------------------------------------------------------------------
(* Replies and results. *)

\* What a sweep adds to the calls it answers, in the same step.
LEMMA CallsStayAnswered ==
  ASSUME TypeOK, AgreementInv, CallsAreAnswered, [Next]_vars
  PROVE  CallsAreAnswered'
<1>1. ASSUME UNCHANGED app, replies \subseteq replies'  PROVE CallsAreAnswered'
  BY <1>1 DEF CallsAreAnswered
<1>2. ASSUME NEW i \in Replica, NEW m, HandleCommit(i, m)  PROVE CallsAreAnswered'
  <2>1. CASE UNCHANGED <<executeVars, replies>>
    BY <1>1, <2>1 DEF executeVars
  <2>2. ASSUME NEW commits, Execute(i, commits)  PROVE CallsAreAnswered'
    <3>1. UNCHANGED log
      BY <1>2 DEF HandleCommit, orderVars
    <3>2. PICK slots \in SUBSET Call :
            LET fresh == Fresh(client_table[i], slots)
            IN  /\ app' = [app EXCEPT ![i] = @ \cup fresh]
                /\ replies' = replies \cup {Reply(x.request, i) : x \in fresh}
      BY <2>2, <3>1, ExecuteSweep DEF AgreementInv
    <3> DEFINE fresh == Fresh(client_table[i], slots)
    <3>3. /\ app'[i] = app[i] \cup fresh
          /\ \A j \in Replica \ {i} : app'[j] = app[j]
          /\ replies' = replies \cup {Reply(x.request, i) : x \in fresh}
      BY <3>2 DEF TypeOK, ReplicaTypeOK
    <3> HIDE DEF fresh
    <3> QED  BY <3>3 DEF CallsAreAnswered
  <2> QED  BY <1>2, <2>1, <2>2 DEF HandleCommit
<1>3. ASSUME NEW i \in Replica, NEW m, HandlePrePrepare(i, m) \/ HandlePrepare(i, m)
      PROVE  CallsAreAnswered'
  BY <1>1, <1>3 DEF HandlePrePrepare, HandlePrepare, executeVars
<1>4. ASSUME NEW m \in Request, HandleRequest(m)  PROVE CallsAreAnswered'
  BY <1>1, <1>4 DEF HandleRequest, executeVars
<1>5. ASSUME NEW c \in Client, ClientNext(c)  PROVE CallsAreAnswered'
  BY <1>1, <1>5 DEF ClientNext, Invoke, ClientPoll, replicaVars, executeVars
<1>6. CASE UNCHANGED vars
  BY <1>1, <1>6 DEF vars, networkVars, replicaVars, executeVars
<1> QED  BY <1>2, <1>3, <1>4, <1>5, <1>6 DEF Next, ReplicaNext, MainPoll

\* No client goes on waiting with enough results.
LEMMA ResultsStayTaken ==
  ASSUME TypeOK, ResultsAreTaken, [Next]_vars
  PROVE  ResultsAreTaken'
<1>1. ~EnoughResults({})
  BY FS_EmptySet, PbftAssumption DEF EnoughResults
<1>2. CASE UNCHANGED results
  BY <1>2 DEF ResultsAreTaken
<1>3. ASSUME NEW c \in Client, ReceiveReply(c)  PROVE ResultsAreTaken'
  <2>1. PICK heard : results' = [results EXCEPT ![c] =
                       IF EnoughResults(heard) THEN {} ELSE heard]
    BY <1>3 DEF ReceiveReply
  <2>2. /\ ~EnoughResults(results'[c])
        /\ \A d \in Client \ {c} : results'[d] = results[d]
    BY <1>1, <2>1 DEF TypeOK, ClientTypeOK
  <2> QED  BY <2>2 DEF ResultsAreTaken
<1>4. ASSUME NEW c \in Client, ClientNext(c)  PROVE ResultsAreTaken'
  BY <1>2, <1>3, <1>4 DEF ClientNext, Invoke, ClientPoll
<1>5. ASSUME NEW i \in Replica, ReplicaNext(i)  PROVE UNCHANGED results
  BY <1>5 DEF ReplicaNext, clientVars
<1>6. CASE UNCHANGED vars
  BY <1>2, <1>6 DEF vars, clientVars
<1> QED  BY <1>2, <1>4, <1>5, <1>6 DEF Next

\* What a replica, a client or a handler waits for is in its channel, in its
\* table or in its quorums.
THEOREM ProgressInvariant == Spec => []ProgressInv
<1>1. Init => ProgressInv
  <2> SUFFICES ASSUME Init  PROVE ProgressInv
    OBVIOUS
  <2>1. OwnIsCounted /\ EntriesAreVoted /\ CallsAreAnswered
    BY DEF Init, NetworkInit, ReplicaInit, OwnIsCounted, EntriesAreVoted, CallsAreAnswered
  <2>2. BatchesAreSent
    BY DEF Init, ReplicaInit, BatchesAreSent
  <2>3. RequestsAreKept
    BY DEF Init, ClientInit, RequestsAreKept
  <2>4. ResultsAreTaken
    BY FS_EmptySet, PbftAssumption DEF Init, ClientInit, ResultsAreTaken, EnoughResults
  <2> QED  BY <2>1, <2>2, <2>3, <2>4 DEF ProgressInv
<1>2. TypeOK /\ TypeOK' /\ AgreementInv /\ ExecutionInv /\ SequenceInv /\ ProgressInv
        /\ [Next]_vars => ProgressInv'
  <2> SUFFICES ASSUME TypeOK, TypeOK', AgreementInv, ExecutionInv, SequenceInv,
                      ProgressInv, [Next]_vars
               PROVE  ProgressInv'
    OBVIOUS
  <2>1. BatchesAreSent'
    BY AgreementStep, BatchesStaySent DEF ProgressInv
  <2> QED  BY <2>1, OwnStaysCounted, EntriesStayVoted, RequestsStayKept,
           CallsStayAnswered, ResultsStayTaken DEF ProgressInv
<1> QED  BY <1>1, <1>2, TypeCorrect, AgreementInvariant, ExecutionInvariant,
            SequenceInvariant, PTL DEF Spec

-------------------------------------------------------------------------------
(* Rest. *)

\* At rest a replica has counted whatever it may handle, its own and others'.
LEMMA RestIsCounted ==
  ASSUME TypeOK, OwnIsCounted, Late = {}, Settled,
         NEW i \in Replica, NEW m \in network, ~Overtakes(i, m)
  PROVE  IsCounted(i, m)
<1>1. \A n \in Inbox(i) : n \notin signing[i] /\ IsCounted(i, n)
  BY DEF Settled
<1>2. signing[i] = {}
  BY <1>1 DEF Inbox
<1>3. CASE Sender(m) = i
  BY <1>2, <1>3 DEF OwnIsCounted
<1>4. CASE Sender(m) # i
  <2>1. m \in Inbox(i)
    BY <1>2, <1>4 DEF Inbox, Received
  <2> QED  BY <1>1, <2>1
<1> QED  BY <1>3, <1>4

\* Then every replica has every batch in its log.
LEMMA RestIsLogged ==
  ASSUME TypeOK, AgreementInv, OwnIsCounted, BatchesAreSent, NothingDueIsBuffered,
         Late = {}, Settled, NEW i \in Replica
  PROVE  Len(log[i]) = op_number
<1>1. Len(log[i]) \in Nat /\ op_number \in Nat
  BY LogType DEF TypeOK, ReplicaTypeOK
<1>2. Len(log[i]) <= op_number
  BY <1>1, EntryIsClosed
<1>3. ASSUME Len(log[i]) + 1 <= op_number  PROVE FALSE
  <2>1. PICK b \in Batches : b.op_number = Len(log[i]) + 1
    BY <1>1, <1>3 DEF BatchesAreSent
  <2>2. b \in network /\ b.type = "PrePrepare"
    BY DEF Batches
  <2>3. IsCounted(i, b)
    BY <2>2, RestIsCounted DEF Overtakes
  <2>4. b.op_number \in 1..Len(log[i]) \cup OpNumbers(reorder[i])
    BY <2>2, <2>3 DEF IsCounted
  <2>5. Len(log[i]) + 1 \in OpNumbers(reorder[i])
    BY <1>1, <2>1, <2>4
  <2> QED  BY <2>5 DEF NothingDueIsBuffered, NextEntry
<1> QED  BY <1>1, <1>2, <1>3

\* Then every batch is prepared everywhere, as all backups voted for it.
LEMMA RestIsPrepared ==
  ASSUME TypeOK, AgreementInv, OwnIsCounted, BatchesAreSent, EntriesAreVoted,
         NothingDueIsBuffered, Late = {}, Cardinality(Replica) > 2 * F, Settled,
         NEW i \in Replica, NEW k \in 1..op_number
  PROVE  IsPrepared(log[i], prepare_quorums[i], k, log[i][k].request_digest)
<1> DEFINE digest == log[i][k].request_digest
           backups == Replica \ {Primary}
           voters == Voters(prepare_quorums[i], k, digest)
<1>1. \A j \in Replica : k \in 1..Len(log[j]) /\ log[j][k] = log[i][k]
  <2>1. \A j \in Replica : Len(log[j]) = op_number
    BY RestIsLogged
  <2>2. LogAgreement
    BY SentEntriesAgree DEF AgreementInv
  <2>3. \A j \in Replica : k \in 1..Len(log[j]) /\ k <= Len(log[j])
    BY <2>1, RequestsType
  <2> QED  BY <2>2, <2>3 DEF LogAgreement
<1> SUFFICES ASSUME ~IsPrepared(log[i], prepare_quorums[i], k, digest)
             PROVE  FALSE
  OBVIOUS
<1>2. ASSUME NEW j \in backups  PROVE j \in voters
  <2> DEFINE m == Vote("Prepare", k, digest, j)
  <2>1. m \in network
    BY <1>1 DEF EntriesAreVoted
  <2>2. /\ m.type = "Prepare" /\ m.op_number = k
        /\ m.request_digest = digest /\ m.replica_id = j
    BY DEF Vote
  <2> HIDE DEF m
  <2>3. IsCounted(i, m)
    BY <1>1, <2>1, <2>2, RestIsCounted DEF Overtakes
  <2> HIDE DEF digest
  <2>4. <<k, digest, j>> \in prepare_quorums[i]
    BY <2>2, <2>3 DEF IsCounted
  <2> QED  BY <2>4 DEF Voters
<1>3. Cardinality(voters) >= 2 * F
  <2>1. backups \in SUBSET Replica /\ voters \in SUBSET Replica /\ backups \subseteq voters
    BY <1>2 DEF Voters
  <2>2. Cardinality(backups) = Cardinality(Replica) - 1
    BY PbftAssumption, FS_RemoveElement
  <2> HIDE DEF backups, voters
  <2>3. /\ Cardinality(backups) \in Nat /\ Cardinality(voters) \in Nat
        /\ Cardinality(backups) <= Cardinality(voters)
    BY <2>1, LargerQuorum
  <2>4. Cardinality(Replica) \in Nat
    BY PbftAssumption, FS_CardinalityType
  <2> QED  BY <2>2, <2>3, <2>4, PbftAssumption
<1> QED  BY <1>1, <1>3 DEF IsPrepared

\* Then every batch is committed everywhere, as every replica announced it.
LEMMA RestIsCommitted ==
  ASSUME TypeOK, AgreementInv, OwnIsCounted, BatchesAreSent, EntriesAreVoted,
         NothingDueIsBuffered, NothingIsHeldBack, Late = {}, F > 0,
         Cardinality(Replica) > 2 * F, Settled,
         NEW i \in Replica, NEW k \in 1..op_number
  PROVE  CommittedAt(i, k)
<1> DEFINE digest == log[i][k].request_digest
           voters == Voters(commit_quorums[i], k, digest)
<1>1. \A j \in Replica : k \in 1..Len(log[j]) /\ log[j][k].request_digest = digest
  <2>1. \A j \in Replica : Len(log[j]) = op_number
    BY RestIsLogged
  <2>2. LogAgreement
    BY SentEntriesAgree DEF AgreementInv
  <2>3. \A j \in Replica : k \in 1..Len(log[j]) /\ k <= Len(log[j])
    BY <2>1, RequestsType
  <2> QED  BY <2>2, <2>3 DEF LogAgreement
<1>2. \A j \in Replica : IsPrepared(log[j], prepare_quorums[j], k, digest)
  BY <1>1, RestIsPrepared
<1> SUFFICES ASSUME ~IsCommitted(log[i], prepare_quorums[i], commit_quorums[i], k, digest)
             PROVE  FALSE
  BY <1>1 DEF CommittedAt, IsReady
<1>3. ASSUME NEW j \in Replica  PROVE j \in voters
  <2> DEFINE m == Vote("Commit", k, digest, j)
  <2>1. m \in network
    BY <1>1, <1>2 DEF NothingIsHeldBack
  <2>2. /\ m.type = "Commit" /\ m.op_number = k
        /\ m.request_digest = digest /\ m.replica_id = j
    BY DEF Vote
  <2> HIDE DEF m, digest
  <2>3. IsCounted(i, m)
    BY <1>2, <2>1, <2>2, RestIsCounted DEF Overtakes
  <2>4. <<k, digest, j>> \in commit_quorums[i]
    BY <2>2, <2>3 DEF IsCounted
  <2> QED  BY <2>4 DEF Voters
<1>4. voters = Replica
  BY <1>3 DEF Voters
<1> HIDE DEF digest
<1> QED  BY <1>2, <1>4 DEF IsCommitted

\* Then every replica has executed every batch, and no request waits.
LEMMA RestIsExecuted ==
  ASSUME TypeOK, AgreementInv, OwnIsCounted, BatchesAreSent, EntriesAreVoted,
         NothingDueIsBuffered, NothingIsHeldBack, Late = {}, F > 0,
         Cardinality(Replica) > 2 * F, Settled, NEW i \in Replica
  PROVE  execute_number[i] = op_number
<1>1. /\ execute_number[i] \in Nat /\ op_number \in Nat
      /\ execute_number[i] <= Len(log[i])
  BY DEF TypeOK, ReplicaTypeOK, AgreementInv, ExecutedIsCommitted
<1>2. Len(log[i]) = op_number
  BY RestIsLogged
<1>3. ~CommittedAt(i, execute_number[i] + 1)
  BY DEF NothingIsHeldBack
<1>4. execute_number[i] + 1 \notin 1..op_number
  BY <1>3, RestIsCommitted
<1> QED  BY <1>1, <1>2, <1>4

\* A request in an executed batch was answered if it is its client's last one.
LEMMA LastIsAnswered ==
  ASSUME TypeOK, AgreementInv, ExecutionInv, SequenceInv, CallsAreAnswered,
         NEW i \in Replica, NEW c \in Client, request_number[c] > 0,
         NEW b \in Batches, LastRequest(c) \in Elements(b.requests),
         b.op_number <= execute_number[i]
  PROVE  Reply(LastRequest(c), i) \in replies
<1>1. PICK x \in ExecutedSlots(i) : x.request = LastRequest(c)
  BY SlotOfBatch
<1>2. x.request.client = c /\ x.request.request_number = request_number[c]
  BY <1>1 DEF LastRequest
<1>3. request_number[c] <= client_table[i][c]
  BY <1>2 DEF ExecutionInv, TableIsNewest
<1>4. request_number[c] \in Nat /\ client_table[i][c] \in Nat
  BY PbftAssumption DEF TypeOK, ClientTypeOK, ReplicaTypeOK
<1>5. HasExecuted(i, LastRequest(c))
  BY <1>3, <1>4, TableIsBatched
<1> QED  BY <1>5 DEF HasExecuted, CallsAreAnswered

\* Where no vote overtakes and more than 2F replicas run, the service does not come
\* to rest while a client waits: whatever the order, the window and the batching,
\* what was issued has been batched, logged, prepared, committed, executed and
\* answered when nobody has anything left to handle.
THEOREM NothingStuck == Spec => []NothingIsStuck
<1>1. TypeOK /\ AgreementInv /\ ExecutionInv /\ SequenceInv /\ ProgressInv
        /\ NothingDueIsBuffered /\ NothingIsHeldBack /\ RequestsWaitForWindow
        => NothingIsStuck
  <2> SUFFICES ASSUME TypeOK, AgreementInv, ExecutionInv, SequenceInv, ProgressInv,
                      NothingDueIsBuffered, NothingIsHeldBack, RequestsWaitForWindow,
                      Late = {}, F > 0, Window > 0, Cardinality(Replica) > 2 * F,
                      Settled, NEW c \in Client, pending[c]
               PROVE  FALSE
    BY DEF NothingIsStuck
  <2> USE DEF ProgressInv
  <2>1. \A i \in Replica : execute_number[i] = op_number
    BY RestIsExecuted
  <2>2. requests = <<>>
    <3>1. op_number < execute_number[Primary] + Window
      BY <2>1, PbftAssumption, ReplicaAssumption DEF TypeOK, ReplicaTypeOK
    <3> QED  BY <3>1 DEF RequestsWaitForWindow, WindowOpen
  <2>3. request_number[c] > 0 /\ IsKept(LastRequest(c))
    BY DEF RequestsAreKept
  <2>4. LastRequest(c) \in Request
    <3>1. request_number[c] \in 1..MaxRequest
      BY <2>3, PbftAssumption DEF TypeOK, ClientTypeOK
    <3> QED  BY <3>1 DEF LastRequest, Request
  <2>5. PICK b \in Batches : LastRequest(c) \in Elements(b.requests)
    <3>1. in_flight[LastRequest(c)] = 0 /\ Elements(requests) = {}
      BY <2>2, <2>4 DEF Settled, Elements
    <3> QED  BY <2>3, <3>1 DEF IsKept
  <2>6. ASSUME NEW i \in Replica  PROVE i \in results[c]
    <3>1. b.op_number <= execute_number[i]
      BY <2>1 DEF Batches, AgreementInv, BatchesAreUnique
    <3>2. Reply(LastRequest(c), i) \in replies
      BY <2>3, <2>5, <3>1, LastIsAnswered
    <3>3. /\ Reply(LastRequest(c), i).client = c
          /\ Reply(LastRequest(c), i).request_number = request_number[c]
          /\ Reply(LastRequest(c), i).replica_id = i
      BY DEF Reply, LastRequest
    <3> QED  BY <3>2, <3>3 DEF Settled, IsAwaited
  <2>7. results[c] = Replica
    BY <2>6 DEF TypeOK, ClientTypeOK
  <2>8. Cardinality(Replica) > F
    BY PbftAssumption, FS_CardinalityType
  <2> QED  BY <2>7, <2>8 DEF ResultsAreTaken, EnoughResults
<1> QED  BY <1>1, TypeCorrect, AgreementInvariant, ExecutionInvariant, SequenceInvariant,
            ProgressInvariant, NothingDueBuffered, NothingHeldBack, WaitingMeansFull, PTL

===============================================================================
