---------------------------- MODULE PbftQueueProofs ---------------------------
(***************************************************************************)
(* What waits in the protocol, and for how long: the reorder buffer hands  *)
(* everything over that is due, the window bounds the batches in progress, *)
(* and the channels between the threads of a replica bring every message   *)
(* of it back to its main thread once.                                     *)
(***************************************************************************)
EXTENDS PbftProofs, PbftPipeline

-------------------------------------------------------------------------------
(* The reorder buffer. *)

LEMMA DrainedBuffer ==
  ASSUME TypeOK, NothingDueIsBuffered, NEW i \in Replica, NEW m, HandlePrePrepare(i, m)
  PROVE  NothingDueIsBuffered'
<1>1. m \in PrePrepareMessage
  BY InboxMessage DEF HandlePrePrepare, Message, VoteMessage
<1>2. /\ log \in [Replica -> Seq(PrePrepareMessage)]
      /\ reorder \in [Replica -> SUBSET PrePrepareMessage]
  BY DEF TypeOK, ReplicaTypeOK
<1>3. CASE ~IsDue(i, m)
  <2>1. log' = log /\ reorder' = [reorder EXCEPT ![i] = InsertReordered(i, m)]
    BY <1>3 DEF HandlePrePrepare
  <2>2. NextEntry(i) \notin OpNumbers(InsertReordered(i, m))
    BY <1>3 DEF NothingDueIsBuffered, OpNumbers, InsertReordered, IsDue
  <2> QED  BY <1>2, <2>1, <2>2 DEF NothingDueIsBuffered, NextEntry
<1>4. CASE IsDue(i, m)
  <2>1. PICK last \in m.op_number..(m.op_number + Cardinality(reorder[i])) :
          /\ IsLastDue(i, m, last)
          /\ log' = [log EXCEPT ![i] = AcceptedLog(i, m, last)]
          /\ reorder' = [reorder EXCEPT ![i] =
               {e \in @ : e.op_number \notin (m.op_number + 1)..last}]
    BY <1>4 DEF HandlePrePrepare
  <2>2. Len(AcceptedLog(i, m, last)) = last
    BY <1>1, <1>4, <2>1, AcceptedLogExtends
  <2>3. /\ Len(log'[i]) = last
        /\ reorder'[i] \subseteq reorder[i]
        /\ \A j \in Replica \ {i} : log'[j] = log[j] /\ reorder'[j] = reorder[j]
    BY <1>2, <2>1, <2>2
  <2>4. last + 1 \notin OpNumbers(reorder'[i])
    BY <2>1, <2>3 DEF IsLastDue, OpNumbers
  <2> QED  BY <2>3, <2>4 DEF NothingDueIsBuffered, NextEntry
<1> QED  BY <1>3, <1>4

\* The reorder buffer never holds the PrePrepare that is due.
THEOREM NothingDueBuffered == Spec => []NothingDueIsBuffered
<1>1. Init => NothingDueIsBuffered
  BY DEF Init, ReplicaInit, NothingDueIsBuffered, OpNumbers
<1>2. TypeOK /\ NothingDueIsBuffered /\ [Next]_vars => NothingDueIsBuffered'
  <2> SUFFICES ASSUME TypeOK, NothingDueIsBuffered, [Next]_vars
               PROVE  NothingDueIsBuffered'
    OBVIOUS
  <2>1. CASE UNCHANGED orderVars
    BY <2>1 DEF NothingDueIsBuffered, NextEntry, orderVars
  <2>2. ASSUME NEW i \in Replica, MainPoll(i)  PROVE NothingDueIsBuffered'
    <3>1. ASSUME NEW m, HandlePrePrepare(i, m)  PROVE NothingDueIsBuffered'
      BY <3>1, DrainedBuffer
    <3> QED  BY <2>1, <2>2, <3>1 DEF MainPoll, HandleRequest, HandlePrepare, HandleCommit
  <2>3. CASE UNCHANGED vars
    BY <2>1, <2>3 DEF vars, replicaVars
  <2>4. ASSUME NEW c \in Client, ClientNext(c)  PROVE UNCHANGED orderVars
    BY <2>4 DEF ClientNext, replicaVars
  <2> QED  BY <2>1, <2>2, <2>3, <2>4 DEF Next, ReplicaNext
<1> QED  BY <1>1, <1>2, TypeCorrect, PTL DEF Spec

\* The reorder buffer holds one PrePrepare for each closed batch at most.
LEMMA BufferIsFinite ==
  ASSUME TypeOK, AgreementInv, NEW i \in Replica
  PROVE  /\ IsFiniteSet(reorder[i])
         /\ Cardinality(reorder[i]) \in Nat
         /\ Cardinality(reorder[i]) <= op_number
<1> DEFINE number == [e \in reorder[i] |-> e.op_number]
<1>1. /\ reorder[i] \subseteq PrePrepareMessage
      /\ reorder[i] \subseteq network
      /\ op_number \in Nat
  BY DEF TypeOK, ReplicaTypeOK, AgreementInv, BuffersAreSent
<1>2. \A e \in reorder[i] : e.type = "PrePrepare" /\ e.op_number \in 1..op_number
  BY <1>1 DEF AgreementInv, BatchesAreUnique, PrePrepareMessage, OpNumber
<1>3. \A e1, e2 \in reorder[i] : e1.op_number = e2.op_number => e1 = e2
  BY <1>1, <1>2 DEF AgreementInv, BatchesAreUnique
<1>4. /\ number \in [reorder[i] -> 1..op_number]
      /\ \A e1, e2 \in reorder[i] : number[e1] = number[e2] => e1 = e2
  BY <1>2, <1>3
<1> HIDE DEF number
<1>5. number \in Injection(reorder[i], 1..op_number)
  BY <1>4, Fun_IsInj
<1>6. /\ IsFiniteSet(1..op_number)
      /\ Cardinality(1..op_number) = op_number
  BY <1>1, FS_Interval
<1>7. IsFiniteSet(reorder[i]) /\ Cardinality(reorder[i]) <= Cardinality(1..op_number)
  BY <1>5, <1>6, FS_Injection
<1> QED  BY <1>6, <1>7, FS_CardinalityType

\* However often a PrePrepare arrives, the reorder buffer holds at most one for
\* each batch, and of those in the log the very one the log has.
THEOREM LeftoversStayBounded == Spec => []LeftoversAreBounded
<1>1. TypeOK /\ AgreementInv => LeftoversAreBounded
  <2> SUFFICES ASSUME TypeOK, AgreementInv, NEW i \in Replica
               PROVE  /\ \A e \in reorder[i] : e.op_number <= Len(log[i]) => e = log[i][e.op_number]
                      /\ Cardinality(reorder[i]) <= op_number
    BY DEF LeftoversAreBounded
  <2>1. /\ reorder[i] \subseteq PrePrepareMessage
        /\ reorder[i] \subseteq network
        /\ op_number \in Nat
        /\ log[i] \in Seq(PrePrepareMessage)
    BY DEF TypeOK, ReplicaTypeOK, AgreementInv, BuffersAreSent
  <2>2. \A e \in reorder[i] : e.type = "PrePrepare" /\ e.op_number \in 1..op_number
    BY <2>1 DEF AgreementInv, BatchesAreUnique, PrePrepareMessage, OpNumber
  <2>3. ASSUME NEW e \in reorder[i], e.op_number <= Len(log[i])
        PROVE  e = log[i][e.op_number]
    <3>1. e.op_number \in 1..Len(log[i])
      BY <2>1, <2>2, <2>3
    <3>2. /\ log[i][e.op_number] \in network
          /\ log[i][e.op_number].op_number = e.op_number
          /\ log[i][e.op_number].type = "PrePrepare"
      <4>1. log[i][e.op_number] \in PrePrepareMessage
        BY <2>1, <3>1
      <4>2. log[i][e.op_number] \in network /\ log[i][e.op_number].op_number = e.op_number
        BY <3>1 DEF AgreementInv, LogsAreSent
      <4> QED  BY <4>1, <4>2 DEF PrePrepareMessage
    <3> QED  BY <2>1, <2>2, <3>2 DEF AgreementInv, BatchesAreUnique
  <2>4. Cardinality(reorder[i]) <= op_number
    BY BufferIsFinite
  <2> QED  BY <2>3, <2>4
<1> QED  BY <1>1, TypeCorrect, AgreementInvariant, PTL

\* Both together: the reorder buffer is sound.
THEOREM BufferStaysSound == Spec => []BufferIsSound
<1>1. NothingDueIsBuffered /\ LeftoversAreBounded => BufferIsSound
  BY DEF BufferIsSound
<1> QED  BY <1>1, NothingDueBuffered, LeftoversStayBounded, PTL

-------------------------------------------------------------------------------
(* The loops of a handler. *)

\* The drain ends at the first op number after m that the buffer has not, which
\* comes before the buffer's size is used up.
LEMMA DrainEnds ==
  ASSUME NEW i \in Replica, IsFiniteSet(reorder[i]), NEW m, m.op_number \in Nat
  PROVE  \E last \in m.op_number..(m.op_number + Cardinality(reorder[i])) :
           IsLastDue(i, m, last)
<1> DEFINE number == [e \in reorder[i] |-> e.op_number]
           numbers == OpNumbers(reorder[i])
<1> PICK size : size = Cardinality(reorder[i])
  OBVIOUS
<1> PICK op : op = m.op_number
  OBVIOUS
<1> DEFINE range == (op + 1)..(op + size + 1)
           gaps == range \ numbers
<1>1. size \in Nat /\ op \in Nat
  BY FS_CardinalityType
<1>2. IsFiniteSet(numbers) /\ Cardinality(numbers) <= size
  <2>1. /\ number \in [reorder[i] -> numbers]
        /\ \A n \in numbers : \E e \in reorder[i] : number[e] = n
    BY DEF OpNumbers
  <2> HIDE DEF number, numbers
  <2>2. number \in Surjection(reorder[i], numbers)
    BY <2>1, Fun_IsSurj
  <2> QED  BY <2>2, FS_Surjection
<1> HIDE DEF numbers
<1>3. gaps # {}
  <2>1. Cardinality(range) = size + 1
    <3>1. op + 1 \in Int /\ op + size + 1 \in Int /\ ~(op + 1 > op + size + 1)
      BY <1>1
    <3>2. Cardinality((op + 1)..(op + size + 1)) = (op + size + 1) - (op + 1) + 1
      BY <3>1, FS_Interval
    <3> QED  BY <1>1, <3>2
  <2>2. ASSUME range \in SUBSET numbers
        PROVE  Cardinality(range) <= Cardinality(numbers)
    <3> HIDE DEF range
    <3> QED  BY <1>2, <2>2, FS_Subset
  <2>3. Cardinality(numbers) \in Nat
    BY <1>2, FS_CardinalityType
  <2>4. ~(range \in SUBSET numbers)
    <3> HIDE DEF range
    <3> QED  BY <1>1, <1>2, <2>1, <2>2, <2>3
  <2> QED  BY <2>4
<1>4. PICK gap \in gaps : \A k \in gaps : gap <= k
  <2>1. gaps \in SUBSET Nat
    BY <1>1
  <2> HIDE DEF gaps
  <2> QED  BY <1>3, <2>1, LeastNatural
<1>5. gap - 1 \in op..(op + size) /\ gap - 1 + 1 = gap
  BY <1>1
<1>6. \A k \in (op + 1)..(gap - 1) : k \in numbers
  BY <1>1, <1>4
<1>7. gap \notin numbers
  OBVIOUS
<1> QED  BY <1>5, <1>6, <1>7 DEF IsLastDue, numbers

\* execute goes on up to the first batch that is not committed, or to the end of
\* the log.
LEMMA SweepEnds ==
  ASSUME TypeOK, AgreementInv, NEW i \in Replica, NEW commits
  PROVE  \E to \in execute_number[i]..Len(log[i]) : IsSweep(i, commits, to)
<1> DEFINE stops == {k \in execute_number[i]..Len(log[i]) :
                       k < Len(log[i]) => ~IsReady(i, commits, k + 1)}
<1>1. /\ execute_number[i] \in Nat
      /\ Len(log[i]) \in Nat
      /\ execute_number[i] <= Len(log[i])
  BY LogType DEF TypeOK, ReplicaTypeOK, AgreementInv, ExecutedIsCommitted
<1>2. Len(log[i]) \in stops /\ stops \in SUBSET Nat
  BY <1>1
<1>3. PICK to \in stops : \A k \in stops : to <= k
  <2> HIDE DEF stops
  <2> QED  BY <1>2, LeastNatural
<1>4. ASSUME NEW k \in (execute_number[i] + 1)..to
      PROVE  IsReady(i, commits, k)
  <2>1. /\ k - 1 \in execute_number[i]..Len(log[i])
        /\ k - 1 < Len(log[i])
        /\ k - 1 + 1 = k
        /\ ~(to <= k - 1)
    BY <1>1
  <2>2. k - 1 \notin stops
    BY <1>3, <2>1
  <2> QED  BY <2>1, <2>2
<1> QED  BY <1>4 DEF IsSweep

\* Neither the drain of the reorder buffer nor execute can run on for ever or past
\* what the replica has, so that the bounds which HandlePrePrepare and Execute
\* put on them lose no behaviour of the code.
THEOREM LoopsTerminate == Spec => []LoopsEnd
<1>1. TypeOK /\ AgreementInv => LoopsEnd
  <2> SUFFICES ASSUME TypeOK, AgreementInv, NEW i \in Replica, NEW m \in network
               PROVE  /\ \E last \in m.op_number..(m.op_number + Cardinality(reorder[i])) :
                           IsLastDue(i, m, last)
                      /\ \A commits : \E to \in execute_number[i]..Len(log[i]) :
                           IsSweep(i, commits, to)
    BY DEF LoopsEnd
  <2>1. m.op_number \in Nat
    BY DEF TypeOK, NetworkTypeOK, Message, PrePrepareMessage, VoteMessage, OpNumber
  <2>2. IsFiniteSet(reorder[i])
    BY BufferIsFinite
  <2> QED  BY <2>1, <2>2, DrainEnds, SweepEnds
<1> QED  BY <1>1, TypeCorrect, AgreementInvariant, PTL

-------------------------------------------------------------------------------
(* The window. *)

\* The batches that the primary has closed and that are not committed.
Uncommitted ==
  {k \in (execute_number[Primary] + 1)..op_number : ~CommittedAt(Primary, k)}

LEMMA NumberTypes ==
  ASSUME TypeOK
  PROVE  /\ execute_number[Primary] \in Nat /\ op_number \in Nat
         /\ IsFiniteSet(Uncommitted) /\ Uncommitted \subseteq Nat
<1>1. execute_number[Primary] \in Nat /\ op_number \in Nat
  BY PbftAssumption DEF TypeOK, ReplicaTypeOK
<1>2. IsFiniteSet((execute_number[Primary] + 1)..op_number)
  BY <1>1, FS_Interval
<1>3. Uncommitted \subseteq (execute_number[Primary] + 1)..op_number
  BY DEF Uncommitted
<1>4. IsFiniteSet(Uncommitted)
  <2> HIDE DEF Uncommitted
  <2> QED  BY <1>2, <1>3, FS_Subset
<1>5. (execute_number[Primary] + 1)..op_number \subseteq Nat
  BY <1>1
<1> QED  BY <1>1, <1>3, <1>4, <1>5

LEMMA ExecuteGrows ==
  ASSUME TypeOK, NEW i \in Replica, NEW commits, Execute(i, commits)
  PROVE  execute_number[Primary] <= execute_number'[Primary]
<1>1. PICK to \in execute_number[i]..Len(log[i]) :
        execute_number' = [execute_number EXCEPT ![i] = to]
  BY DEF Execute
<1>2. /\ execute_number[i] \in Nat /\ execute_number[Primary] \in Nat
      /\ Len(log[i]) \in Nat /\ execute_number \in [Replica -> Nat]
  BY LogType, PbftAssumption DEF TypeOK, ReplicaTypeOK
<1>3. to >= execute_number[i]
  BY <1>2
<1> QED  BY <1>1, <1>2, <1>3, PbftAssumption

\* A step that closes no batch leaves none uncommitted that was not before.
LEMMA UncommittedShrinks ==
  ASSUME TypeOK, TypeOK', Grows, UncommittedBounded, op_number' = op_number,
         execute_number[Primary] <= execute_number'[Primary]
  PROVE  UncommittedBounded'
<1>1. \A k : CommittedAt(Primary, k) => CommittedAt(Primary, k)'
  BY CommittedStays, PbftAssumption
<1>2. execute_number[Primary] \in Nat /\ op_number \in Nat /\ execute_number'[Primary] \in Nat
  BY NumberTypes, PbftAssumption DEF TypeOK, ReplicaTypeOK
<1>3. Uncommitted' \subseteq Uncommitted
  BY <1>1, <1>2 DEF Uncommitted
<1>4. /\ IsFiniteSet(Uncommitted)
      /\ Cardinality(Uncommitted) <= Window
  BY NumberTypes DEF UncommittedBounded, Uncommitted
<1> HIDE DEF Uncommitted
<1>5. Cardinality(Uncommitted') <= Window
  <2>1. /\ Cardinality(Uncommitted') <= Cardinality(Uncommitted)
        /\ Cardinality(Uncommitted') \in Nat /\ Cardinality(Uncommitted) \in Nat
    BY <1>3, <1>4, FS_Subset, FS_CardinalityType
  <2> QED  BY <1>4, <2>1, ReplicaAssumption
<1> QED  BY <1>5 DEF UncommittedBounded, Uncommitted

\* A request closes a batch only inside the window.
LEMMA RequestInWindow ==
  ASSUME TypeOK, TypeOK', WindowOpen, op_number' = op_number + 1,
         execute_number' = execute_number
  PROVE  UncommittedBounded'
<1> DEFINE exec == execute_number[Primary]
<1>1. exec \in Nat /\ op_number \in Nat /\ Window \in Nat
  BY NumberTypes, ReplicaAssumption
<1>2. Uncommitted' \subseteq (exec + 1)..(exec + Window)
  BY <1>1 DEF Uncommitted, WindowOpen
<1>3. /\ IsFiniteSet((exec + 1)..(exec + Window))
      /\ Cardinality((exec + 1)..(exec + Window)) = Window
  <2> HIDE DEF exec
  <2>1. exec + 1 \in Int /\ exec + Window \in Int
    BY <1>1
  <2>2. /\ IsFiniteSet((exec + 1)..(exec + Window))
        /\ Cardinality((exec + 1)..(exec + Window)) =
             IF exec + 1 > exec + Window THEN 0 ELSE (exec + Window) - (exec + 1) + 1
    BY <2>1, FS_Interval
  <2> QED  BY <1>1, <2>2
<1>4. Cardinality(Uncommitted') <= Window
  BY <1>2, <1>3, FS_Subset
<1> QED  BY <1>4 DEF UncommittedBounded, Uncommitted

\* A vote is for the digest of the entry that has its op number in any log.
LEMMA VoteOfEntry ==
  ASSUME TypeOK, AgreementInv, NEW m \in network, m.type # "PrePrepare",
         NEW i \in Replica, m.op_number \in 1..Len(log[i])
  PROVE  m.request_digest = log[i][m.op_number].request_digest
<1>1. m \in VoteMessage
  BY VoteType
<1>2. /\ m.replica_id \in Replica
      /\ m.op_number \in 1..Len(log[m.replica_id])
      /\ log[m.replica_id][m.op_number].request_digest = m.request_digest
  BY <1>1 DEF AgreementInv, VotesHaveEntries, VoteMessage
<1>3. LogAgreement
  BY SentEntriesAgree DEF AgreementInv
<1>4. log[m.replica_id][m.op_number] = log[i][m.op_number]
  BY <1>2, <1>3, LogType DEF LogAgreement
<1> QED  BY <1>2, <1>4

\* Entries of a log have been closed as batches.
LEMMA EntryIsClosed ==
  ASSUME TypeOK, AgreementInv, NEW i \in Replica, NEW k \in 1..Len(log[i])
  PROVE  k <= op_number
<1>1. log[i][k] \in network /\ log[i][k].op_number = k /\ log[i][k].type = "PrePrepare"
  BY LogType DEF AgreementInv, LogsAreSent, PrePrepareMessage
<1> QED  BY <1>1 DEF AgreementInv, BatchesAreUnique

\* A commit closes a batch only when it has committed another.
LEMMA CommitMakesRoom ==
  ASSUME TypeOK, TypeOK', AgreementInv, Grows, UncommittedBounded,
         NEW m, HandleCommit(Primary, m), op_number' = op_number + 1,
         execute_number[Primary] <= execute_number'[Primary]
  PROVE  UncommittedBounded'
<1> DEFINE op == m.op_number
           commits == commit_quorums[Primary] \cup {<<op, m.request_digest, m.replica_id>>}
<1>1. /\ m \in VoteMessage /\ m \in network /\ m.type = "Commit"
      /\ log' = log /\ prepare_quorums' = prepare_quorums
  BY CommitSteps, PbftAssumption DEF AgreementInv, orderVars
<1>2. execute_number[Primary] \in Nat /\ op_number \in Nat /\ execute_number'[Primary] \in Nat
  BY NumberTypes, PbftAssumption DEF TypeOK, ReplicaTypeOK
<1>3. /\ ~IsCommitted(log[Primary], prepare_quorums[Primary], commit_quorums[Primary],
                      op, m.request_digest)
      /\ IsCommitted(log[Primary], prepare_quorums[Primary], commits, op, m.request_digest)
      /\ commit_quorums' = [commit_quorums EXCEPT ![Primary] = commits]
  BY <1>2 DEF HandleCommit, batchVars
<1>4. op \in 1..Len(log[Primary]) /\ m.request_digest = log[Primary][op].request_digest
  <2>1. op \in 1..Len(log[Primary])
    BY <1>3 DEF IsCommitted, IsPrepared
  <2> QED  BY <1>1, <2>1, VoteOfEntry, PbftAssumption
<1>5. ~CommittedAt(Primary, op)
  BY <1>3, <1>4 DEF CommittedAt, IsReady
<1>6. CommittedAt(Primary, op)'
  <2>1. commit_quorums'[Primary] = commits
    BY <1>3, PbftAssumption DEF TypeOK, ReplicaTypeOK
  <2> HIDE DEF commits
  <2> QED  BY <1>1, <1>3, <1>4, <2>1 DEF CommittedAt, IsReady
<1>7. op \in Uncommitted
  <2>1. op \in Nat /\ op <= op_number
    BY <1>4, EntryIsClosed, LogType, PbftAssumption
  <2>2. ~(op \in 1..execute_number[Primary])
    BY <1>5, PbftAssumption DEF AgreementInv, ExecutedIsCommitted
  <2> QED  BY <1>2, <1>4, <1>5, <2>1, <2>2 DEF Uncommitted
<1>8. \A k : CommittedAt(Primary, k) => CommittedAt(Primary, k)'
  BY CommittedStays, PbftAssumption
<1>9. Uncommitted' \subseteq (Uncommitted \ {op}) \cup {op_number + 1}
  BY <1>2, <1>6, <1>8 DEF Uncommitted
<1>10. Cardinality(Uncommitted) <= Window /\ IsFiniteSet(Uncommitted)
  BY NumberTypes DEF UncommittedBounded, Uncommitted
<1>11. Cardinality(Uncommitted') <= Window
  <2> HIDE DEF Uncommitted, op
  <2> DEFINE others == Uncommitted \ {op}
             bound == others \cup {op_number + 1}
  <2>1. IsFiniteSet(others) /\ Cardinality(others) = Cardinality(Uncommitted) - 1
    BY <1>7, <1>10, FS_RemoveElement
  <2>2. Cardinality(Uncommitted) \in Nat /\ Cardinality(others) \in Nat
    BY <1>10, <2>1, FS_CardinalityType
  <2>3. IsFiniteSet(bound) /\ Cardinality(bound) <= Cardinality(Uncommitted)
    <3> HIDE DEF others
    <3>1. \A x : /\ IsFiniteSet(others \cup {x})
                 /\ Cardinality(others \cup {x}) =
                      IF x \in others THEN Cardinality(others) ELSE Cardinality(others) + 1
      BY <2>1, FS_AddElement
    <3>2. /\ IsFiniteSet(bound)
          /\ Cardinality(bound) = Cardinality(others)
               \/ Cardinality(bound) = Cardinality(others) + 1
      BY <3>1
    <3> HIDE DEF bound
    <3> QED  BY <2>1, <2>2, <3>2
  <2>4. /\ Cardinality(Uncommitted') <= Cardinality(bound)
        /\ Cardinality(Uncommitted') \in Nat /\ Cardinality(bound) \in Nat
    <3> HIDE DEF bound
    <3>1. Uncommitted' \subseteq bound
      BY <1>9 DEF bound
    <3> QED  BY <2>3, <3>1, FS_Subset, FS_CardinalityType
  <2> HIDE DEF bound, others
  <2> QED  BY <1>10, <2>2, <2>3, <2>4, ReplicaAssumption
<1> QED  BY <1>11 DEF UncommittedBounded, Uncommitted

\* The primary never has more than Window batches closed and uncommitted,
\* whatever order their votes arrive in.
THEOREM UncommittedStaysBounded == Spec => []UncommittedBounded
<1>1. Init => UncommittedBounded
  <2> SUFFICES ASSUME Init  PROVE UncommittedBounded
    OBVIOUS
  <2>1. execute_number[Primary] = 0 /\ op_number = 0
    BY PbftAssumption DEF Init, ReplicaInit
  <2>2. Uncommitted = {}
    BY <2>1 DEF Uncommitted
  <2>3. Cardinality(Uncommitted) = 0
    BY <2>2, FS_EmptySet
  <2> QED  BY <2>3, ReplicaAssumption DEF UncommittedBounded, Uncommitted
<1>2. TypeOK /\ TypeOK' /\ AgreementInv /\ UncommittedBounded /\ [Next]_vars
        => UncommittedBounded'
  <2> SUFFICES ASSUME TypeOK, TypeOK', AgreementInv, UncommittedBounded, [Next]_vars
               PROVE  UncommittedBounded'
    OBVIOUS
  <2>1. Grows
    BY AgreementStep
  <2>2. execute_number[Primary] \in Nat
    BY NumberTypes
  <2>3. CASE UNCHANGED <<op_number, execute_number>>
    BY <2>1, <2>2, <2>3, UncommittedShrinks
  <2>4. ASSUME NEW m \in Request, HandleRequest(m)  PROVE UncommittedBounded'
    <3>1. execute_number' = execute_number
      BY <2>4 DEF HandleRequest, executeVars
    <3>2. op_number' = op_number \/ (WindowOpen /\ op_number' = op_number + 1)
      <4>1. \/ UNCHANGED batchVars
            \/ WindowOpen /\ CloseBatch(Append(requests, m))
            \/ UNCHANGED op_number
        BY <2>4, Zenon DEF HandleRequest
      <4> QED  BY <4>1 DEF CloseBatch, batchVars
    <3> QED  BY <2>3, <3>1, <3>2, RequestInWindow
  <2>5. ASSUME NEW i \in Replica, NEW m, HandleCommit(i, m)  PROVE UncommittedBounded'
    <3>1. execute_number[Primary] <= execute_number'[Primary]
      <4>1. UNCHANGED executeVars \/ Execute(i, commit_quorums'[i])
        BY <2>5, CommitSteps DEF AgreementInv
      <4> QED  BY <2>2, <4>1, ExecuteGrows DEF executeVars
    <3>2. CASE op_number' = op_number
      BY <2>1, <3>1, <3>2, UncommittedShrinks
    <3>3. CASE i = Primary /\ op_number' = op_number + 1
      BY <2>1, <2>5, <3>1, <3>3, CommitMakesRoom
    <3> QED  BY <2>5, <3>2, <3>3 DEF HandleCommit, HasBacklog, CloseBatch, batchVars
  <2>6. ASSUME NEW i \in Replica, MainPoll(i)  PROVE UncommittedBounded'
    <3>1. ASSUME NEW m, HandlePrePrepare(i, m) \/ HandlePrepare(i, m)
          PROVE  UncommittedBounded'
      BY <2>3, <3>1 DEF HandlePrePrepare, HandlePrepare, batchVars, executeVars
    <3> QED  BY <2>4, <2>5, <2>6, <3>1 DEF MainPoll
  <2>7. CASE UNCHANGED vars
    BY <2>3, <2>7 DEF vars, replicaVars, batchVars, executeVars
  <2>8. ASSUME NEW c \in Client, ClientNext(c)  PROVE UNCHANGED <<op_number, execute_number>>
    BY <2>8 DEF ClientNext, replicaVars, batchVars, executeVars
  <2> QED  BY <2>3, <2>6, <2>7, <2>8 DEF Next, ReplicaNext
<1> QED  BY <1>1, <1>2, TypeCorrect, AgreementInvariant, PTL DEF Spec

LEMMA CommitKeepsWindow ==
  ASSUME TypeOK, RequestsWaitForWindow, NEW i \in Replica, NEW m, HandleCommit(i, m)
  PROVE  RequestsWaitForWindow'
<1>1. CASE UNCHANGED <<executeVars, batchVars>>
  BY <1>1 DEF RequestsWaitForWindow, WindowOpen, executeVars, batchVars
<1>2. CASE CloseBatch(requests)
  BY <1>2 DEF RequestsWaitForWindow, CloseBatch
<1>3. CASE ~HasBacklog(i) /\ UNCHANGED batchVars /\ \E commits : Execute(i, commits)
  <2>1. CASE requests = <<>>
    BY <1>3, <2>1 DEF RequestsWaitForWindow, batchVars
  <2>2. CASE i # Primary
    <3>1. execute_number'[Primary] = execute_number[Primary]
      BY <1>3, <2>2, PbftAssumption DEF Execute, TypeOK, ReplicaTypeOK
    <3> QED  BY <1>3, <3>1 DEF RequestsWaitForWindow, WindowOpen, batchVars
  <2> QED  BY <1>3, <2>1, <2>2 DEF HasBacklog
<1>4. \/ UNCHANGED <<executeVars, batchVars>>
      \/ CloseBatch(requests)
      \/ ~HasBacklog(i) /\ UNCHANGED batchVars /\ \E commits : Execute(i, commits)
  BY DEF HandleCommit
<1> QED  BY <1>1, <1>2, <1>3, <1>4

\* Requests wait for a batch only while the window is full.
THEOREM WaitingMeansFull == Spec => []RequestsWaitForWindow
<1>1. Init => RequestsWaitForWindow
  BY DEF Init, ReplicaInit, RequestsWaitForWindow
<1>2. TypeOK /\ RequestsWaitForWindow /\ [Next]_vars => RequestsWaitForWindow'
  <2> SUFFICES ASSUME TypeOK, RequestsWaitForWindow, [Next]_vars
               PROVE  RequestsWaitForWindow'
    OBVIOUS
  <2>1. CASE UNCHANGED <<batchVars, execute_number>>
    BY <2>1 DEF RequestsWaitForWindow, WindowOpen, batchVars
  <2>2. ASSUME NEW m \in Request, HandleRequest(m)  PROVE RequestsWaitForWindow'
    <3>1. UNCHANGED execute_number
      BY <2>2 DEF HandleRequest, executeVars
    <3>2. \/ UNCHANGED batchVars
          \/ CloseBatch(Append(requests, m))
          \/ ~WindowOpen /\ UNCHANGED op_number
      BY <2>2, Zenon DEF HandleRequest
    <3> QED  BY <2>1, <3>1, <3>2 DEF CloseBatch, RequestsWaitForWindow, WindowOpen
  <2>3. ASSUME NEW i \in Replica, MainPoll(i)  PROVE RequestsWaitForWindow'
    <3>1. ASSUME NEW m, HandlePrePrepare(i, m) \/ HandlePrepare(i, m)
          PROVE  RequestsWaitForWindow'
      BY <2>1, <3>1 DEF HandlePrePrepare, HandlePrepare, executeVars
    <3> QED  BY <2>2, <2>3, <3>1, CommitKeepsWindow DEF MainPoll
  <2>4. CASE UNCHANGED vars
    BY <2>1, <2>4 DEF vars, replicaVars, executeVars
  <2>5. ASSUME NEW c \in Client, ClientNext(c)  PROVE UNCHANGED <<batchVars, execute_number>>
    BY <2>5 DEF ClientNext, replicaVars, executeVars
  <2> QED  BY <2>1, <2>3, <2>4, <2>5 DEF Next, ReplicaNext
<1> QED  BY <1>1, <1>2, TypeCorrect, PTL DEF Spec

-------------------------------------------------------------------------------
(* What the requests wait for. *)

\* Of at most 2F+1 replicas all have to commit.
LEMMA QuorumIsEverybody ==
  ASSUME Cardinality(Replica) <= 2 * F + 1, NEW votes, NEW op, NEW digest,
         Cardinality(Voters(votes, op, digest)) > 2 * F
  PROVE  \A r \in Replica : <<op, digest, r>> \in votes
<1> DEFINE V == Voters(votes, op, digest)
<1>1. V \subseteq Replica
  BY DEF Voters
<1>2. V = Replica
  <2> HIDE DEF V
  <2>1. /\ IsFiniteSet(V)
        /\ Cardinality(V) <= Cardinality(Replica)
        /\ Cardinality(Replica) = Cardinality(V) => Replica = V
    BY <1>1, FS_Subset, PbftAssumption
  <2>2. Cardinality(V) \in Nat /\ Cardinality(Replica) \in Nat
    BY <2>1, FS_CardinalityType, PbftAssumption
  <2>3. Cardinality(V) > 2 * F
    BY DEF V
  <2> QED  BY <2>1, <2>2, <2>3, PbftAssumption
<1> QED  BY <1>2 DEF Voters

\* A quorum of votes has a vote.
LEMMA QuorumHasVoter ==
  ASSUME NEW votes, NEW op, NEW digest,
         Cardinality(Voters(votes, op, digest)) > 0
  PROVE  \E r \in Replica : <<op, digest, r>> \in votes
<1>1. Voters(votes, op, digest) # {}
  BY FS_EmptySet
<1> QED  BY <1>1 DEF Voters

\* Replica i counts no Commit before the batch is prepared.
CommitsFollow(i) ==
  \A b \in commit_quorums[i] : IsPrepared(log[i], prepare_quorums[i], b[1], b[2])

\* The batch that replica i executes next is not committed.
NextIsUncommitted(i) == ~CommittedAt(i, execute_number[i] + 1)

\* Only a Commit that the replica handles makes a batch committed, if Commits
\* follow what makes the batch prepared or if its own is one of the quorum.
LEMMA CommittedByCommit ==
  ASSUME TypeOK, AgreementInv, NEW i \in Replica,
         CommitsFollow(i) \/ Cardinality(Replica) <= 2 * F + 1, Grows,
         commit_quorums'[i] = commit_quorums[i],
         NEW k, CommittedAt(i, k)'
  PROVE  CommittedAt(i, k)
<1> DEFINE digest == log'[i][k].request_digest
<1>1. Cardinality(Voters(commit_quorums[i], k, digest)) > 2 * F
  BY DEF CommittedAt, IsReady, IsCommitted
<1>2. IsPrepared(log[i], prepare_quorums[i], k, digest)
  <2>1. CASE CommitsFollow(i)
    <3>1. Cardinality(Voters(commit_quorums[i], k, digest)) > 0
      <4>1. Cardinality(Voters(commit_quorums[i], k, digest)) \in Nat
        BY FS_Subset, FS_CardinalityType, PbftAssumption DEF Voters
      <4> QED  BY <1>1, <4>1, PbftAssumption
    <3>2. PICK r \in Replica : <<k, digest, r>> \in commit_quorums[i]
      <4> HIDE DEF digest
      <4> QED  BY <3>1, QuorumHasVoter
    <3> QED  BY <2>1, <3>2 DEF CommitsFollow
  <2>2. CASE Cardinality(Replica) <= 2 * F + 1
    <3>1. <<k, digest, i>> \in commit_quorums[i]
      BY <1>1, <2>2, QuorumIsEverybody
    <3>2. Vote("Commit", k, digest, i) \in network
      BY <3>1 DEF AgreementInv, QuorumsAreSent
    <3> QED  BY <3>2 DEF AgreementInv, CommitsArePrepared, Vote
  <2> QED  BY <2>1, <2>2
<1>3. k \in 1..Len(log[i]) /\ log'[i][k] = log[i][k]
  BY <1>2 DEF IsPrepared, Grows
<1> QED  BY <1>1, <1>2, <1>3 DEF CommittedAt, IsReady, IsCommitted

\* The commit of a batch executes it and what follows, up to one that is not
\* committed.
LEMMA CommitExecutes ==
  ASSUME TypeOK, NEW i \in Replica, NextIsUncommitted(i), NEW m, HandleCommit(i, m)
  PROVE  NextIsUncommitted(i)'
<1> DEFINE op == m.op_number
           digest == m.request_digest
           commits == commit_quorums[i] \cup {<<op, digest, m.replica_id>>}
<1>1. UNCHANGED <<log, prepare_quorums>>
  BY DEF HandleCommit, orderVars
<1>2. /\ commit_quorums \in [Replica -> SUBSET Ballot]
      /\ execute_number \in [Replica -> Nat]
  BY DEF TypeOK, ReplicaTypeOK
<1>3. CASE UNCHANGED <<commit_quorums, executeVars>>
  BY <1>1, <1>3 DEF NextIsUncommitted, CommittedAt, IsReady, executeVars
<1>4. CASE /\ ~IsCommitted(log[i], prepare_quorums[i], commits, op, digest)
           /\ commit_quorums' = [commit_quorums EXCEPT ![i] = commits]
           /\ UNCHANGED executeVars
  <2> DEFINE k == execute_number[i] + 1
             d == log[i][k].request_digest
  <2>1. commit_quorums'[i] = commits /\ execute_number' = execute_number
    BY <1>2, <1>4 DEF executeVars
  <2>2. CASE k = op /\ d = digest
    BY <1>1, <1>4, <2>1, <2>2 DEF NextIsUncommitted, CommittedAt, IsReady
  <2>3. CASE ~(k = op /\ d = digest)
    <3>1. Voters(commits, k, d) = Voters(commit_quorums[i], k, d)
      BY <2>3 DEF Voters
    <3> HIDE DEF commits, d, k
    <3>2. IsCommitted(log[i], prepare_quorums[i], commits, k, d)
            <=> IsCommitted(log[i], prepare_quorums[i], commit_quorums[i], k, d)
      BY <3>1 DEF IsCommitted
    <3> QED  BY <1>1, <2>1, <3>2 DEF NextIsUncommitted, CommittedAt, IsReady, k, d
  <2> QED  BY <2>2, <2>3
<1>5. CASE /\ commit_quorums' = [commit_quorums EXCEPT ![i] = commits]
           /\ Execute(i, commits)
  <2>1. commit_quorums'[i] = commits
    BY <1>2, <1>5
  <2> HIDE DEF commits
  <2>2. PICK to \in execute_number[i]..Len(log[i]) :
          /\ to < Len(log[i]) =>
               ~IsCommitted(log[i], prepare_quorums[i], commits, to + 1,
                            log[i][to + 1].request_digest)
          /\ execute_number' = [execute_number EXCEPT ![i] = to]
    BY <1>5 DEF Execute, IsSweep, IsReady
  <2>3. execute_number'[i] = to /\ to \in Nat /\ Len(log[i]) \in Nat
    BY <1>2, <2>2, LogType
  <2>4. CASE to < Len(log[i])
    BY <1>1, <2>1, <2>2, <2>3, <2>4 DEF NextIsUncommitted, CommittedAt, IsReady
  <2>5. CASE ~(to < Len(log[i]))
    BY <1>1, <2>3, <2>5 DEF NextIsUncommitted, CommittedAt
  <2> QED  BY <2>4, <2>5
<1> QED  BY <1>3, <1>4, <1>5 DEF HandleCommit

LEMMA NextStaysUncommitted ==
  ASSUME TypeOK, TypeOK', AgreementInv, [Next]_vars,
         NEW i \in Replica, NextIsUncommitted(i),
         CommitsFollow(i) \/ Cardinality(Replica) <= 2 * F + 1
  PROVE  NextIsUncommitted(i)'
<1>1. CASE /\ commit_quorums'[i] = commit_quorums[i]
           /\ execute_number'[i] = execute_number[i]
  BY <1>1, CommittedByCommit, AgreementStep DEF NextIsUncommitted
<1>2. CASE UNCHANGED <<commit_quorums, executeVars>>
  BY <1>1, <1>2 DEF executeVars
<1>3. ASSUME NEW j \in Replica, MainPoll(j)  PROVE NextIsUncommitted(i)'
  <2>1. ASSUME NEW m, HandleCommit(j, m)  PROVE NextIsUncommitted(i)'
    <3>1. CASE j = i
      BY <2>1, <3>1, CommitExecutes
    <3>2. CASE j # i
      <4>1. /\ commit_quorums'[i] = commit_quorums[i]
            /\ UNCHANGED executeVars \/ Execute(j, commit_quorums'[j])
        BY <2>1, <3>2, CommitSteps DEF AgreementInv
      <4>2. execute_number'[i] = execute_number[i]
        BY <3>2, <4>1 DEF Execute, executeVars, TypeOK, ReplicaTypeOK
      <4> QED  BY <1>1, <4>1, <4>2
    <3> QED  BY <3>1, <3>2
  <2>2. ASSUME NEW m, HandlePrePrepare(j, m) \/ HandlePrepare(j, m)
        PROVE  NextIsUncommitted(i)'
    BY <1>2, <2>2 DEF HandlePrePrepare, HandlePrepare
  <2>3. ASSUME NEW m \in Request, HandleRequest(m)  PROVE NextIsUncommitted(i)'
    BY <1>2, <2>3 DEF HandleRequest
  <2> QED  BY <1>3, <2>1, <2>2, <2>3 DEF MainPoll
<1>4. CASE UNCHANGED vars
  BY <1>2, <1>4 DEF vars, replicaVars
<1>5. ASSUME NEW c \in Client, ClientNext(c)  PROVE NextIsUncommitted(i)'
  BY <1>2, <1>5 DEF ClientNext, replicaVars
<1> QED  BY <1>3, <1>4, <1>5 DEF Next, ReplicaNext

LEMMA InitUncommitted ==
  ASSUME Init, NEW i \in Replica
  PROVE  NextIsUncommitted(i)
BY DEF Init, ReplicaInit, NextIsUncommitted, CommittedAt

\* With at most 2F+1 replicas requests wait only behind a batch whose commit is
\* still to come at the primary, the next to be executed.
THEOREM BacklogIsBehindBatches ==
  ASSUME Window > 0
  PROVE  Spec => []BacklogHasBatchesAhead
<1> DEFINE Ahead == Cardinality(Replica) <= 2 * F + 1 => NextIsUncommitted(Primary)
<1>1. Init => Ahead
  BY InitUncommitted, PbftAssumption
<1>2. TypeOK /\ TypeOK' /\ AgreementInv /\ Ahead /\ [Next]_vars => Ahead'
  BY NextStaysUncommitted, PbftAssumption
<1>3. TypeOK /\ RequestsWaitForWindow /\ Ahead => BacklogHasBatchesAhead
  <2> SUFFICES ASSUME TypeOK, RequestsWaitForWindow, NextIsUncommitted(Primary),
                      requests # <<>>
               PROVE  \E k \in (execute_number[Primary] + 1)..op_number :
                        ~CommittedAt(Primary, k)
    BY DEF BacklogHasBatchesAhead
  <2>1. execute_number[Primary] \in Nat /\ op_number \in Nat /\ Window \in Nat
    BY NumberTypes, ReplicaAssumption
  <2>2. ~(op_number < execute_number[Primary] + Window)
    BY DEF RequestsWaitForWindow, WindowOpen
  <2>3. execute_number[Primary] + 1 \in (execute_number[Primary] + 1)..op_number
    BY <2>1, <2>2
  <2> QED  BY <2>3 DEF NextIsUncommitted
<1> HIDE DEF Ahead
<1> QED  BY <1>1, <1>2, <1>3, TypeCorrect, AgreementInvariant, WaitingMeansFull, PTL DEF Spec

-------------------------------------------------------------------------------
(* What is not held back where no vote overtakes. *)

\* A handled message was for i, and no vote overtook at a replica outside Late.
LEMMA VoteInOrder ==
  ASSUME TypeOK, AgreementInv, NEW i \in Replica \ Late, NEW m \in Inbox(i)
  PROVE  /\ m.type = "Prepare" => m.op_number \in 1..Len(log[i])
         /\ m.type = "Commit" =>
              IsPrepared(log[i], prepare_quorums[i], m.op_number, m.request_digest)
<1>1. CASE m \in signing[i]
  <2>1. m \in network /\ Sender(m) = i
    BY <1>1 DEF AgreementInv, OwnCopies
  <2>2. m.type \in {"Prepare", "Commit"} => m.replica_id = i
    BY <2>1 DEF Sender
  <2> QED  BY <2>1, <2>2 DEF AgreementInv, VotesHaveEntries, CommitsArePrepared
<1>2. CASE ~Overtakes(i, m)
  BY <1>2 DEF Overtakes
<1> QED  BY <1>1, <1>2 DEF Inbox

\* Only the handler of a Prepare changes prepare_quorums, only that of a Commit
\* commit_quorums, and neither touches the log.
LEMMA QuorumsChange ==
  ASSUME [Next]_vars
  PROVE  /\ UNCHANGED prepare_quorums \/ UNCHANGED log
         /\ \/ UNCHANGED prepare_quorums
            \/ \E j \in Replica : \E m \in Inbox(j) : HandlePrepare(j, m)
         /\ \/ UNCHANGED commit_quorums
            \/ \E j \in Replica : \E m \in Inbox(j) : HandleCommit(j, m)
<1>1. CASE UNCHANGED replicaVars
  BY <1>1 DEF replicaVars
<1>2. ASSUME NEW i \in Replica, MainPoll(i)
      PROVE  /\ UNCHANGED prepare_quorums \/ UNCHANGED log
             /\ \/ UNCHANGED prepare_quorums
                \/ \E m \in Inbox(i) : HandlePrepare(i, m)
             /\ \/ UNCHANGED commit_quorums
                \/ \E m \in Inbox(i) : HandleCommit(i, m)
  <2>1. ASSUME NEW m \in Request, HandleRequest(m)
        PROVE  UNCHANGED <<prepare_quorums, commit_quorums>>
    BY <2>1 DEF HandleRequest
  <2>2. ASSUME NEW m \in Inbox(i), HandlePrePrepare(i, m)
        PROVE  UNCHANGED <<prepare_quorums, commit_quorums>>
    BY <2>2 DEF HandlePrePrepare
  <2>3. ASSUME NEW m \in Inbox(i), HandlePrepare(i, m)
        PROVE  UNCHANGED <<log, commit_quorums>>
    BY <2>3 DEF HandlePrepare, orderVars
  <2>4. ASSUME NEW m \in Inbox(i), HandleCommit(i, m)
        PROVE  UNCHANGED prepare_quorums
    BY <2>4 DEF HandleCommit
  <2> QED  BY <1>2, <2>1, <2>2, <2>3, <2>4 DEF MainPoll
<1>3. CASE UNCHANGED vars
  BY <1>1, <1>3 DEF vars
<1>4. ASSUME NEW c \in Client, ClientNext(c)  PROVE UNCHANGED replicaVars
  BY <1>4 DEF ClientNext
<1> QED  BY <1>1, <1>2, <1>3, <1>4 DEF Next, ReplicaNext

\* Quorums consist of votes in order.
LEMMA QuorumsStayInOrder ==
  ASSUME TypeOK, TypeOK', AgreementInv, QuorumsAreInOrder, [Next]_vars
  PROVE  QuorumsAreInOrder'
<1>1. Grows
  BY AgreementStep
<1>2. ASSUME NEW i \in Replica \ Late
      PROVE  \A b \in prepare_quorums'[i] : b[1] \in 1..Len(log'[i])
  <2>1. \A n \in 1..Len(log[i]) : n \in 1..Len(log'[i])
    BY <1>1, LogType DEF Grows, TypeOK, ReplicaTypeOK
  <2>2. ASSUME prepare_quorums'[i] \subseteq prepare_quorums[i]
        PROVE  \A b \in prepare_quorums'[i] : b[1] \in 1..Len(log'[i])
    BY <2>1, <2>2 DEF QuorumsAreInOrder
  <2>3. ASSUME NEW j \in Replica, NEW m, HandlePrepare(j, m)
        PROVE  \A b \in prepare_quorums'[i] : b[1] \in 1..Len(log'[i])
    <3>1. CASE j # i
      BY <2>2, <2>3, <3>1, PrepareSteps DEF AgreementInv
    <3>2. CASE j = i
      <4>1. m.op_number \in 1..Len(log[i])
        BY <2>3, <3>2, VoteInOrder DEF HandlePrepare
      <4>2. prepare_quorums'[i] \subseteq prepare_quorums[i]
              \cup {<<m.op_number, m.request_digest, m.replica_id>>}
        BY <2>3, <3>2, PrepareSteps DEF AgreementInv
      <4>3. \A b \in prepare_quorums'[i] :
              b \in prepare_quorums[i] \/ b[1] = m.op_number
        BY <4>2
      <4> QED  BY <2>1, <4>1, <4>3 DEF QuorumsAreInOrder
    <3> QED  BY <3>1, <3>2
  <2> QED  BY <2>2, <2>3, QuorumsChange
<1>3. ASSUME NEW i \in Replica \ Late
      PROVE  \A b \in commit_quorums'[i] :
               IsPrepared(log'[i], prepare_quorums'[i], b[1], b[2])
  <2>1. \A op, digest : IsPrepared(log[i], prepare_quorums[i], op, digest)
          => IsPrepared(log'[i], prepare_quorums'[i], op, digest)
    BY <1>1, PreparedStays
  <2>2. ASSUME commit_quorums'[i] \subseteq commit_quorums[i]
        PROVE  \A b \in commit_quorums'[i] :
                 IsPrepared(log'[i], prepare_quorums'[i], b[1], b[2])
    BY <2>1, <2>2 DEF QuorumsAreInOrder
  <2>3. ASSUME NEW j \in Replica, NEW m, HandleCommit(j, m)
        PROVE  \A b \in commit_quorums'[i] :
                 IsPrepared(log'[i], prepare_quorums'[i], b[1], b[2])
    <3>1. CASE j # i
      BY <2>2, <2>3, <3>1, CommitSteps DEF AgreementInv
    <3>2. CASE j = i
      <4>1. IsPrepared(log[i], prepare_quorums[i], m.op_number, m.request_digest)
        BY <2>3, <3>2, VoteInOrder DEF HandleCommit
      <4>2. commit_quorums'[i] \subseteq commit_quorums[i]
              \cup {<<m.op_number, m.request_digest, m.replica_id>>}
        BY <2>3, <3>2, CommitSteps DEF AgreementInv
      <4>3. \A b \in commit_quorums'[i] :
              \/ b \in commit_quorums[i]
              \/ b[1] = m.op_number /\ b[2] = m.request_digest
        BY <4>2
      <4> QED  BY <2>1, <4>1, <4>3 DEF QuorumsAreInOrder
    <3> QED  BY <3>1, <3>2
  <2> QED  BY <2>2, <2>3, QuorumsChange
<1> QED  BY <1>2, <1>3 DEF QuorumsAreInOrder

\* What a replica has announced: the Commit of every prepared batch.
Announced(i) ==
  F > 0 => \A k \in 1..Len(log[i]) :
             IsPrepared(log[i], prepare_quorums[i], k, log[i][k].request_digest)
               => Vote("Commit", k, log[i][k].request_digest, i) \in network

\* A batch becomes prepared only when main handles a Prepare, never when it
\* logs a PrePrepare, and the handler sends the Commit.
LEMMA AnnouncedStays ==
  ASSUME TypeOK, TypeOK', AgreementInv, QuorumsAreInOrder, [Next]_vars,
         NEW i \in Replica \ Late, Announced(i)
  PROVE  Announced(i)'
<1> SUFFICES ASSUME F > 0, NEW k \in 1..Len(log'[i]),
                    IsPrepared(log'[i], prepare_quorums'[i], k, log'[i][k].request_digest)
             PROVE  Vote("Commit", k, log'[i][k].request_digest, i) \in network'
  BY DEF Announced
<1> DEFINE digest == log'[i][k].request_digest
<1>1. Grows
  BY AgreementStep
<1>2. k \in 1..Len(log[i])
  <2>1. CASE UNCHANGED log
    BY <2>1
  <2>2. CASE UNCHANGED prepare_quorums
    <3>1. Cardinality(Voters(prepare_quorums[i], k, digest)) >= 2 * F
      BY <2>2 DEF IsPrepared
    <3>2. Cardinality(Voters(prepare_quorums[i], k, digest)) \in Nat
      BY FS_Subset, FS_CardinalityType, PbftAssumption DEF Voters
    <3> HIDE DEF digest
    <3>3. Cardinality(Voters(prepare_quorums[i], k, digest)) > 0
      BY <3>1, <3>2, PbftAssumption
    <3>4. PICK r \in Replica : <<k, digest, r>> \in prepare_quorums[i]
      BY <3>3, QuorumHasVoter
    <3> QED  BY <3>4 DEF QuorumsAreInOrder
  <2>3. ASSUME NEW j \in Replica, NEW m, HandlePrepare(j, m)  PROVE UNCHANGED log
    BY <2>3 DEF HandlePrepare, orderVars
  <2> QED  BY <2>1, <2>2, <2>3, QuorumsChange
<1>3. digest = log[i][k].request_digest
  BY <1>1, <1>2 DEF Grows
<1>4. CASE IsPrepared(log[i], prepare_quorums[i], k, digest)
  BY <1>1, <1>2, <1>3, <1>4 DEF Announced, Grows
<1>5. CASE ~IsPrepared(log[i], prepare_quorums[i], k, digest)
  <2> HIDE DEF digest
  <2>1. Cardinality(Voters(prepare_quorums'[i], k, digest)) >= 2 * F
    BY DEF IsPrepared, digest
  <2>2. Voters(prepare_quorums'[i], k, digest) # Voters(prepare_quorums[i], k, digest)
    BY <1>2, <1>5, <2>1 DEF IsPrepared
  <2>3. PICK j \in Replica : \E m \in Inbox(j) : HandlePrepare(j, m)
    BY <2>2, QuorumsChange
  <2>4. j = i
    BY <2>2, <2>3, PrepareSteps DEF AgreementInv
  <2>5. PICK m \in Inbox(i) : HandlePrepare(i, m)
    BY <2>3, <2>4
  <2> DEFINE prepares == prepare_quorums[i]
               \cup {<<m.op_number, m.request_digest, m.replica_id>>}
  <2>6. /\ prepare_quorums' = [prepare_quorums EXCEPT ![i] = prepares]
        /\ Process(i, {m}, IF IsPrepared(log[i], prepares, m.op_number, m.request_digest)
                           THEN {Vote("Commit", m.op_number, m.request_digest, i)} ELSE {})
    BY <2>2, <2>5 DEF HandlePrepare
  <2>7. prepare_quorums'[i] = prepares
    BY <2>6 DEF TypeOK, ReplicaTypeOK
  <2>8. k = m.op_number /\ digest = m.request_digest
    BY <2>2, <2>7 DEF Voters
  <2> HIDE DEF prepares
  <2>9. IsPrepared(log[i], prepares, m.op_number, m.request_digest)
    BY <1>2, <2>1, <2>7, <2>8 DEF IsPrepared
  <2> QED  BY <2>6, <2>8, <2>9 DEF Process, digest
<1> QED  BY <1>4, <1>5

\* Where no vote overtakes, no replica holds back the Commit of a prepared
\* batch nor leaves the next batch committed and not executed.
THEOREM NothingHeldBack == Spec => []NothingIsHeldBack
<1> DEFINE Inv == QuorumsAreInOrder
             /\ \A i \in Replica \ Late : Announced(i) /\ NextIsUncommitted(i)
<1>1. Init => Inv
  <2> SUFFICES ASSUME Init, NEW i \in Replica \ Late
               PROVE  QuorumsAreInOrder /\ Announced(i) /\ NextIsUncommitted(i)
    BY DEF Init, ReplicaInit, QuorumsAreInOrder
  <2>1. log[i] = <<>> /\ \A j \in Replica : prepare_quorums[j] = {} /\ commit_quorums[j] = {}
    BY DEF Init, ReplicaInit
  <2> QED  BY <2>1, InitUncommitted DEF QuorumsAreInOrder, Announced
<1>2. TypeOK /\ TypeOK' /\ AgreementInv /\ Inv /\ [Next]_vars => Inv'
  <2> SUFFICES ASSUME TypeOK, TypeOK', AgreementInv, Inv, [Next]_vars
               PROVE  Inv'
    OBVIOUS
  <2>1. QuorumsAreInOrder'
    BY QuorumsStayInOrder
  <2>2. ASSUME NEW i \in Replica \ Late  PROVE Announced(i)' /\ NextIsUncommitted(i)'
    <3>1. CommitsFollow(i)
      BY DEF QuorumsAreInOrder, CommitsFollow
    <3> QED  BY <3>1, AnnouncedStays, NextStaysUncommitted
  <2> QED  BY <2>1, <2>2
<1>3. Inv => NothingIsHeldBack
  BY DEF Announced, NextIsUncommitted, NothingIsHeldBack
<1> HIDE DEF Inv
<1> QED  BY <1>1, <1>2, <1>3, TypeCorrect, AgreementInvariant, PTL DEF Spec

\* "we will check that when our own Prepare is ready" holds in a run in which
\* no vote overtakes at any replica.
THEOREM PreparedAnnouncedInOrder ==
  ASSUME Late = {}, F > 0
  PROVE  Spec => []PreparedIsAnnounced
<1>1. NothingIsHeldBack => PreparedIsAnnounced
  BY DEF NothingIsHeldBack, PreparedIsAnnounced
<1> QED  BY <1>1, NothingHeldBack, PTL

\* "no need to check committed, same as above" holds in such a run too, and
\* whatever overtakes if no more than 2F+1 replicas run.
THEOREM CommittedExecutedInOrder ==
  ASSUME Late = {} \/ Cardinality(Replica) <= 2 * F + 1
  PROVE  Spec => []CommittedIsExecuted
<1> DEFINE Inv == \A i \in Replica : NextIsUncommitted(i)
<1>1. Inv => CommittedIsExecuted
  BY DEF NextIsUncommitted, CommittedIsExecuted
<1>2. CASE Late = {}
  <2>1. NothingIsHeldBack => Inv
    BY <1>2 DEF NothingIsHeldBack, NextIsUncommitted
  <2> HIDE DEF Inv
  <2> QED  BY <1>1, <2>1, NothingHeldBack, PTL
<1>3. CASE Cardinality(Replica) <= 2 * F + 1
  <2>1. Init => Inv
    BY InitUncommitted
  <2>2. TypeOK /\ TypeOK' /\ AgreementInv /\ Inv /\ [Next]_vars => Inv'
    BY <1>3, NextStaysUncommitted
  <2> HIDE DEF Inv
  <2> QED  BY <1>1, <2>1, <2>2, TypeCorrect, AgreementInvariant, PTL DEF Spec
<1> QED  BY <1>2, <1>3

-------------------------------------------------------------------------------
(* Counting in channels. *)

LEMMA PositionsAreFinite ==
  ASSUME NEW S, NEW q \in Seq(S), NEW m
  PROVE  /\ IsFiniteSet(Positions(q, m))
         /\ Count(q, m) \in Nat
         /\ Count(q, m) = 0 <=> \A k \in 1..Len(q) : q[k] # m
<1>1. Len(q) \in Nat
  OBVIOUS
<1>2. Positions(q, m) \in SUBSET (1..Len(q))
  BY DEF Positions
<1>3. IsFiniteSet(Positions(q, m))
  <2>1. IsFiniteSet(1..Len(q))
    BY <1>1, FS_Interval
  <2> QED  BY <1>2, <2>1, FS_Subset
<1>4. Count(q, m) \in Nat /\ (Count(q, m) = 0 <=> Positions(q, m) = {})
  BY <1>3, FS_CardinalityType, FS_EmptySet DEF Count
<1> QED  BY <1>3, <1>4 DEF Positions

LEMMA ShiftedPositions ==
  ASSUME NEW P \in SUBSET Nat, IsFiniteSet(P), NEW n \in Nat
  PROVE  /\ IsFiniteSet({n + k : k \in P})
         /\ Cardinality({n + k : k \in P}) = Cardinality(P)
<1> DEFINE shifted == {n + k : k \in P}
           shift == [k \in P |-> n + k]
<1>1. shift \in Bijection(P, shifted)
  <2>1. /\ shift \in [P -> shifted]
        /\ \A a, b \in P : shift[a] = shift[b] => a = b
        /\ \A t \in shifted : \E k \in P : shift[k] = t
    OBVIOUS
  <2> HIDE DEF shift, shifted
  <2> QED  BY <2>1, Fun_IsBij
<1>2. ExistsBijection(P, shifted)
  <2> HIDE DEF shift, shifted
  <2> QED  BY <1>1, Fun_ExistsBij
<1> HIDE DEF shifted
<1>3. IsFiniteSet(shifted) /\ Cardinality(shifted) = Cardinality(P)
  BY <1>2, FS_Bijection
<1> QED  BY <1>3 DEF shifted

LEMMA JoinedCount ==
  ASSUME NEW S, NEW q \in Seq(S), NEW r \in Seq(S), NEW m
  PROVE  /\ q \o r \in Seq(S)
         /\ Count(q \o r, m) = Count(q, m) + Count(r, m)
<1> DEFINE shifted == {Len(q) + k : k \in Positions(r, m)}
<1>1. /\ Len(q) \in Nat
      /\ Len(r) \in Nat
      /\ q \o r \in Seq(S)
      /\ Len(q \o r) = Len(q) + Len(r)
      /\ \A k \in 1..Len(q) : (q \o r)[k] = q[k]
      /\ \A k \in 1..Len(r) : (q \o r)[Len(q) + k] = r[k]
  OBVIOUS
<1>2. /\ IsFiniteSet(Positions(q, m)) /\ Count(q, m) \in Nat
      /\ IsFiniteSet(Positions(r, m)) /\ Count(r, m) \in Nat
  BY PositionsAreFinite
<1>3. IsFiniteSet(shifted) /\ Cardinality(shifted) = Count(r, m)
  <2>1. Positions(r, m) \in SUBSET Nat
    BY DEF Positions
  <2> QED  BY <1>1, <1>2, <2>1, ShiftedPositions DEF Count
<1>4. Positions(q \o r, m) = Positions(q, m) \cup shifted
  <2>1. ASSUME NEW k \in Positions(q \o r, m)
        PROVE  k \in Positions(q, m) \cup shifted
    <3>1. k \in 1..(Len(q) + Len(r)) /\ (q \o r)[k] = m
      BY <1>1 DEF Positions
    <3>2. CASE k <= Len(q)
      BY <1>1, <3>1, <3>2 DEF Positions
    <3>3. CASE ~(k <= Len(q))
      <4>1. k - Len(q) \in 1..Len(r) /\ Len(q) + (k - Len(q)) = k
        BY <1>1, <3>1, <3>3
      <4>2. k - Len(q) \in Positions(r, m)
        BY <1>1, <3>1, <4>1 DEF Positions
      <4> QED  BY <4>1, <4>2
    <3> QED  BY <3>2, <3>3
  <2>2. ASSUME NEW k \in Positions(q, m) \cup shifted
        PROVE  k \in Positions(q \o r, m)
    BY <1>1 DEF Positions
  <2> QED  BY <2>1, <2>2
<1>5. Positions(q, m) \cap shifted = {}
  BY <1>1 DEF Positions
<1>6. Cardinality(Positions(q, m) \cup shifted) = Count(q, m) + Count(r, m)
  <2> HIDE DEF shifted
  <2>1. Cardinality(Positions(q, m) \cup shifted)
          = Cardinality(Positions(q, m)) + Cardinality(shifted)
              - Cardinality(Positions(q, m) \cap shifted)
    BY <1>2, <1>3, FS_Union
  <2>2. Cardinality(Positions(q, m) \cap shifted) = 0
    BY <1>5, FS_EmptySet
  <2> QED  BY <1>2, <1>3, <2>1, <2>2 DEF Count
<1> HIDE DEF shifted
<1> QED  BY <1>1, <1>4, <1>6 DEF Count

LEMMA SingletonCount ==
  ASSUME NEW x, NEW m
  PROVE  Count(<<x>>, m) = IF x = m THEN 1 ELSE 0
<1>1. Positions(<<x>>, m) = IF x = m THEN {1} ELSE {}
  BY DEF Positions
<1> QED  BY <1>1, FS_Singleton, FS_EmptySet DEF Count

LEMMA AppendedCount ==
  ASSUME NEW S, NEW q \in Seq(S), NEW x \in S, NEW m
  PROVE  /\ Append(q, x) \in Seq(S)
         /\ Count(Append(q, x), m) = Count(q, m) + (IF x = m THEN 1 ELSE 0)
<1>1. <<x>> \in Seq(S) /\ Append(q, x) = q \o <<x>>
  OBVIOUS
<1>2. /\ q \o <<x>> \in Seq(S)
      /\ Count(q \o <<x>>, m) = Count(q, m) + Count(<<x>>, m)
  <2> DEFINE r == <<x>>
  <2>1. r \in Seq(S)
    BY <1>1
  <2> HIDE DEF r
  <2>2. q \o r \in Seq(S) /\ Count(q \o r, m) = Count(q, m) + Count(r, m)
    BY <2>1, JoinedCount
  <2> QED  BY <2>2 DEF r
<1>3. Count(<<x>>, m) = IF x = m THEN 1 ELSE 0
  BY SingletonCount
<1> QED  BY <1>1, <1>2, <1>3

LEMMA TakenCount ==
  ASSUME NEW S, NEW q \in Seq(S), q # <<>>, NEW m
  PROVE  /\ Tail(q) \in Seq(S)
         /\ Head(q) \in S
         /\ Count(q, m) = Count(Tail(q), m) + (IF Head(q) = m THEN 1 ELSE 0)
<1>1. /\ Head(q) \in S
      /\ Tail(q) \in Seq(S)
      /\ <<Head(q)>> \in Seq(S)
      /\ q = <<Head(q)>> \o Tail(q)
  OBVIOUS
<1>2. Count(q, m) = Count(<<Head(q)>>, m) + Count(Tail(q), m)
  <2> DEFINE a == <<Head(q)>>
             b == Tail(q)
  <2>1. a \in Seq(S) /\ b \in Seq(S) /\ q = a \o b
    BY <1>1
  <2> HIDE DEF a, b
  <2>2. Count(a \o b, m) = Count(a, m) + Count(b, m)
    BY <2>1, JoinedCount
  <2>3. Count(q, m) = Count(a, m) + Count(b, m)
    BY <2>1, <2>2
  <2> QED  BY <2>3 DEF a, b
<1>3. Count(Tail(q), m) \in Nat
  BY ONLY <1>1, PositionsAreFinite
<1>4. Count(<<Head(q)>>, m) = IF Head(q) = m THEN 1 ELSE 0
  BY ONLY SingletonCount
<1> QED  BY <1>1, <1>2, <1>3, <1>4

\* InOrderOfOp lists every message once.
LEMMA OrderedCount ==
  ASSUME NEW out, IsFiniteSet(out),
         \A n \in out : n.op_number \in Nat,
         \A n1, n2 \in out : n1.op_number = n2.op_number => n1 = n2
  PROVE  /\ InOrderOfOp(out) \in Seq(out)
         /\ \A m : Count(InOrderOfOp(out), m) = IF m \in out THEN 1 ELSE 0
<1> DEFINE below == [m \in out |-> {n \in out : n.op_number < m.op_number}]
           N == Cardinality(out)
           q == InOrderOfOp(out)
<1>1. N \in Nat
  BY FS_CardinalityType
<1>2. /\ \A m \in out : Cardinality(below[m]) \in 0..(N - 1)
      /\ \A x, y \in out : Cardinality(below[x]) = Cardinality(below[y]) => x = y
      /\ \A n \in 0..(N - 1) : \E m \in out : Cardinality(below[m]) = n
  <2>1. /\ below \in [out -> SUBSET out]
        /\ \A x \in out : x \notin below[x]
        /\ \A x, y \in out : x # y => x \in below[y] \/ y \in below[x]
        /\ \A x, y \in out : x \in below[y] => below[x] \subseteq below[y]
    OBVIOUS
  <2> HIDE DEF below
  <2> QED  BY <2>1, RankIsPosition
<1>3. /\ DOMAIN q = 1..N
      /\ \A k \in 1..N : q[k] = CHOOSE m \in out : Cardinality(below[m]) = k - 1
  BY DEF InOrderOfOp
<1> HIDE DEF below, q, N
<1>4. ASSUME NEW k \in 1..N
      PROVE  q[k] \in out /\ Cardinality(below[q[k]]) = k - 1
  <2>1. \E m \in out : Cardinality(below[m]) = k - 1
    BY <1>1, <1>2
  <2> QED  BY <1>3, <2>1
<1>5. q \in Seq(out) /\ Len(q) = N
  <2>1. q \in [1..N -> out]
    <3>1. q = [k \in 1..N |->
                 CHOOSE m \in out : Cardinality({n \in out : n.op_number < m.op_number}) = k - 1]
      BY ONLY DEF q, InOrderOfOp, N
    <3> QED  BY <1>4, <3>1
  <2> QED  BY <1>1, <2>1, FunctionIsSequence
<1>6. ASSUME NEW m
      PROVE  Count(q, m) = IF m \in out THEN 1 ELSE 0
  <2>1. CASE m \in out
    <3>1. PICK k \in 1..N : k = Cardinality(below[m]) + 1
      BY <1>1, <1>2, <2>1
    <3>2. q[k] = m
      <4>1. Cardinality(below[q[k]]) = Cardinality(below[m])
        BY <1>2, <1>4, <2>1, <3>1
      <4> QED  BY <1>2, <1>4, <2>1, <4>1
    <3>3. \A j \in 1..N : q[j] = m => j = k
      BY <1>1, <1>2, <1>4, <2>1, <3>1
    <3>4. Positions(q, m) = {k}
      BY <1>5, <3>2, <3>3 DEF Positions
    <3> QED  BY <2>1, <3>4, FS_Singleton DEF Count
  <2>2. CASE m \notin out
    <3>1. Positions(q, m) = {}
      BY <1>4, <1>5, <2>2 DEF Positions
    <3> QED  BY <2>2, <3>1, FS_EmptySet DEF Count
  <2> QED  BY <2>1, <2>2
<1> QED  BY <1>5, <1>6 DEF q

-------------------------------------------------------------------------------
(* What a handler hands over. *)

LEMMA RequestsAreNoMessages ==
  ASSUME NEW m \in Request
  PROVE  m \notin Message
<1>1. DOMAIN m = {"client", "request_number"}
  BY DEF Request
<1>2. ASSUME m \in Message
      PROVE  "type" \in DOMAIN m
  BY <1>2 DEF Message, PrePrepareMessage, VoteMessage
<1> QED  BY <1>1, <1>2

\* Replica i takes m and hands over the messages of out, which are its own, new,
\* and one for each op number.
HandsOver(i, m, out) ==
  /\ signing'[i] = (signing[i] \ {m}) \cup out
  /\ \A j \in Replica \ {i} : signing'[j] = signing[j]
  /\ network' = network \cup out
  /\ out \cap network = {}
  /\ IsFiniteSet(out)
  /\ \A n \in out : Sender(n) = i /\ n.op_number \in Nat
  /\ \A n1, n2 \in out : n1.op_number = n2.op_number => n1 = n2

LEMMA HandsOverNothing ==
  ASSUME TypeOK, NEW i \in Replica, NEW m,
         Process(i, {m}, {}) \/ (UNCHANGED <<signing, network>> /\ m \notin signing[i])
  PROVE  HandsOver(i, m, {})
BY FS_EmptySet DEF HandsOver, Process, TypeOK, ReplicaTypeOK

LEMMA HandsOverOne ==
  ASSUME TypeOK, NEW i \in Replica, NEW m, NEW new, new \notin network,
         Sender(new) = i, new.op_number \in Nat,
         Process(i, {m}, {new}) \/ (Process(i, {}, {new}) /\ m \notin signing[i])
  PROVE  HandsOver(i, m, {new})
<1>1. IsFiniteSet({new})
  BY FS_Singleton
<1> QED  BY <1>1 DEF HandsOver, Process, TypeOK, ReplicaTypeOK

\* The primary's next batch was not sent before.
LEMMA NextBatchIsNew ==
  ASSUME TypeOK, BatchesAreUnique, NEW batch
  PROVE  /\ PrePrepare(op_number + 1, batch) \notin network
         /\ Sender(PrePrepare(op_number + 1, batch)) = Primary
         /\ PrePrepare(op_number + 1, batch).op_number \in Nat
<1>1. op_number \in Nat
  BY DEF TypeOK, ReplicaTypeOK
<1>2. /\ PrePrepare(op_number + 1, batch).type = "PrePrepare"
      /\ PrePrepare(op_number + 1, batch).op_number = op_number + 1
  BY DEF PrePrepare
<1> QED  BY <1>1, <1>2 DEF BatchesAreUnique, Sender

LEMMA RequestHandsOver ==
  ASSUME TypeOK, AgreementInv, NEW m \in Request, HandleRequest(m)
  PROVE  \E out : HandsOver(Primary, m, out)
<1>1. m \notin signing[Primary] /\ Primary \in Replica
  BY RequestsAreNoMessages, PbftAssumption DEF TypeOK, ReplicaTypeOK
<1>2. CASE UNCHANGED <<signing, network>>
  BY <1>1, <1>2, HandsOverNothing
<1>3. CASE Process(Primary, {}, {PrePrepare(op_number + 1, Append(requests, m))})
  BY <1>1, <1>3, HandsOverOne, NextBatchIsNew DEF AgreementInv
<1> QED  BY <1>2, <1>3 DEF HandleRequest

LEMMA PrePrepareHandsOver ==
  ASSUME TypeOK, AgreementInv, NEW i \in Replica, NEW m, HandlePrePrepare(i, m)
  PROVE  \E out : HandsOver(i, m, out)
<1>1. CASE Process(i, {m}, {})
  BY <1>1, HandsOverNothing
<1>2. CASE IsDue(i, m) /\ i # Primary
  <2>1. PICK last \in m.op_number..(m.op_number + Cardinality(reorder[i])) :
          Process(i, {m},
            {Vote("Prepare", k, AcceptedLog(i, m, last)[k].request_digest, i) :
               k \in m.op_number..last})
    BY <1>2 DEF HandlePrePrepare
  <2> DEFINE vote == [k \in m.op_number..last |->
                        Vote("Prepare", k, AcceptedLog(i, m, last)[k].request_digest, i)]
             votes == {Vote("Prepare", k, AcceptedLog(i, m, last)[k].request_digest, i) :
                         k \in m.op_number..last}
  <2>2. m.op_number \in Nat /\ m.op_number = Len(log[i]) + 1 /\ Len(log[i]) \in Nat
    BY <1>2, LogType DEF IsDue, NextEntry
  <2>3. /\ \A n \in votes : /\ n.type = "Prepare"
                            /\ n.replica_id = i
                            /\ n.op_number \in m.op_number..last
        /\ \A n1, n2 \in votes : n1.op_number = n2.op_number => n1 = n2
    BY DEF Vote
  <2>4. vote \in Surjection(m.op_number..last, votes)
    <3>1. /\ vote \in [m.op_number..last -> votes]
          /\ \A n \in votes : \E k \in m.op_number..last : vote[k] = n
      OBVIOUS
    <3> HIDE DEF vote, votes
    <3> QED  BY <3>1, Fun_IsSurj
  <2>5. last \in Int
    BY <2>2
  <2> HIDE DEF vote, votes
  <2>6. IsFiniteSet(votes)
    <3>1. IsFiniteSet(m.op_number..last)
      BY <2>2, <2>5, FS_Interval
    <3> QED  BY <2>4, <3>1, FS_Surjection
  <2>7. ASSUME NEW n \in votes
        PROVE  n \notin network
    BY <2>2, <2>3 DEF AgreementInv, VotesHaveEntries
  <2>8. \A n \in votes : Sender(n) = i /\ n.op_number \in Nat
    BY <2>2, <2>3 DEF Sender
  <2>9. Process(i, {m}, votes)
    BY <2>1 DEF votes
  <2>10. HandsOver(i, m, votes)
    BY <2>3, <2>6, <2>7, <2>8, <2>9 DEF HandsOver, Process, TypeOK, ReplicaTypeOK
  <2> QED  BY <2>10
<1> QED  BY <1>1, <1>2 DEF HandlePrePrepare

LEMMA PrepareHandsOver ==
  ASSUME TypeOK, AgreementInv, NEW i \in Replica, NEW m, HandlePrepare(i, m)
  PROVE  \E out : HandsOver(i, m, out)
<1>1. CASE Process(i, {m}, {})
  BY <1>1, HandsOverNothing
<1> DEFINE commit == Vote("Commit", m.op_number, m.request_digest, i)
<1>2. CASE /\ ~IsPrepared(log[i], prepare_quorums[i], m.op_number, m.request_digest)
           /\ Process(i, {m}, {commit})
  <2>1. m.op_number \in Nat
    BY PrepareSteps DEF AgreementInv, VoteMessage, OpNumber
  <2>2. /\ commit.type = "Commit"
        /\ commit.op_number = m.op_number
        /\ commit.request_digest = m.request_digest
        /\ commit.replica_id = i
    BY DEF Vote
  <2> HIDE DEF commit
  <2>3. commit \notin network
    BY <1>2, <2>2 DEF AgreementInv, CommitsArePrepared
  <2>4. Sender(commit) = i
    BY <2>2 DEF Sender
  <2> QED  BY <1>2, <2>1, <2>2, <2>3, <2>4, HandsOverOne
<1> QED  BY <1>1, <1>2 DEF HandlePrepare

LEMMA CommitHandsOver ==
  ASSUME TypeOK, AgreementInv, NEW i \in Replica, NEW m, HandleCommit(i, m)
  PROVE  \E out : HandsOver(i, m, out)
<1>1. CASE Process(i, {m}, {})
  BY <1>1, HandsOverNothing
<1>2. CASE i = Primary /\ Process(i, {m}, {PrePrepare(op_number + 1, requests)})
  BY <1>2, HandsOverOne, NextBatchIsNew DEF AgreementInv
<1> QED  BY <1>1, <1>2 DEF HandleCommit, HasBacklog

-------------------------------------------------------------------------------
(* The threads of one replica. *)

\* The main thread of Focus does what PbftReplica lets it do, and the other
\* threads leave its state alone.
LEMMA PipelineStep == RequestsAtPrimary /\ TypeOK /\ PipelineTypeOK /\ [PipelineNext]_allVars => [Next]_vars
<1> SUFFICES ASSUME RequestsAtPrimary, PipelineTypeOK, [PipelineNext]_allVars  PROVE [Next]_vars
  OBVIOUS
<1>1. Focus \in Replica
  BY PipelineAssumption, ReplicaAssumption
<1>2. CASE ListenPoll \/ CryptoTake \/ CryptoBroadcast \/ CryptoReturn \/ UNCHANGED allVars
  BY <1>2 DEF ListenPoll, CryptoTake, CryptoBroadcast, CryptoReturn, allVars
<1>3. CASE FocusPoll
  <2> DEFINE m == Head(to_main)
  <2>1. CASE m \in Request /\ HandleRequest(m)
    <3>1. 1 \in 1..Len(to_main) /\ to_main[1] = m
      BY <1>3 DEF FocusPoll, PipelineTypeOK
    <3>2. Focus = Primary
      BY <2>1, <3>1 DEF RequestsAtPrimary
    <3> QED  BY <1>1, <1>3, <2>1, <3>2 DEF FocusPoll, Next, ReplicaNext, MainPoll
  <2>2. CASE m \in Inbox(Focus) /\ (HandlePrePrepare(Focus, m) \/ HandlePrepare(Focus, m) \/ HandleCommit(Focus, m))
    BY <1>1, <1>3, <2>2 DEF FocusPoll, Next, ReplicaNext, MainPoll
  <2> QED  BY <1>3, <2>1, <2>2 DEF FocusPoll
<1>4. ASSUME NEW i \in Replica \ {Focus}, OtherNext(i)  PROVE [Next]_vars
  BY <1>4 DEF OtherNext, Next, ReplicaNext, MainPoll
<1>5. ASSUME NEW c \in Client, ClientNext(c)  PROVE [Next]_vars
  BY <1>5 DEF Next
<1> QED  BY <1>2, <1>3, <1>4, <1>5 DEF PipelineNext

LEMMA HeldIsFinite ==
  ASSUME HandOverInv, NEW m
  PROVE  /\ IsFiniteSet(Held(m))
         /\ Cardinality(Held(m)) \in Nat
         /\ Cardinality(Held(m)) = 0 <=> Held(m) = {}
BY FS_Subset, FS_CardinalityType, FS_EmptySet DEF HandOverInv, Held

\* The parts of Copies, for any message.
LEMMA CopyTypes ==
  ASSUME HandOverInv, NEW m
  PROVE  /\ Count(to_crypto, m) \in Nat
         /\ Cardinality(Held(m)) \in Nat
         /\ Count(to_main, m) \in Nat
BY HeldIsFinite, PositionsAreFinite DEF HandOverInv, PipelineTypeOK

LEMMA NoCopiesOfUnsent ==
  ASSUME HandOverInv, NEW m \in Message, m \notin network
  PROVE  Copies(m) = 0
<1>1. Count(to_crypto, m) = 0
  BY PositionsAreFinite DEF HandOverInv, PipelineTypeOK
<1>2. Held(m) = {}
  BY DEF HandOverInv, PipelineTypeOK, Held
<1>3. Count(to_main, m) = 0
  BY PositionsAreFinite, RequestsAreNoMessages DEF HandOverInv, PipelineTypeOK
<1>4. Cardinality(Held(m)) = 0
  BY <1>2, HeldIsFinite
<1> QED  BY <1>1, <1>3, <1>4 DEF Copies

LEMMA ListenKeeps ==
  ASSUME TypeOK, HandOverInv, ListenPoll
  PROVE  HandOverInv'
<1>1. UNCHANGED <<network, signing, hands, broadcast>>
  BY DEF ListenPoll, vars, networkVars, replicaVars
<1>2. \A m : Held(m)' = Held(m)
  BY <1>1 DEF Held
<1>3. CASE UNCHANGED to_main /\ \E m \in Received(Focus) :
              Arrives(m) /\ to_crypto' = Append(to_crypto, m)
  <2>1. PICK m \in Received(Focus) : Arrives(m) /\ to_crypto' = Append(to_crypto, m)
    BY <1>3
  <2>2. m \in network /\ ~IsOwn(m)
    BY <2>1 DEF Received, IsOwn
  <2>3. arrived' \subseteq arrived \cup {m} /\ repeats' \in 0..MaxRepeat
    BY <2>1, PipelineAssumption DEF Arrives, HandOverInv, PipelineTypeOK
  <2>4. to_crypto' \in Seq(network)
    BY <2>1, <2>2 DEF HandOverInv, PipelineTypeOK
  <2>5. ASSUME NEW n \in network, IsOwn(n)
        PROVE  Count(to_crypto, n)' = Count(to_crypto, n)
    <3>1. to_crypto \in Seq(network)
      BY DEF HandOverInv, PipelineTypeOK
    <3>2. Count(Append(to_crypto, m), n) = Count(to_crypto, n) + 0
      BY <2>2, <2>5, <3>1, AppendedCount
    <3> QED  BY <2>1, <3>1, <3>2, PositionsAreFinite
  <2>6. PipelineTypeOK'
    BY <1>1, <1>3, <2>2, <2>4, <2>3 DEF HandOverInv, PipelineTypeOK
  <2>7. OwnCopiesReturnOnce'
    BY <1>1, <1>2, <1>3, <2>5 DEF HandOverInv, OwnCopiesReturnOnce, Copies, IsOwn
  <2> QED  BY <1>1, <1>3, <2>6, <2>7
     DEF HandOverInv, RequestsAtPrimary, ReturnedIsBroadcast, HandledIsBroadcast, IsOwn
<1>4. CASE Focus = Primary /\ UNCHANGED <<arrived, repeats, to_crypto>>
           /\ \E m \in Request : to_main' = Append(to_main, m)
  <2>1. PICK m \in Request : to_main' = Append(to_main, m)
    BY <1>4
  <2>2. m \notin network
    BY RequestsAreNoMessages DEF TypeOK, NetworkTypeOK
  <2>3. to_main \in Seq(network \cup Request) /\ to_main' \in Seq(network \cup Request)
    BY <2>1 DEF HandOverInv, PipelineTypeOK
  <2>4. ASSUME NEW n \in network
        PROVE  Count(to_main, n)' = Count(to_main, n)
    <3>1. Count(Append(to_main, m), n) = Count(to_main, n) + 0
      BY <2>2, <2>3, AppendedCount
    <3> QED  BY <2>1, <2>3, <3>1, PositionsAreFinite
  <2>5. PipelineTypeOK'
    BY <1>1, <1>4, <2>3 DEF HandOverInv, PipelineTypeOK
  <2>6. OwnCopiesReturnOnce'
    BY <1>1, <1>2, <1>4, <2>4 DEF HandOverInv, OwnCopiesReturnOnce, Copies, IsOwn
  <2>7. ReturnedIsBroadcast'
    <3>1. \A k \in 1..Len(to_main') : to_main'[k] = m \/ (k \in 1..Len(to_main) /\ to_main'[k] = to_main[k])
      BY <2>1, <2>3
    <3> QED  BY <1>1, <2>2, <3>1 DEF HandOverInv, ReturnedIsBroadcast, IsOwn
  <2> QED  BY <1>1, <1>4, <2>5, <2>6, <2>7
     DEF HandOverInv, RequestsAtPrimary, HandledIsBroadcast, IsOwn
<1> QED  BY <1>3, <1>4 DEF ListenPoll

\* The crypto threads move copies from one place to the next.
LEMMA TakeCopies ==
  ASSUME TypeOK, HandOverInv, CryptoTake, NEW n \in network, Copies(n) <= 1
  PROVE  Copies(n)' = Copies(n)
<1> PICK m : m = Head(to_crypto)
  OBVIOUS
<1> PICK t \in Crypto : hands' = hands \cup {[thread |-> t, message |-> m, sent |-> FALSE]}
  BY DEF CryptoTake
<1>1. UNCHANGED <<network, to_main>>
  BY DEF CryptoTake, vars, networkVars
<1>2. /\ to_crypto \in Seq(network) /\ to_crypto # <<>>
      /\ to_crypto' \in Seq(network)
      /\ hands' = hands \cup {[thread |-> t, message |-> m, sent |-> FALSE]}
  BY DEF CryptoTake, HandOverInv, PipelineTypeOK
<1>3. Count(to_crypto, n) = Count(to_crypto, n)' + (IF m = n THEN 1 ELSE 0)
  BY <1>2, TakenCount DEF CryptoTake
<1>4. Count(to_main, n)' = Count(to_main, n)
  BY <1>1
<1>5. Count(to_crypto, n)' \in Nat
  BY <1>2, PositionsAreFinite
<1>6. CASE m # n
  <2>1. Held(n)' = Held(n)
    BY <1>2, <1>6 DEF Held
  <2> QED  BY <1>3, <1>4, <1>5, <1>6, <2>1, CopyTypes DEF Copies
<1>7. CASE m = n
  <2>1. Cardinality(Held(n)) = 0 /\ Count(to_main, n) = 0 /\ Count(to_crypto, n)' = 0 /\ Copies(n) = 1
    BY <1>3, <1>5, <1>7, CopyTypes DEF Copies
  <2>2. Held(n) = {}
    BY <2>1, HeldIsFinite
  <2>3. Held(n)' = {[thread |-> t, message |-> m, sent |-> FALSE]}
    BY <1>2, <1>7, <2>2 DEF Held
  <2>4. Cardinality(Held(n)') = 1
    BY <2>3, FS_Singleton
  <2>5. Cardinality(Held(n))' = 1
    BY <2>4
  <2> QED  BY <1>4, <2>1, <2>5 DEF Copies
<1> QED  BY <1>6, <1>7

LEMMA TakeKeeps ==
  ASSUME TypeOK, HandOverInv, CryptoTake
  PROVE  HandOverInv'
<1>1. UNCHANGED <<network, signing, arrived, repeats, to_main, broadcast>>
  BY DEF CryptoTake, vars, networkVars, replicaVars
<1>2. PICK m : m = Head(to_crypto)
  OBVIOUS
<1> PICK t \in Crypto : hands' = hands \cup {[thread |-> t, message |-> m, sent |-> FALSE]}
  BY <1>2 DEF CryptoTake
<1>3. /\ to_crypto \in Seq(network) /\ to_crypto # <<>> /\ m \in network
      /\ to_crypto' \in Seq(network)
      /\ hands' = hands \cup {[thread |-> t, message |-> m, sent |-> FALSE]}
  BY <1>2 DEF CryptoTake, HandOverInv, PipelineTypeOK
<1>5. ASSUME NEW n \in network, IsOwn(n)
      PROVE  Copies(n)' = Copies(n)
  BY <1>5, TakeCopies DEF HandOverInv, OwnCopiesReturnOnce
<1>6. PipelineTypeOK' /\ IsFiniteSet(hands')
  <2>1. IsFiniteSet(hands')
    BY <1>3, FS_AddElement DEF HandOverInv
  <2>2. hands' \subseteq [thread : Crypto, message : network, sent : BOOLEAN]
    <3>1. [thread |-> t, message |-> m, sent |-> FALSE] \in [thread : Crypto, message : network, sent : BOOLEAN]
      BY <1>3
    <3>2. hands \subseteq [thread : Crypto, message : network, sent : BOOLEAN]
      BY DEF HandOverInv, PipelineTypeOK
    <3> QED  BY ONLY <1>3, <3>1, <3>2
  <2> QED  BY <1>1, <1>3, <2>1, <2>2 DEF HandOverInv, PipelineTypeOK
<1>7. OwnCopiesReturnOnce'
  BY <1>1, <1>5 DEF HandOverInv, OwnCopiesReturnOnce, IsOwn
<1>8. ReturnedIsBroadcast'
  BY <1>1, <1>3 DEF HandOverInv, ReturnedIsBroadcast, IsOwn
<1> QED  BY <1>1, <1>6, <1>7, <1>8
   DEF HandOverInv, RequestsAtPrimary, HandledIsBroadcast, IsOwn

LEMMA BroadcastCopies ==
  ASSUME TypeOK, HandOverInv, CryptoBroadcast, NEW n \in network, Copies(n) <= 1
  PROVE  Copies(n)' = Copies(n)
<1>1. UNCHANGED <<to_crypto, to_main>>
  BY DEF CryptoBroadcast
<1>2. PICK h \in hands : hands' = (hands \ {h}) \cup {[h EXCEPT !.sent = TRUE]}
  BY DEF CryptoBroadcast
<1> DEFINE sent == [h EXCEPT !.sent = TRUE]
<1>3. sent.message = h.message
  BY DEF HandOverInv, PipelineTypeOK
<1> HIDE DEF sent
<1>4. hands' = (hands \ {h}) \cup {sent}
  BY <1>2 DEF sent
<1>5. Cardinality(Held(n))' = Cardinality(Held(n))
  <2>1. CASE n # h.message
    <3>1. Held(n)' = Held(n)
      BY <1>3, <1>4, <2>1 DEF Held
    <3> QED  BY <3>1
  <2>2. CASE n = h.message
    <3>1. h \in Held(n)
      BY <2>2 DEF Held
    <3>2. Cardinality(Held(n)) = 1
      BY <3>1, CopyTypes, HeldIsFinite DEF Copies
    <3>3. Held(n) = {h}
      BY <3>1, <3>2, HeldIsFinite, FS_Singleton
    <3>4. Held(n)' = {sent}
      BY <1>3, <1>4, <2>2, <3>3 DEF Held
    <3>5. Cardinality(Held(n)') = 1
      BY <3>4, FS_Singleton
    <3>6. Cardinality(Held(n))' = 1
      BY <3>5
    <3> QED  BY <3>2, <3>6
  <2> QED  BY <2>1, <2>2
<1>6. Count(to_crypto, n)' = Count(to_crypto, n) /\ Count(to_main, n)' = Count(to_main, n)
  BY <1>1
<1> QED  BY <1>5, <1>6 DEF Copies

LEMMA BroadcastKeeps ==
  ASSUME TypeOK, HandOverInv, CryptoBroadcast
  PROVE  HandOverInv'
<1>1. UNCHANGED <<network, signing, arrived, repeats, to_crypto, to_main>>
  BY DEF CryptoBroadcast, vars, networkVars, replicaVars
<1>2. PICK h \in hands : /\ IsOwn(h.message) /\ ~h.sent
                         /\ broadcast' = broadcast \cup {h.message}
                         /\ hands' = (hands \ {h}) \cup {[h EXCEPT !.sent = TRUE]}
  BY DEF CryptoBroadcast
<1> DEFINE sent == [h EXCEPT !.sent = TRUE]
<1>3. hands \subseteq [thread : Crypto, message : network, sent : BOOLEAN]
  BY DEF HandOverInv, PipelineTypeOK
<1>4. /\ h.message \in network
      /\ sent \in [thread : Crypto, message : network, sent : BOOLEAN]
      /\ sent.message = h.message /\ sent.sent = TRUE
  BY <1>3
<1> HIDE DEF sent
<1>5. hands' = (hands \ {h}) \cup {sent}
  BY <1>2 DEF sent
<1>6. ASSUME NEW n \in network, IsOwn(n)
      PROVE  Copies(n)' = Copies(n)
  BY <1>6, BroadcastCopies DEF HandOverInv, OwnCopiesReturnOnce
<1>7. IsFiniteSet(hands')
  <2>1. IsFiniteSet(hands \ {h})
    BY FS_RemoveElement DEF HandOverInv
  <2> QED  BY <1>5, <2>1, FS_AddElement
<1>8. PipelineTypeOK'
  <2>1. hands' \subseteq [thread : Crypto, message : network, sent : BOOLEAN]
    BY ONLY <1>3, <1>4, <1>5
  <2> QED  BY <1>1, <1>2, <1>4, <2>1 DEF HandOverInv, PipelineTypeOK
<1>9. OwnCopiesReturnOnce'
  BY <1>1, <1>6 DEF HandOverInv, OwnCopiesReturnOnce, IsOwn
<1>10. ReturnedIsBroadcast'
  <2>1. \A g \in hands' : g.sent => g.message \in broadcast'
    BY <1>2, <1>4, <1>5 DEF HandOverInv, ReturnedIsBroadcast
  <2> QED  BY <1>1, <1>2, <2>1 DEF HandOverInv, ReturnedIsBroadcast, IsOwn
<1> QED  BY <1>1, <1>2, <1>7, <1>8, <1>9, <1>10
   DEF HandOverInv, RequestsAtPrimary, HandledIsBroadcast, IsOwn

LEMMA ReturnCopies ==
  ASSUME TypeOK, HandOverInv, CryptoReturn
  PROVE  /\ \A n \in network : Copies(n)' = Copies(n)
         /\ \A r \in Request : Count(to_main, r)' = Count(to_main, r)
<1>1. UNCHANGED to_crypto
  BY DEF CryptoReturn
<1>2. PICK h \in hands : /\ hands' = hands \ {h}
                         /\ to_main' = Append(to_main, h.message)
  BY DEF CryptoReturn, HandsAfter
<1>3. /\ h.message \in network
      /\ to_main \in Seq(network \cup Request)
  BY DEF HandOverInv, PipelineTypeOK
<1> PICK m \in network : m = h.message
  BY <1>3
<1>4. ASSUME NEW n
      PROVE  Count(to_main, n)' = Count(to_main, n) + (IF m = n THEN 1 ELSE 0)
  <2>1. Count(Append(to_main, m), n) = Count(to_main, n) + (IF m = n THEN 1 ELSE 0)
    BY <1>3, AppendedCount
  <2> QED  BY <1>2, <2>1
<1>5. ASSUME NEW n \in network
      PROVE  Cardinality(Held(n))' = Cardinality(Held(n)) - (IF m = n THEN 1 ELSE 0)
  <2>1. CASE n # m
    <3>1. Held(n)' = Held(n)
      BY <1>2, <2>1 DEF Held
    <3>2. Cardinality(Held(n))' = Cardinality(Held(n))
      BY <3>1
    <3> QED  BY <2>1, <3>2, HeldIsFinite
  <2>2. CASE n = m
    <3>1. h \in Held(n) /\ Held(n)' = Held(n) \ {h}
      BY <1>2, <2>2 DEF Held
    <3>2. Cardinality(Held(n) \ {h}) = Cardinality(Held(n)) - 1
      <4>1. IsFiniteSet(Held(n))
        BY HeldIsFinite
      <4> QED  BY <3>1, <4>1, FS_RemoveElement
    <3>3. Cardinality(Held(n)') = Cardinality(Held(n)) - 1
      BY <3>1, <3>2
    <3>4. Cardinality(Held(n))' = Cardinality(Held(n)) - 1
      BY <3>3
    <3> QED  BY <2>2, <3>4
  <2> QED  BY <2>1, <2>2
<1>6. ASSUME NEW n \in network  PROVE Copies(n)' = Copies(n)
  <2>1. Count(to_crypto, n)' = Count(to_crypto, n)
    BY <1>1
  <2> QED  BY <1>4, <1>5, <2>1, CopyTypes DEF Copies
<1>7. ASSUME NEW r \in Request  PROVE Count(to_main, r)' = Count(to_main, r)
  <2>1. m # r
    BY RequestsAreNoMessages DEF TypeOK, NetworkTypeOK
  <2> QED  BY <1>4, <2>1, CopyTypes
<1> QED  BY <1>6, <1>7

LEMMA ReturnKeeps ==
  ASSUME TypeOK, HandOverInv, CryptoReturn
  PROVE  HandOverInv'
<1>1. UNCHANGED <<network, signing, arrived, repeats, to_crypto, broadcast>>
  BY DEF CryptoReturn, vars, networkVars, replicaVars
<1>2. PICK h \in hands : /\ h.sent \/ ~IsOwn(h.message)
                         /\ hands' = hands \ {h}
                         /\ to_main' = Append(to_main, h.message)
  BY DEF CryptoReturn, IsDone, HandsAfter
<1>3. /\ hands \subseteq [thread : Crypto, message : network, sent : BOOLEAN]
      /\ to_main \in Seq(network \cup Request)
  BY DEF HandOverInv, PipelineTypeOK
<1>4. PICK m \in network : m = h.message
  BY <1>3
<1>5. /\ to_main' = Append(to_main, m)
      /\ to_main' \in Seq(network \cup Request)
  BY <1>2, <1>3, <1>4
<1>8. IsFiniteSet(hands')
  BY <1>2, FS_RemoveElement DEF HandOverInv
<1>9. PipelineTypeOK'
  BY <1>1, <1>2, <1>5 DEF HandOverInv, PipelineTypeOK
<1>10. OwnCopiesReturnOnce'
  BY <1>1, ReturnCopies DEF HandOverInv, OwnCopiesReturnOnce, IsOwn
<1>11. RequestsAtPrimary' /\ ReturnedIsBroadcast'
  <2>1. \A k \in 1..Len(to_main') :
          to_main'[k] = m \/ (k \in 1..Len(to_main) /\ to_main'[k] = to_main[k])
    BY <1>3, <1>5
  <2>2. IsOwn(m) => m \in broadcast
    BY <1>2, <1>4 DEF HandOverInv, ReturnedIsBroadcast
  <2>3. m \notin Request
    BY RequestsAreNoMessages DEF TypeOK, NetworkTypeOK
  <2>4. RequestsAtPrimary'
    BY <2>1, <2>3 DEF HandOverInv, RequestsAtPrimary
  <2>5. \A k \in 1..Len(to_main') :
          to_main'[k] \in network' /\ IsOwn(to_main'[k]) => to_main'[k] \in broadcast'
    BY <1>1, <2>1, <2>2 DEF HandOverInv, ReturnedIsBroadcast
  <2>6. \A g \in hands' : g.sent => g.message \in broadcast'
    BY <1>1, <1>2 DEF HandOverInv, ReturnedIsBroadcast
  <2> QED  BY <2>4, <2>5, <2>6 DEF ReturnedIsBroadcast, IsOwn
<1> QED  BY <1>1, <1>8, <1>9, <1>10, <1>11 DEF HandOverInv, HandledIsBroadcast, IsOwn

LEMMA SequenceOfMore ==
  ASSUME NEW S, NEW T, S \subseteq T, NEW q \in Seq(S)
  PROVE  q \in Seq(T)
<1>1. Len(q) \in Nat /\ q = [k \in 1..Len(q) |-> q[k]] /\ \A k \in 1..Len(q) : q[k] \in S
  OBVIOUS
<1>2. q \in [1..Len(q) -> T]
  BY <1>1
<1> QED  BY <1>1, <1>2, SeqDef

\* What main takes is gone from the channel, and what it hands over is in the
\* pipeline once.
LEMMA MainCopies ==
  ASSUME TypeOK, TypeOK', HandOverInv, NEW out,
         to_main # <<>>,
         HandsOver(Focus, Head(to_main), out),
         to_main' = Tail(to_main),
         to_crypto' = to_crypto \o InOrderOfOp(out),
         UNCHANGED hands,
         NEW n
  PROVE  /\ Count(to_main, n)' \in Nat
         /\ Count(to_main, n)
              = Count(to_main, n)' + (IF Head(to_main) = n THEN 1 ELSE 0)
         /\ Copies(n)' \in Nat
         /\ Copies(n)' + (IF Head(to_main) = n THEN 1 ELSE 0)
              = Copies(n) + (IF n \in out THEN 1 ELSE 0)
<1> DEFINE given == InOrderOfOp(out)
           more == network \cup out
<1> PICK m : m = Head(to_main)
  OBVIOUS
<1>1. /\ to_crypto \in Seq(network)
      /\ to_main \in Seq(network \cup Request)
  BY DEF HandOverInv, PipelineTypeOK
<1>2. /\ given \in Seq(out)
      /\ Count(given, n) = IF n \in out THEN 1 ELSE 0
  BY OrderedCount DEF HandsOver
<1> HIDE DEF given, more
<1>3. network \subseteq more /\ out \subseteq more
  BY DEF more
<1>4. to_crypto \in Seq(more) /\ given \in Seq(more)
  BY <1>1, <1>2, <1>3, SequenceOfMore
<1>5. to_crypto' = to_crypto \o given
  BY DEF given
<1>6. Count(to_crypto', n) = Count(to_crypto, n) + (IF n \in out THEN 1 ELSE 0)
  <2>1. Count(to_crypto \o given, n) = Count(to_crypto, n) + Count(given, n)
    BY <1>4, JoinedCount
  <2> QED  BY <1>2, <1>5, <2>1
<1>7. Count(to_crypto, n)' = Count(to_crypto, n) + (IF n \in out THEN 1 ELSE 0)
  BY <1>6
<1>8. /\ to_main' \in Seq(network \cup Request)
      /\ Count(to_main, n) = Count(to_main', n) + (IF m = n THEN 1 ELSE 0)
  BY <1>1, TakenCount
<1>9. Count(to_main', n) \in Nat
  BY <1>8, PositionsAreFinite
<1>10. /\ Count(to_main, n) = Count(to_main, n)' + (IF m = n THEN 1 ELSE 0)
       /\ Count(to_main, n)' \in Nat
  BY <1>8, <1>9
<1>11. Cardinality(Held(n))' = Cardinality(Held(n))
  <2>1. Held(n)' = Held(n)
    BY DEF Held
  <2> QED  BY <2>1
<1>12. /\ Count(to_crypto, n) \in Nat
       /\ Cardinality(Held(n)) \in Nat
       /\ Count(to_main, n) \in Nat
  BY CopyTypes
<1>13. m = Head(to_main)
  OBVIOUS
<1> QED  BY ONLY <1>7, <1>10, <1>11, <1>12, <1>13 DEF Copies

\* A handler of Focus hands its messages to the crypto threads, and what main has
\* taken is the copy that had come back.
LEMMA MainKeeps ==
  ASSUME TypeOK, TypeOK', HandOverInv, NEW out,
         to_main # <<>>,
         HandsOver(Focus, Head(to_main), out),
         to_main' = Tail(to_main),
         to_crypto' = to_crypto \o InOrderOfOp(out),
         UNCHANGED <<arrived, repeats, hands, broadcast>>
  PROVE  HandOverInv'
<1> DEFINE given == InOrderOfOp(out)
           more == network \cup out
<1>1. PICK m : m = Head(to_main)
  OBVIOUS
<1>2. /\ to_crypto \in Seq(network)
      /\ to_main \in Seq(network \cup Request)
      /\ hands \subseteq [thread : Crypto, message : network, sent : BOOLEAN]
  BY DEF HandOverInv, PipelineTypeOK
<1>3. /\ network' = more
      /\ out \cap network = {}
      /\ \A n \in out : IsOwn(n) /\ n.op_number \in Nat
      /\ signing'[Focus] = (signing[Focus] \ {m}) \cup out
  BY <1>1 DEF HandsOver, IsOwn
<1>4. given \in Seq(out)
  BY OrderedCount DEF HandsOver
<1>5. more \subseteq Message
  BY <1>3 DEF TypeOK, NetworkTypeOK
<1> HIDE DEF given, more
<1>6. network \subseteq more /\ out \subseteq more
  BY DEF more
<1>7. to_crypto \in Seq(more) /\ given \in Seq(more)
  BY <1>2, <1>4, <1>6, SequenceOfMore
<1>8. to_crypto' = to_crypto \o given
  BY DEF given
<1>9. to_crypto \o given \in Seq(more)
  BY <1>7
<1>10. /\ m \in network \cup Request
       /\ to_main' \in Seq(network \cup Request)
  BY <1>1, <1>2
<1>11. m \notin out
  BY <1>3, <1>5, <1>6, <1>10, RequestsAreNoMessages
<1>12. ASSUME NEW n \in network', IsOwn(n)
       PROVE  Copies(n)' = IF n \in signing'[Focus] THEN 1 ELSE 0
  <2>1. /\ Copies(n)' \in Nat
        /\ Copies(n)' + (IF m = n THEN 1 ELSE 0) = Copies(n) + (IF n \in out THEN 1 ELSE 0)
    BY <1>1, MainCopies
  <2>2. CASE n \in out
    <3>1. Copies(n) = 0
      BY <1>3, <1>5, <1>6, <2>2, NoCopiesOfUnsent
    <3> QED  BY <1>3, <1>11, <2>1, <2>2, <3>1
  <2>3. CASE n \notin out
    <3>1. n \in network
      BY <1>3, <2>3 DEF more
    <3>2. Copies(n) = IF n \in signing[Focus] THEN 1 ELSE 0
      BY <1>12, <3>1 DEF HandOverInv, OwnCopiesReturnOnce
    <3> QED  BY <1>3, <2>1, <2>3, <3>2
  <2> QED  BY <2>2, <2>3
<1>13. \A k \in 1..Len(to_main') : \E j \in 1..Len(to_main) : to_main'[k] = to_main[j]
  BY <1>2
<1>14. PipelineTypeOK'
  <2>1. to_crypto' \in Seq(network')
    BY <1>3, <1>8, <1>9
  <2>2. to_main' \in Seq(network' \cup Request)
    <3>1. network \cup Request \subseteq more \cup Request
      BY <1>6
    <3>2. to_main' \in Seq(more \cup Request)
      BY <1>10, <3>1, SequenceOfMore
    <3> QED  BY <1>3, <3>2
  <2>3. hands' \subseteq [thread : Crypto, message : network', sent : BOOLEAN]
    BY <1>2, <1>3, <1>6
  <2>4. /\ arrived' \subseteq network' /\ broadcast' \subseteq network'
        /\ repeats' \in 0..MaxRepeat
    BY <1>3, <1>6 DEF HandOverInv, PipelineTypeOK
  <2> QED  BY <2>1, <2>2, <2>3, <2>4 DEF PipelineTypeOK
<1>15. OwnCopiesReturnOnce'
  BY <1>12 DEF OwnCopiesReturnOnce, IsOwn
<1>16. RequestsAtPrimary'
  BY <1>13 DEF HandOverInv, RequestsAtPrimary
<1>17. ReturnedIsBroadcast'
  <2>1. \A k \in 1..Len(to_main') :
          to_main'[k] \in network' /\ IsOwn(to_main'[k]) => to_main'[k] \in broadcast'
    <3> SUFFICES ASSUME NEW k \in 1..Len(to_main'), to_main'[k] \in network', IsOwn(to_main'[k])
                 PROVE  to_main'[k] \in broadcast'
      OBVIOUS
    <3>1. PICK j \in 1..Len(to_main) : to_main'[k] = to_main[j]
      BY <1>13
    <3>2. to_main[j] \in network
      <4>1. to_main[j] \in network \cup Request
        BY <1>2
      <4>2. to_main[j] \in Message
        BY <1>3, <1>5, <3>1
      <4> QED  BY <4>1, <4>2, RequestsAreNoMessages
    <3> QED  BY <3>1, <3>2 DEF HandOverInv, ReturnedIsBroadcast
  <2>2. \A h \in hands' : h.sent => h.message \in broadcast'
    BY DEF HandOverInv, ReturnedIsBroadcast
  <2> QED  BY <2>1, <2>2 DEF ReturnedIsBroadcast, IsOwn
<1>18. HandledIsBroadcast'
  <2> SUFFICES ASSUME NEW n \in network', IsOwn(n), n \notin signing'[Focus]
               PROVE  n \in broadcast'
    BY DEF HandledIsBroadcast, IsOwn
  <2>1. n \in network /\ (n \notin signing[Focus] \/ n = m)
    BY <1>3 DEF more
  <2>2. CASE n \notin signing[Focus]
    BY <2>1, <2>2 DEF HandOverInv, HandledIsBroadcast
  <2>3. CASE n = m
    <3>1. 1 \in 1..Len(to_main) /\ to_main[1] = n
      BY <1>1, <1>2, <2>3
    <3> QED  BY <2>1, <3>1 DEF HandOverInv, ReturnedIsBroadcast
  <2> QED  BY <2>1, <2>2, <2>3
<1>19. IsFiniteSet(hands')
  BY DEF HandOverInv
<1> QED  BY <1>14, <1>15, <1>16, <1>17, <1>18, <1>19 DEF HandOverInv

\* A step outside the replica neither touches its threads nor sends in its name.
LEMMA ElsewhereKeeps ==
  ASSUME TypeOK', HandOverInv,
         UNCHANGED pipeVars,
         signing'[Focus] = signing[Focus],
         network \subseteq network',
         \A n \in network' \ network : ~IsOwn(n)
  PROVE  HandOverInv'
<1>1. UNCHANGED <<arrived, repeats, to_crypto, hands, to_main, broadcast>>
  BY DEF pipeVars
<1>2. /\ to_crypto \in Seq(network)
      /\ to_main \in Seq(network \cup Request)
      /\ hands \subseteq [thread : Crypto, message : network, sent : BOOLEAN]
      /\ arrived \subseteq network
      /\ repeats \in 0..MaxRepeat
      /\ broadcast \subseteq network
  BY DEF HandOverInv, PipelineTypeOK
<1> PICK more : more = network'
  OBVIOUS
<1>3. PipelineTypeOK'
  <2>1. to_crypto \in Seq(more) /\ to_main \in Seq(more \cup Request)
    <3>1. network \subseteq more /\ network \cup Request \subseteq more \cup Request
      OBVIOUS
    <3> QED  BY <1>2, <3>1, SequenceOfMore
  <2>2. hands \subseteq [thread : Crypto, message : more, sent : BOOLEAN]
    BY <1>2
  <2> QED  BY <1>1, <1>2, <2>1, <2>2 DEF PipelineTypeOK
<1>4. \A n : Copies(n)' = Copies(n)
  BY <1>1 DEF Copies, Held
<1>5. OwnCopiesReturnOnce'
  BY <1>4 DEF HandOverInv, OwnCopiesReturnOnce, IsOwn
<1>6. HandledIsBroadcast'
  BY <1>1 DEF HandOverInv, HandledIsBroadcast, IsOwn
<1>7. RequestsAtPrimary'
  BY <1>1 DEF HandOverInv, RequestsAtPrimary
<1>8. ReturnedIsBroadcast'
  <2>1. \A k \in 1..Len(to_main) : to_main[k] \in more => to_main[k] \in network
    <3> SUFFICES ASSUME NEW k \in 1..Len(to_main), to_main[k] \in more
                 PROVE  to_main[k] \in network
      OBVIOUS
    <3>1. to_main[k] \in network \cup Request
      BY <1>2
    <3>2. to_main[k] \in Message
      BY DEF TypeOK, NetworkTypeOK
    <3> QED  BY <3>1, <3>2, RequestsAreNoMessages
  <2> QED  BY <1>1, <2>1 DEF HandOverInv, ReturnedIsBroadcast, IsOwn
<1>9. IsFiniteSet(hands')
  BY <1>1 DEF HandOverInv
<1> QED  BY <1>3, <1>5, <1>6, <1>7, <1>8, <1>9 DEF HandOverInv

LEMMA InitPipeline == PipelineInit => HandOverInv
<1> SUFFICES ASSUME PipelineInit  PROVE HandOverInv
  OBVIOUS
<1>1. /\ network = {} /\ arrived = {} /\ repeats = 0 /\ hands = {} /\ broadcast = {}
      /\ to_crypto = <<>> /\ to_main = <<>>
  BY DEF PipelineInit, Init, NetworkInit
<1>2. PipelineTypeOK
  BY <1>1, EmptySeq, PipelineAssumption DEF PipelineTypeOK
<1>3. IsFiniteSet(hands)
  BY <1>1, FS_EmptySet
<1> QED  BY <1>1, <1>2, <1>3, EmptySeq
   DEF HandOverInv, RequestsAtPrimary, ReturnedIsBroadcast, OwnCopiesReturnOnce, HandledIsBroadcast

\* Whatever replica i handles, it hands something over in HandsOver's sense.
LEMMA MainHandsOver ==
  ASSUME TypeOK, AgreementInv, NEW i \in Replica, NEW m,
         \/ i = Primary /\ m \in Request /\ HandleRequest(m)
         \/ HandlePrePrepare(i, m) \/ HandlePrepare(i, m) \/ HandleCommit(i, m)
  PROVE  \E out : HandsOver(i, m, out)
<1>1. CASE i = Primary /\ m \in Request /\ HandleRequest(m)
  BY <1>1, RequestHandsOver
<1>2. CASE HandlePrePrepare(i, m)
  BY <1>2, PrePrepareHandsOver
<1>3. CASE HandlePrepare(i, m)
  BY <1>3, PrepareHandsOver
<1>4. CASE HandleCommit(i, m)
  BY <1>4, CommitHandsOver
<1> QED  BY <1>1, <1>2, <1>3, <1>4

LEMMA FocusKeeps ==
  ASSUME TypeOK, TypeOK', AgreementInv, HandOverInv, FocusPoll
  PROVE  HandOverInv'
<1>1. Focus \in Replica
  BY PipelineAssumption, ReplicaAssumption
<1>2. PICK m : m = Head(to_main)
  OBVIOUS
<1>3. to_main # <<>> /\ to_main \in Seq(network \cup Request)
  BY DEF FocusPoll, HandOverInv, PipelineTypeOK
<1>4. \/ Focus = Primary /\ m \in Request /\ HandleRequest(m)
      \/ HandlePrePrepare(Focus, m) \/ HandlePrepare(Focus, m) \/ HandleCommit(Focus, m)
  <2>1. 1 \in 1..Len(to_main) /\ to_main[1] = m
    BY <1>2, <1>3
  <2>2. m \in Request => Focus = Primary
    BY <2>1 DEF HandOverInv, RequestsAtPrimary
  <2> QED  BY <1>2, <2>2 DEF FocusPoll
<1>5. PICK out : HandsOver(Focus, m, out)
  BY <1>1, <1>4, MainHandsOver
<1>6. out = network' \ network
  BY <1>5 DEF HandsOver
<1>7. to_crypto' = to_crypto \o InOrderOfOp(out)
  BY <1>6 DEF FocusPoll, HandedOver
<1>8. to_main' = Tail(to_main) /\ UNCHANGED <<arrived, repeats, hands, broadcast>>
  BY DEF FocusPoll
<1>9. HandsOver(Focus, Head(to_main), out)
  BY <1>2, <1>5
<1> QED  BY <1>3, <1>7, <1>8, <1>9, MainKeeps

LEMMA OtherKeeps ==
  ASSUME TypeOK, TypeOK', AgreementInv, HandOverInv,
         NEW i \in Replica \ {Focus}, OtherNext(i)
  PROVE  HandOverInv'
<1>1. PICK m : \/ i = Primary /\ m \in Request /\ HandleRequest(m)
               \/ HandlePrePrepare(i, m) \/ HandlePrepare(i, m) \/ HandleCommit(i, m)
  BY DEF OtherNext
<1>2. PICK out : HandsOver(i, m, out)
  BY <1>1, MainHandsOver
<1>3. Focus \in Replica
  BY PipelineAssumption, ReplicaAssumption
<1>4. /\ signing'[Focus] = signing[Focus]
      /\ network \subseteq network'
      /\ \A n \in network' \ network : ~IsOwn(n)
  BY <1>2, <1>3 DEF HandsOver, IsOwn
<1>5. UNCHANGED pipeVars
  BY DEF OtherNext
<1> QED  BY <1>4, <1>5, ElsewhereKeeps

LEMMA PipelineKept ==
  TypeOK /\ TypeOK' /\ AgreementInv /\ HandOverInv /\ [PipelineNext]_allVars => HandOverInv'
<1> SUFFICES ASSUME TypeOK, TypeOK', AgreementInv, HandOverInv, [PipelineNext]_allVars
             PROVE  HandOverInv'
  OBVIOUS
<1>1. CASE ListenPoll \/ CryptoTake \/ CryptoBroadcast \/ CryptoReturn
  BY <1>1, ListenKeeps, TakeKeeps, BroadcastKeeps, ReturnKeeps
<1>2. CASE FocusPoll
  BY <1>2, FocusKeeps
<1>3. ASSUME NEW i \in Replica \ {Focus}, OtherNext(i)  PROVE HandOverInv'
  BY <1>3, OtherKeeps
<1>4. CASE UNCHANGED <<network, signing, pipeVars>>
  BY <1>4, ElsewhereKeeps
<1>5. ASSUME NEW c \in Client, ClientNext(c), UNCHANGED pipeVars
      PROVE  UNCHANGED <<network, signing, pipeVars>>
  BY <1>5 DEF ClientNext, Invoke, ClientPoll, replicaVars
<1>6. CASE UNCHANGED allVars
  BY <1>4, <1>6 DEF allVars, vars, networkVars, replicaVars
<1> QED  BY <1>1, <1>2, <1>3, <1>4, <1>5, <1>6 DEF PipelineNext

-------------------------------------------------------------------------------
(* The requests that the threads bring to main. *)

\* Of the requests in main's channel, none disappears from the socket by a step
\* that does not take them out of the channel.
LEMMA StillBacked ==
  ASSUME TypeOK, TypeOK', HandOverInv, RequestsAreBacked,
         \A r \in Request : Count(to_main, r)' = Count(to_main, r),
         \A r \in Request : Count(to_main, r) = 0 \/ in_flight'[r] >= in_flight[r]
  PROVE  RequestsAreBacked'
<1> SUFFICES ASSUME NEW r \in Request  PROVE Count(to_main, r)' <= in_flight'[r]
  BY DEF RequestsAreBacked
<1>1. Count(to_main, r)' = Count(to_main, r) /\ Count(to_main, r) <= in_flight[r]
  BY DEF RequestsAreBacked
<1>2. in_flight[r] \in Nat /\ in_flight'[r] \in Nat /\ Count(to_main, r) \in Nat
  BY CopyTypes DEF TypeOK, NetworkTypeOK
<1> QED  BY <1>1, <1>2

LEMMA ListenBacks ==
  ASSUME TypeOK, TypeOK', HandOverInv, RequestsAreBacked, ListenPoll
  PROVE  RequestsAreBacked'
<1>1. in_flight' = in_flight /\ in_flight \in [Request -> Nat]
  BY DEF ListenPoll, vars, networkVars, TypeOK, NetworkTypeOK
<1>2. CASE UNCHANGED to_main
  BY <1>1, <1>2, StillBacked
<1>3. ASSUME NEW m \in Request, Count(to_main, m) < in_flight[m], to_main' = Append(to_main, m)
      PROVE  RequestsAreBacked'
  <2>1. ASSUME NEW r \in Request
        PROVE  Count(to_main, r)' = Count(to_main, r) + (IF m = r THEN 1 ELSE 0)
    <3>1. to_main \in Seq(network \cup Request)
      BY DEF HandOverInv, PipelineTypeOK
    <3>2. Count(Append(to_main, m), r) = Count(to_main, r) + (IF m = r THEN 1 ELSE 0)
      BY <3>1, AppendedCount
    <3> QED  BY <1>3, <3>2
  <2> SUFFICES ASSUME NEW r \in Request  PROVE Count(to_main, r)' <= in_flight[r]
    BY <1>1 DEF RequestsAreBacked
  <2>2. in_flight[r] \in Nat /\ Count(to_main, r) \in Nat
    BY <1>1, CopyTypes
  <2>3. Count(to_main, r) <= in_flight[r]
    BY DEF RequestsAreBacked
  <2> QED  BY <1>3, <2>1, <2>2, <2>3
<1> QED  BY <1>2, <1>3 DEF ListenPoll

LEMMA CryptoBacks ==
  ASSUME TypeOK, TypeOK', HandOverInv, RequestsAreBacked,
         CryptoTake \/ CryptoBroadcast \/ CryptoReturn
  PROVE  RequestsAreBacked'
<1>1. \A r \in Request : Count(to_main, r)' = Count(to_main, r)
  <2>1. CASE UNCHANGED to_main
    BY <2>1
  <2> QED  BY <2>1, ReturnCopies DEF CryptoTake, CryptoBroadcast
<1>2. in_flight' = in_flight /\ in_flight \in [Request -> Nat]
  BY DEF CryptoTake, CryptoBroadcast, CryptoReturn, vars, networkVars, TypeOK, NetworkTypeOK
<1> QED  BY <1>1, <1>2, StillBacked

\* A handler takes a request from the socket only if it handles it.
LEMMA RequestsLeft ==
  ASSUME TypeOK, NEW i \in Replica, NEW m,
         \/ m \in Request /\ HandleRequest(m)
         \/ HandlePrePrepare(i, m) \/ HandlePrepare(i, m) \/ HandleCommit(i, m)
  PROVE  /\ \A r \in Request : r # m => in_flight'[r] = in_flight[r]
         /\ m \in Request => in_flight'[m] + 1 = in_flight[m]
<1>1. in_flight \in [Request -> Nat]
  BY DEF TypeOK, NetworkTypeOK
<1>2. CASE m \in Request /\ HandleRequest(m)
  <2>1. in_flight' = [in_flight EXCEPT ![m] = @ - 1]
    BY <1>2 DEF HandleRequest
  <2> QED  BY <1>1, <1>2, <2>1
<1>3. CASE HandlePrePrepare(i, m) \/ HandlePrepare(i, m) \/ HandleCommit(i, m)
  <2>1. in_flight' = in_flight
    BY <1>3 DEF HandlePrePrepare, HandlePrepare, HandleCommit
  <2>2. m \in Message
    BY <1>3, InboxMessage DEF HandlePrePrepare, HandlePrepare, HandleCommit
  <2> QED  BY <2>1, <2>2, RequestsAreNoMessages
<1> QED  BY <1>2, <1>3

LEMMA FocusBacks ==
  ASSUME TypeOK, TypeOK', HandOverInv, RequestsAreBacked, FocusPoll
  PROVE  RequestsAreBacked'
<1>1. PICK m : m = Head(to_main)
  OBVIOUS
<1>2. /\ Focus \in Replica
      /\ \/ m \in Request /\ HandleRequest(m)
         \/ HandlePrePrepare(Focus, m) \/ HandlePrepare(Focus, m) \/ HandleCommit(Focus, m)
  BY <1>1, PipelineAssumption, ReplicaAssumption DEF FocusPoll
<1> SUFFICES ASSUME NEW r \in Request  PROVE Count(to_main, r)' <= in_flight'[r]
  BY DEF RequestsAreBacked
<1>3. Count(to_main, r) = Count(to_main, r)' + (IF m = r THEN 1 ELSE 0)
  <2>1. /\ to_main \in Seq(network \cup Request) /\ to_main # <<>>
        /\ to_main' = Tail(to_main)
    BY DEF FocusPoll, HandOverInv, PipelineTypeOK
  <2>2. Count(to_main, r) = Count(to_main', r) + (IF m = r THEN 1 ELSE 0)
    BY <1>1, <2>1, TakenCount
  <2> QED  BY <2>2
<1>4. Count(to_main, r) <= in_flight[r]
  BY DEF RequestsAreBacked
<1>5. /\ in_flight[r] \in Nat /\ in_flight'[r] \in Nat
      /\ Count(to_main, r) \in Nat /\ Count(to_main, r)' \in Nat
  <2>1. Count(to_main', r) \in Nat
    <3>1. to_main' \in Seq(network \cup Request)
      BY DEF FocusPoll, HandOverInv, PipelineTypeOK
    <3> QED  BY <3>1, PositionsAreFinite
  <2> QED  BY <2>1, CopyTypes DEF TypeOK, NetworkTypeOK
<1>6. in_flight'[r] + (IF m = r THEN 1 ELSE 0) = in_flight[r]
  BY <1>2, <1>5, RequestsLeft
<1> QED  BY <1>3, <1>4, <1>5, <1>6

\* A step outside the replica takes none of the requests that are in its channel.
LEMMA OtherBacks ==
  ASSUME TypeOK, TypeOK', HandOverInv, RequestsAreBacked,
         NEW i \in Replica \ {Focus}, OtherNext(i)
  PROVE  RequestsAreBacked'
<1>1. UNCHANGED pipeVars
  BY DEF OtherNext
<1>2. PICK m : \/ i = Primary /\ m \in Request /\ HandleRequest(m)
               \/ HandlePrePrepare(i, m) \/ HandlePrepare(i, m) \/ HandleCommit(i, m)
  BY DEF OtherNext
<1>3. ASSUME NEW r \in Request
      PROVE  Count(to_main, r) = 0 \/ in_flight'[r] >= in_flight[r]
  <2>1. in_flight[r] \in Nat
    BY DEF TypeOK, NetworkTypeOK
  <2>2. CASE r # m
    <3>1. in_flight'[r] = in_flight[r]
      BY <1>2, <2>2, RequestsLeft
    <3> QED  BY <2>1, <3>1
  <2>3. CASE r = m
    <3>1. i = Primary
      <4>1. m \notin Message
        BY <2>3, RequestsAreNoMessages
      <4> QED  BY <1>2, <4>1, InboxMessage DEF HandlePrePrepare, HandlePrepare, HandleCommit
    <3>2. \A k \in 1..Len(to_main) : to_main[k] # r
      BY <3>1 DEF HandOverInv, RequestsAtPrimary
    <3> QED  BY <3>2, PositionsAreFinite DEF HandOverInv, PipelineTypeOK
  <2> QED  BY <2>2, <2>3
<1> QED  BY <1>1, <1>3, StillBacked DEF pipeVars

LEMMA ClientBacks ==
  ASSUME TypeOK, TypeOK', HandOverInv, RequestsAreBacked,
         NEW c \in Client, ClientNext(c), UNCHANGED pipeVars
  PROVE  RequestsAreBacked'
<1>1. in_flight \in [Request -> Nat]
  BY DEF TypeOK, NetworkTypeOK
<1>2. in_flight' = in_flight \/ \E n : DoSend(c, n)
  BY DEF ClientNext, Invoke, ClientPoll
<1>3. \A r \in Request : in_flight'[r] >= in_flight[r]
  <2>1. CASE in_flight' = in_flight
    BY <1>1, <2>1
  <2>2. ASSUME NEW x, in_flight' = [in_flight EXCEPT ![x] = @ + 1]
        PROVE  \A r \in Request : in_flight'[r] >= in_flight[r]
    <3> SUFFICES ASSUME NEW r \in Request  PROVE in_flight'[r] >= in_flight[r]
      OBVIOUS
    <3>1. in_flight[r] \in Nat /\ in_flight'[r] = IF r = x THEN in_flight[r] + 1 ELSE in_flight[r]
      BY <1>1, <2>2
    <3> QED  BY <3>1
  <2> QED  BY <1>2, <2>1, <2>2 DEF DoSend
<1> QED  BY <1>3, StillBacked DEF pipeVars

LEMMA RequestsStayBacked ==
  TypeOK /\ TypeOK' /\ AgreementInv /\ PipelineInv /\ [PipelineNext]_allVars => RequestsAreBacked'
<1> SUFFICES ASSUME TypeOK, TypeOK', AgreementInv, PipelineInv, [PipelineNext]_allVars
             PROVE  RequestsAreBacked'
  OBVIOUS
<1>1. HandOverInv /\ RequestsAreBacked
  BY DEF PipelineInv
<1>2. CASE ListenPoll
  BY <1>1, <1>2, ListenBacks
<1>3. CASE CryptoTake \/ CryptoBroadcast \/ CryptoReturn
  BY <1>1, <1>3, CryptoBacks
<1>4. CASE FocusPoll
  BY <1>1, <1>4, FocusBacks
<1>5. ASSUME NEW i \in Replica \ {Focus}, OtherNext(i)  PROVE RequestsAreBacked'
  BY <1>1, <1>5, OtherBacks
<1>6. ASSUME NEW c \in Client, ClientNext(c), UNCHANGED pipeVars  PROVE RequestsAreBacked'
  BY <1>1, <1>6, ClientBacks
<1>7. CASE UNCHANGED allVars
  BY <1>1, <1>7 DEF RequestsAreBacked, allVars, pipeVars, vars, networkVars
<1> QED  BY <1>2, <1>3, <1>4, <1>5, <1>6, <1>7 DEF PipelineNext

LEMMA InitBacked == PipelineInit => RequestsAreBacked
<1> SUFFICES ASSUME PipelineInit  PROVE RequestsAreBacked
  OBVIOUS
<1>1. to_main = <<>> /\ in_flight = [request \in Request |-> 0]
  BY DEF PipelineInit, Init, NetworkInit
<1>2. ASSUME NEW r
      PROVE  Count(to_main, r) = 0
  <2>1. to_main \in Seq({}) /\ \A k \in 1..Len(to_main) : to_main[k] # r
    BY <1>1, EmptySeq
  <2> QED  BY ONLY <2>1, PositionsAreFinite
<1> QED  BY <1>1, <1>2 DEF RequestsAreBacked

\* The threads keep to PbftReplica because of PipelineInv, and PipelineInv needs
\* what AgreementInv says of the replicas, so the two are shown together.
LEMMA PipelineTogether ==
  PipelineSpec => [](TypeOK /\ AgreementInv /\ PipelineInv) /\ Spec
<1> DEFINE Inv == TypeOK /\ AgreementInv /\ PipelineInv
<1>1. PipelineInit => Init /\ Inv
  BY InitType, InitAgreement, InitPipeline, InitBacked DEF PipelineInit, PipelineInv
<1>2. Inv /\ [PipelineNext]_allVars => [Next]_vars
  BY PipelineStep DEF PipelineInv, HandOverInv
<1>3. Inv /\ [PipelineNext]_allVars => Inv'
  <2> SUFFICES ASSUME TypeOK, AgreementInv, PipelineInv, [PipelineNext]_allVars
               PROVE  TypeOK' /\ AgreementInv' /\ PipelineInv'
    OBVIOUS
  <2>1. [Next]_vars
    BY <1>2
  <2>2. TypeOK'
    BY <2>1, TypeStep
  <2>3. AgreementInv'
    BY <2>1, <2>2, AgreementKept
  <2>4. PipelineInv'
    BY <2>2, PipelineKept, RequestsStayBacked DEF PipelineInv
  <2> QED  BY <2>2, <2>3, <2>4
<1> HIDE DEF Inv
<1>4. PipelineSpec => []Inv /\ Spec
  BY <1>1, <1>2, <1>3, PTL DEF PipelineSpec, Spec
<1> QED  BY <1>4 DEF Inv

\* The threads of a replica, with its channels and its several crypto threads,
\* do nothing that PbftReplica does not let its main thread do: they may be left
\* out of every other module.
THEOREM PipelineImplementsPbft == PipelineSpec => Spec
BY PipelineTogether, PTL

\* The inductive invariant of the threads.
THEOREM PipelineInvariant == PipelineSpec => []PipelineInv
BY PipelineTogether, PTL

\* Every message that main hands over comes back to it exactly once, for every
\* number of crypto threads.
THEOREM OwnCopiesReturn == PipelineSpec => []OwnCopiesReturnOnce
<1>1. PipelineInv => OwnCopiesReturnOnce
  BY DEF PipelineInv, HandOverInv
<1> QED  BY <1>1, PipelineInvariant, PTL

\* Main handles no copy of its own that has not left for the other replicas.
THEOREM HandledAreBroadcast == PipelineSpec => []HandledIsBroadcast
<1>1. PipelineInv => HandledIsBroadcast
  BY DEF PipelineInv, HandOverInv
<1> QED  BY <1>1, PipelineInvariant, PTL

\* What the threads bring to main is what PbftReplica lets it handle, in whatever
\* order they bring it and however often the network repeats it: its own messages
\* while they are in signing, and those that others have sent.
THEOREM HeadsAreInInbox == PipelineSpec => []HeadIsInInbox
<1>1. TypeOK /\ PipelineInv => HeadIsInInbox
  <2> SUFFICES ASSUME TypeOK, HandOverInv, RequestsAreBacked, to_main # <<>>,
                      NEW m, m = Head(to_main)
               PROVE  m \in Inbox(Focus) \/ (m \in Request /\ in_flight[m] > 0)
    BY DEF PipelineInv, HeadIsInInbox
  <2>1. m \in network \cup Request /\ Count(to_main, m) \in Nat /\ Count(to_main, m) >= 1
    <3>1. to_main \in Seq(network \cup Request)
      BY DEF HandOverInv, PipelineTypeOK
    <3>2. 1 \in 1..Len(to_main) /\ to_main[1] = m
      BY <3>1
    <3> QED  BY <3>1, <3>2, PositionsAreFinite
  <2>2. CASE m \in Request
    <3>1. Count(to_main, m) <= in_flight[m] /\ in_flight[m] \in Nat
      BY <2>2 DEF RequestsAreBacked, TypeOK, NetworkTypeOK
    <3> QED  BY <2>1, <2>2, <3>1
  <2>3. CASE m \in network
    <3>1. Copies(m) # 0
      BY <2>1, CopyTypes DEF Copies
    <3>2. CASE IsOwn(m)
      BY <2>3, <3>1, <3>2, PipelineAssumption DEF HandOverInv, OwnCopiesReturnOnce, Inbox
    <3>3. CASE ~IsOwn(m)
      BY <2>3, <3>3, PipelineAssumption DEF Inbox, Received, IsOwn
    <3> QED  BY <3>2, <3>3
  <2> QED  BY <2>1, <2>2, <2>3
<1> QED  BY <1>1, PipelineTogether, PTL

===============================================================================
