----------------------------- MODULE PbftReplica ------------------------------
(***************************************************************************)
(* The PBFT replica: the handlers of MainThread, each run to completion on *)
(* the one thread that owns the protocol state.                            *)
(*                                                                         *)
(* ListenThread, the shared CryptoThread and the sockets sit between two   *)
(* main threads.  Several threads poll the crypto state, so they reorder   *)
(* what they carry; UDP may also lose and duplicate it.  A message is in   *)
(* network from the moment main hands it over, and every other replica may *)
(* handle it at any later time, or never.  The sender's own signed copy    *)
(* goes through no socket: it stays in signing until main handles it, once.*)
(***************************************************************************)
EXTENDS PbftMessages

CONSTANTS
  Window,       \* the 6 of handle_request: batches in progress
  Duplicates,   \* the replicas that may receive a PrePrepare again
  Late          \* the replicas at which messages may overtake one another

ASSUME ReplicaAssumption ==
  /\ Window \in Nat
  /\ Duplicates \subseteq Replica
  /\ Late \subseteq Replica

VARIABLES
  op_number,        \* the primary's last closed batch
  requests,         \* the primary's requests that wait for a batch
  log,              \* accepted PrePrepares, in order of op number
  reorder,          \* reorder_pre_prepare: PrePrepares out of order
  prepare_quorums,  \* triples <<op number, digest, replica>>
  commit_quorums,   \* triples <<op number, digest, replica>>
  execute_number,   \* the last executed batch
  client_table,     \* request number of the last reply to each client, 0 for none
  app,              \* the calls made to App::execute
  signing           \* own messages handed over and not yet back in main

batchVars == <<op_number, requests>>
orderVars == <<log, reorder>>
executeVars == <<execute_number, client_table, app>>
replicaVars == <<batchVars, orderVars, prepare_quorums, commit_quorums,
                 executeVars, signing>>

Ballot == OpNumber \X Digests \X Replica

Call == [op_number : OpNumber, index : OpNumber, request : Request]

ReplicaTypeOK ==
  /\ op_number \in Nat
  /\ requests \in Batch
  /\ log \in [Replica -> Seq(PrePrepareMessage)]
  /\ reorder \in [Replica -> SUBSET PrePrepareMessage]
  /\ prepare_quorums \in [Replica -> SUBSET Ballot]
  /\ commit_quorums \in [Replica -> SUBSET Ballot]
  /\ execute_number \in [Replica -> Nat]
  /\ client_table \in [Replica -> [Client -> 0..MaxRequest]]
  /\ app \in [Replica -> SUBSET Call]
  /\ signing \in [Replica -> SUBSET Message]

ReplicaInit ==
  /\ op_number = 0
  /\ requests = <<>>
  /\ log = [i \in Replica |-> <<>>]
  /\ reorder = [i \in Replica |-> {}]
  /\ prepare_quorums = [i \in Replica |-> {}]
  /\ commit_quorums = [i \in Replica |-> {}]
  /\ execute_number = [i \in Replica |-> 0]
  /\ client_table = [i \in Replica |-> [c \in Client |-> 0]]
  /\ app = [i \in Replica |-> {}]
  /\ signing = [i \in Replica |-> {}]

-------------------------------------------------------------------------------
(* Quorums. *)

Voters(quorums, op, digest) == {r \in Replica : <<op, digest, r>> \in quorums}

\* Mutant: the primary, which sends no Prepare, is expected to send one.
IsPreparedByAll(entries, prepares, op, digest) ==
  /\ op \in 1..Len(entries)
  /\ Cardinality(Voters(prepares, op, digest)) > 2 * F

IsPrepared(entries, prepares, op, digest) ==
  /\ op \in 1..Len(entries)
  /\ Cardinality(Voters(prepares, op, digest)) >= 2 * F

\* Mutant: the client's threshold instead of the replicas'.
IsCommittedByFew(entries, prepares, commits, op, digest) ==
  /\ IsPrepared(entries, prepares, op, digest)
  /\ Cardinality(Voters(commits, op, digest)) > F

IsCommitted(entries, prepares, commits, op, digest) ==
  /\ IsPrepared(entries, prepares, op, digest)
  /\ Cardinality(Voters(commits, op, digest)) > 2 * F

-------------------------------------------------------------------------------
(* Messages in and out of the main thread. *)

\* A vote that arrives before what the voter had to receive to send it.
Overtakes(i, m) ==
  \/ m.type = "Prepare" /\ m.op_number \notin 1..Len(log[i])
  \/ /\ m.type = "Commit"
     /\ ~IsPrepared(log[i], prepare_quorums[i], m.op_number, m.request_digest)

Received(i) == {m \in network : Sender(m) # i}

\* A replica outside Late handles its own copies first and nothing early.
Inbox(i) ==
  IF i \in Late THEN signing[i] \cup Received(i)
  ELSE IF signing[i] # {} THEN signing[i]
  ELSE {m \in Received(i) : ~Overtakes(i, m)}

\* Replica i has handled its messages of done and hands over those of out.
Process(i, done, out) ==
  /\ signing' = [signing EXCEPT ![i] = (@ \ done) \cup out]
  /\ network' = network \cup out

-------------------------------------------------------------------------------
(* Requests and batches, at the primary. *)

\* Mutant: one batch too many.
WindowOpenTooLong == op_number <= execute_number[Primary] + Window

WindowOpen == op_number < execute_number[Primary] + Window

\* Mutant: the op number is not advanced.
CloseBatchAgain(queue) ==
  /\ op_number' = op_number
  /\ requests' = <<>>

\* do_close_batch: the whole queue becomes the batch of the next op number.
CloseBatch(queue) ==
  /\ op_number' = op_number + 1
  /\ requests' = <<>>

HandleRequest(m) ==
  /\ in_flight[m] > 0
  /\ in_flight' = [in_flight EXCEPT ![m] = @ - 1]
  /\ LET replied == client_table[Primary][m.client]
         queue == Append(requests, m)
     IN  \/ /\ replied > m.request_number
            /\ UNCHANGED <<batchVars, signing, network, replies>>
         \/ /\ replied = m.request_number
            /\ replies' = replies \cup {Reply(m, Primary)}
            /\ UNCHANGED <<batchVars, signing, network>>
         \/ /\ replied < m.request_number
            /\ WindowOpen
            /\ CloseBatch(queue)
            /\ Process(Primary, {}, {PrePrepare(op_number + 1, queue)})
            /\ UNCHANGED replies
         \/ /\ replied < m.request_number
            /\ ~WindowOpen
            /\ requests' = queue
            /\ UNCHANGED <<op_number, signing, network, replies>>
  /\ UNCHANGED <<orderVars, prepare_quorums, commit_quorums, executeVars>>

-------------------------------------------------------------------------------
(* PrePrepares: appended to the log in order of op number. *)

NextEntry(i) == Len(log[i]) + 1

OpNumbers(entries) == {e.op_number : e \in entries}

\* The insertion replaces what the map held for the same op number.
InsertReordered(i, m) ==
  {e \in reorder[i] : e.op_number # m.op_number} \cup {m}

IsDue(i, m) == m.op_number = NextEntry(i)

\* Mutant: the buffered PrePrepares are appended in any order.
AcceptedLogUnordered(i, m, last) ==
  [k \in 1..last |->
     CASE k < m.op_number -> log[i][k]
       [] k = m.op_number -> m
       [] OTHER -> CHOOSE e \in reorder[i] \cup {m} : TRUE]

\* The log after m, which is due, and the buffered PrePrepares that directly
\* follow it, up to the op number last.
AcceptedLog(i, m, last) ==
  [k \in 1..last |->
     CASE k < m.op_number -> log[i][k]
       [] k = m.op_number -> m
       [] OTHER -> CHOOSE e \in reorder[i] : e.op_number = k]

\* Mutant: the drain stops at any point.
IsLastDueEarly(i, m, last) ==
  \A k \in (m.op_number + 1)..last : k \in OpNumbers(reorder[i])

IsLastDue(i, m, last) ==
  /\ \A k \in (m.op_number + 1)..last : k \in OpNumbers(reorder[i])
  /\ last + 1 \notin OpNumbers(reorder[i])

\* The assertion of handle_pre_prepare holds for m, and for what is taken from the
\* buffer by the op number that is due.
HandlePrePrepare(i, m) ==
  /\ m.type = "PrePrepare"
  /\ m \in Inbox(i)
  /\ \/ i \in Duplicates
     \/ m.op_number \notin 1..Len(log[i]) \cup OpNumbers(reorder[i])
  /\ \/ /\ ~IsDue(i, m)
        /\ reorder' = [reorder EXCEPT ![i] = InsertReordered(i, m)]
        /\ Process(i, {m}, {})
        /\ UNCHANGED log
     \/ /\ IsDue(i, m)
        /\ m.op_number = NextEntry(i)
        /\ \E last \in m.op_number..(m.op_number + Cardinality(reorder[i])) :
             LET accepted == AcceptedLog(i, m, last)
             IN  /\ IsLastDue(i, m, last)
                 /\ log' = [log EXCEPT ![i] = accepted]
                 /\ reorder' = [reorder EXCEPT ![i] =
                      {e \in @ : e.op_number \notin (m.op_number + 1)..last}]
                 /\ Process(i, {m},
                      IF i = Primary THEN {}
                      ELSE {Vote("Prepare", k, accepted[k].request_digest, i) :
                              k \in m.op_number..last})
  /\ UNCHANGED <<batchVars, prepare_quorums, commit_quorums, executeVars,
                 in_flight, replies>>

-------------------------------------------------------------------------------
(* Prepares and commits. *)

HandlePrepare(i, m) ==
  /\ m.type = "Prepare"
  /\ m \in Inbox(i)
  /\ LET op == m.op_number
         digest == m.request_digest
         prepares == prepare_quorums[i] \cup {<<op, digest, m.replica_id>>}
     IN  \/ /\ IsPrepared(log[i], prepare_quorums[i], op, digest)
            /\ Process(i, {m}, {})
            /\ UNCHANGED prepare_quorums
         \/ /\ ~IsPrepared(log[i], prepare_quorums[i], op, digest)
            /\ prepare_quorums' = [prepare_quorums EXCEPT ![i] = prepares]
            /\ Process(i, {m}, IF IsPrepared(log[i], prepares, op, digest)
                             THEN {Vote("Commit", op, digest, i)} ELSE {})
  /\ UNCHANGED <<batchVars, orderVars, commit_quorums, executeVars,
                 in_flight, replies>>

-------------------------------------------------------------------------------
(* Execution. *)

\* Mutant: of several batches that are ready only the last is executed.
SlotsOfLast(entries, lo, hi) ==
  UNION {{[op_number |-> k, index |-> p, request |-> entries[k].requests[p]] :
            p \in 1..Len(entries[k].requests)} : k \in {hi} \cap lo..hi}

\* The requests of the batches lo..hi, each with its position.
Slots(entries, lo, hi) ==
  UNION {{[op_number |-> k, index |-> p, request |-> entries[k].requests[p]] :
            p \in 1..Len(entries[k].requests)} : k \in lo..hi}

Precedes(x, y) ==
  \/ x.op_number < y.op_number
  \/ x.op_number = y.op_number /\ x.index < y.index

\* Mutant: no filter, as handle_request has already looked at the table.
FreshUnfiltered(table, slots) == slots

\* Mutant: the filter looks at the table as it was before the first batch.
FreshAtStart(table, slots) ==
  {x \in slots : table[x.request.client] < x.request.request_number}

\* What the filter of execute lets through: a request newer than the client's
\* entry in the table and than every request of the client before it.
Fresh(table, slots) ==
  {x \in slots :
     /\ table[x.request.client] < x.request.request_number
     /\ \A y \in slots :
          Precedes(y, x) /\ y.request.client = x.request.client
            => y.request.request_number < x.request.request_number}

\* Mutant: the reply is not put into the table.
LatestForgotten(old, numbers) == old

Latest(old, numbers) ==
  CHOOSE n \in {old} \cup numbers : \A k \in {old} \cup numbers : k <= n

IsReady(i, commits, k) ==
  IsCommitted(log[i], prepare_quorums[i], commits, k, log[i][k].request_digest)

\* Mutant: execute does not go on with the batch after the one it executed.
IsSweepOfOne(i, commits, to) ==
  \/ to = execute_number[i] + 1 /\ IsReady(i, commits, to)
  \/ /\ to = execute_number[i]
     /\ to < Len(log[i]) => ~IsReady(i, commits, to + 1)

\* The committed batches that directly follow the last executed one, all of them.
IsSweep(i, commits, to) ==
  /\ \A k \in (execute_number[i] + 1)..to : IsReady(i, commits, k)
  /\ to < Len(log[i]) => ~IsReady(i, commits, to + 1)

\* The recursive execute as one step.
Execute(i, commits) ==
  \E to \in execute_number[i]..Len(log[i]) :
    /\ IsSweep(i, commits, to)
    /\ LET fresh == Fresh(client_table[i],
                          Slots(log[i], execute_number[i] + 1, to))
       IN  /\ execute_number' = [execute_number EXCEPT ![i] = to]
           /\ app' = [app EXCEPT ![i] = @ \cup fresh]
           /\ client_table' = [client_table EXCEPT ![i] =
                [c \in Client |-> Latest(@[c],
                   {x.request.request_number :
                      x \in {y \in fresh : y.request.client = c}})]]
           /\ replies' = replies \cup {Reply(x.request, i) : x \in fresh}

\* Mutant: a commit closes no batch, only a request does.
NoBacklog(i) == FALSE

HasBacklog(i) == i = Primary /\ requests # <<>>

HandleCommit(i, m) ==
  /\ m.type = "Commit"
  /\ m \in Inbox(i)
  /\ LET op == m.op_number
         digest == m.request_digest
         commits == commit_quorums[i] \cup {<<op, digest, m.replica_id>>}
         Committed(votes) ==
           IsCommitted(log[i], prepare_quorums[i], votes, op, digest)
     IN  \/ /\ Committed(commit_quorums[i])
            /\ Process(i, {m}, {})
            /\ UNCHANGED <<commit_quorums, executeVars, batchVars, replies>>
         \/ /\ ~Committed(commits)
            /\ commit_quorums' = [commit_quorums EXCEPT ![i] = commits]
            /\ Process(i, {m}, {})
            /\ UNCHANGED <<executeVars, batchVars, replies>>
         \/ /\ ~Committed(commit_quorums[i])
            /\ Committed(commits)
            /\ commit_quorums' = [commit_quorums EXCEPT ![i] = commits]
            /\ Execute(i, commits)
            /\ \/ /\ HasBacklog(i)
                  /\ CloseBatch(requests)
                  /\ Process(i, {m}, {PrePrepare(op_number + 1, requests)})
               \/ /\ ~HasBacklog(i)
                  /\ Process(i, {m}, {})
                  /\ UNCHANGED batchVars
  /\ UNCHANGED <<orderVars, prepare_quorums, in_flight>>

MainPoll(i) ==
  \/ /\ i = Primary
     /\ \E m \in Request : HandleRequest(m)
  \/ \E m \in Inbox(i) :
       HandlePrePrepare(i, m) \/ HandlePrepare(i, m) \/ HandleCommit(i, m)

===============================================================================
