---------------------------- MODULE PbftInvariants ----------------------------
(***************************************************************************)
(* Inductive invariants of the PBFT service: what the state of a replica   *)
(* says about the messages that were sent, and the messages about the      *)
(* replicas that sent them.                                                *)
(***************************************************************************)
EXTENDS Pbft

\* A message that is still to be handled by its sender was sent by it.
OwnCopies ==
  \A i \in Replica : \A m \in signing[i] : m \in network /\ Sender(m) = i

\* The primary sends one batch for each op number.
BatchesAreUnique ==
  \A p \in network : p.type = "PrePrepare" =>
    /\ p.op_number <= op_number
    /\ \A q \in network :
         q.type = "PrePrepare" /\ q.op_number = p.op_number => q = p

\* Logs and reorder buffers hold what the primary sent, logs in its order.
LogsAreSent ==
  \A i \in Replica : \A k \in 1..Len(log[i]) :
    log[i][k] \in network /\ log[i][k].op_number = k

BuffersAreSent == \A i \in Replica : reorder[i] \subseteq network

\* A replica votes for the batch that is in its log.
VotesHaveEntries ==
  \A m \in network : m.type # "PrePrepare" =>
    /\ m.op_number \in 1..Len(log[m.replica_id])
    /\ log[m.replica_id][m.op_number].request_digest = m.request_digest

\* A replica that sent a Commit has the batch prepared.
CommitsArePrepared ==
  \A m \in network : m.type = "Commit" =>
    IsPrepared(log[m.replica_id], prepare_quorums[m.replica_id],
               m.op_number, m.request_digest)

\* Quorums consist of votes that were sent.
QuorumsAreSent ==
  \A i \in Replica :
    /\ \A b \in prepare_quorums[i] : Vote("Prepare", b[1], b[2], b[3]) \in network
    /\ \A b \in commit_quorums[i] : Vote("Commit", b[1], b[2], b[3]) \in network

\* A replica executes batches that are committed.
ExecutedIsCommitted ==
  \A i \in Replica :
    /\ execute_number[i] <= Len(log[i])
    /\ \A k \in 1..execute_number[i] : CommittedAt(i, k)

\* Where no vote overtakes what its sender had to receive first, a vote is for a
\* batch that is in the log, and a Commit for one that is prepared.
QuorumsAreInOrder ==
  \A i \in Replica \ Late :
    /\ \A b \in prepare_quorums[i] : b[1] \in 1..Len(log[i])
    /\ \A b \in commit_quorums[i] :
         IsPrepared(log[i], prepare_quorums[i], b[1], b[2])

AgreementInv ==
  /\ OwnCopies
  /\ BatchesAreUnique
  /\ LogsAreSent
  /\ BuffersAreSent
  /\ VotesHaveEntries
  /\ CommitsArePrepared
  /\ QuorumsAreSent
  /\ ExecutedIsCommitted

-------------------------------------------------------------------------------

\* The slots of the batches that replica i has executed.
ExecutedSlots(i) == Slots(log[i], 1, execute_number[i])

\* The table of a replica that has executed nothing.
EmptyTable == [c \in Client |-> 0]

\* The calls are those that one pass of the filter over the whole executed log
\* lets through, however the batches were grouped.
AppIsFiltered ==
  \A i \in Replica :
    app[i] = Fresh(EmptyTable, ExecutedSlots(i))

\* The table holds each client's newest executed request.
TableIsNewest ==
  \A i \in Replica : \A c \in Client :
    /\ \A x \in ExecutedSlots(i) :
         x.request.client = c => x.request.request_number <= client_table[i][c]
    /\ client_table[i][c] # 0 =>
         HasExecuted(i, [client |-> c, request_number |-> client_table[i][c]])

\* A replica replies to what it has executed.
RepliesAreExecuted ==
  \A m \in replies :
    HasExecuted(m.replica_id,
                [client |-> m.client, request_number |-> m.request_number])

\* A client collects results of its outstanding request only.
ResultsAreExecuted ==
  \A c \in Client :
    /\ ~pending[c] => results[c] = {}
    /\ \A i \in results[c] :
         HasExecuted(i, [client |-> c, request_number |-> request_number[c]])

ExecutionInv ==
  /\ AppIsFiltered
  /\ TableIsNewest
  /\ RepliesAreExecuted
  /\ ResultsAreExecuted
  /\ ResultIsExecuted

-------------------------------------------------------------------------------

Batches == {m \in network : m.type = "PrePrepare"}

Elements(batch) == {batch[p] : p \in 1..Len(batch)}

\* A client has issued every request that is on its way, waits or is batched.
RequestsAreIssued ==
  /\ \A r \in Request : in_flight[r] > 0 => r.request_number <= request_number[r.client]
  /\ \A r \in Elements(requests) : r.request_number <= request_number[r.client]
  /\ \A b \in Batches : \A r \in Elements(b.requests) :
       r.request_number <= request_number[r.client]

\* A client's earlier requests are in earlier batches.
BatchesAreOrdered ==
  \A b \in Batches : \A r \in Elements(b.requests) :
    \A n \in 1..(r.request_number - 1) :
      \E a \in Batches :
        /\ a.op_number < b.op_number
        /\ [client |-> r.client, request_number |-> n] \in Elements(a.requests)

SequenceInv ==
  /\ RequestsAreIssued
  /\ BatchesAreOrdered

-------------------------------------------------------------------------------

\* A replica has taken in what crypto has returned to it.
OwnIsCounted ==
  \A i \in Replica : \A m \in network :
    Sender(m) = i /\ m \notin signing[i] => IsCounted(i, m)

\* The primary sends every batch it closes, and a backup votes for every entry.
BatchesAreSent == \A k \in 1..op_number : \E b \in Batches : b.op_number = k

EntriesAreVoted ==
  \A i \in Replica \ {Primary} : \A k \in 1..Len(log[i]) :
    Vote("Prepare", k, log[i][k].request_digest, i) \in network

\* A request that was issued is on its way, waits or is in a batch.
IsKept(request) ==
  \/ in_flight[request] > 0
  \/ request \in Elements(requests)
  \/ \E b \in Batches : request \in Elements(b.requests)

LastRequest(c) == [client |-> c, request_number |-> request_number[c]]

\* The request that a client waits for is not lost.
RequestsAreKept ==
  \A c \in Client : pending[c] => request_number[c] > 0 /\ IsKept(LastRequest(c))

\* A replica replies to every request it executes.
CallsAreAnswered == \A i \in Replica : \A x \in app[i] : Reply(x.request, i) \in replies

\* A client takes its result as soon as it may.
ResultsAreTaken == \A c \in Client : ~EnoughResults(results[c])

\* The handlers lose nothing that another handler or a client waits for.
ProgressInv ==
  /\ OwnIsCounted
  /\ BatchesAreSent
  /\ EntriesAreVoted
  /\ RequestsAreKept
  /\ CallsAreAnswered
  /\ ResultsAreTaken

===============================================================================
