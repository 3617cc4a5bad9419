--------------------------------- MODULE Pbft ---------------------------------
(***************************************************************************)
(* The PBFT service: closed-loop clients and replicas that exchange        *)
(* datagrams.                                                              *)
(*                                                                         *)
(* Spec promises no progress: a replica or a client may stop at any point  *)
(* and any datagram may stay undelivered, so its behaviours include every  *)
(* crash and every loss.  FairSpec is a run in which no datagram is lost   *)
(* and no actor stops.                                                     *)
(***************************************************************************)
EXTENDS PbftClient, PbftReplica

vars == <<networkVars, clientVars, replicaVars>>

Init ==
  /\ NetworkInit
  /\ ClientInit
  /\ ReplicaInit

ClientNext(c) ==
  /\ Invoke(c) \/ ClientPoll(c)
  /\ UNCHANGED replicaVars

ReplicaNext(i) ==
  /\ MainPoll(i)
  /\ UNCHANGED clientVars

Next ==
  \/ \E c \in Client : ClientNext(c)
  \/ \E i \in Replica : ReplicaNext(i)

Spec == Init /\ [][Next]_vars

\* Every thread polls in a loop until shutdown, and one that no state needs polls
\* the crypto state, so what a replica has to handle reaches main and is handled,
\* and an armed timer expires at last.  (With a thread for each state and no more,
\* the crypto state is polled only by threads that were idle for 100 ms.)
FairSpec ==
  /\ Spec
  /\ \A c \in Client : WF_vars(ClientNext(c))
  /\ \A i \in Replica : WF_vars(ReplicaNext(i))

TypeOK ==
  /\ NetworkTypeOK
  /\ ClientTypeOK
  /\ ReplicaTypeOK

-------------------------------------------------------------------------------
(* Agreement among replicas. *)

\* Wherever two logs both have an entry, it is the same one, whatever order
\* the PrePrepares arrived in (reorder_pre_prepare, MainThread::poll).
LogAgreement ==
  \A i, j \in Replica : \A k \in 1..Len(log[i]) :
    k <= Len(log[j]) => log[i][k] = log[j][k]

\* No replica sends two different messages of one kind for one op number, even
\* if the PrePrepare reaches it again or a Prepare reaches it before it
\* (do_close_batch, handle_pre_prepare, handle_prepare).
NoEquivocation ==
  \A m, n \in network :
    /\ m.type = n.type
    /\ m.op_number = n.op_number
    /\ Sender(m) = Sender(n)
    => m = n

\* Two replicas that executed a batch made the same calls to the application
\* for it, even if one executed it alone and the other in one sweep with its
\* neighbours (the loop and the filter of execute).
ExecutionAgreement ==
  \A i, j \in Replica : \A x \in app[i] :
    x.op_number <= execute_number[j] => x \in app[j]

\* No request reaches the application twice at a replica, however often it
\* was resent and batched (the client table and the second filter).
ExactlyOnce ==
  \A i \in Replica : \A x, y \in app[i] : x.request = y.request => x = y

\* A replica executes the requests of one client without a gap: a request is
\* executed only after all the client's earlier ones.
NoRequestSkipped ==
  \A i \in Replica : \A x \in app[i] : \A n \in 1..(x.request.request_number - 1) :
    \E y \in app[i] :
      /\ y.request = [client |-> x.request.client, request_number |-> n]
      /\ Precedes(y, x)

\* A batch that any replica executed is prepared, as it is in that replica's
\* log, at 2F+1 replicas, so that F of them may stop (is_committed counts votes
\* of replicas for which is_prepared held).
ExecutedIsPrepared ==
  \A i \in Replica : \A k \in 1..execute_number[i] :
    Cardinality({r \in Replica :
      /\ IsPrepared(log[r], prepare_quorums[r], k, log[i][k].request_digest)
      /\ log[r][k] = log[i][k]}) > 2 * F

\* The PrePrepare that is due is never left in the reorder buffer (the drain
\* loop of MainThread::poll).
NothingDueIsBuffered ==
  \A i \in Replica : NextEntry(i) \notin OpNumbers(reorder[i])

\* What arrives again stays in the reorder buffer for ever, but it is what the log
\* has, and the buffer holds one PrePrepare for each closed batch at most (the
\* insertion in MainThread::poll, which nothing undoes for past op numbers).
LeftoversAreBounded ==
  \A i \in Replica :
    /\ \A e \in reorder[i] : e.op_number <= Len(log[i]) => e = log[i][e.op_number]
    /\ Cardinality(reorder[i]) <= op_number

\* The reorder buffer holds what is not due yet and what came too late, and
\* neither keeps the log back nor grows beyond the batches (MainThread::poll).
BufferIsSound == NothingDueIsBuffered /\ LeftoversAreBounded

\* The drain of the reorder buffer and the recursion of execute come to an end,
\* and they reach no batch beyond the buffer and the log (the loop after
\* handle_pre_prepare in MainThread::poll, and execute).
LoopsEnd ==
  \A i \in Replica : \A m \in network :
    /\ m.type = "PrePrepare" /\ IsDue(i, m) =>
         \E last \in m.op_number..(m.op_number + Cardinality(reorder[i])) :
           IsLastDue(i, m, last)
    /\ m.type = "Commit" =>
         LET ballot == <<m.op_number, m.request_digest, m.replica_id>>
         IN  \E to \in execute_number[i]..Len(log[i]) :
               IsSweep(i, commit_quorums[i] \cup {ballot}, to)

\* A PrePrepare that arrives again or late never displaces or removes an entry
\* of the log (the branch on next_entry_number in MainThread::poll).
LogOnlyGrows ==
  [][\A i \in Replica : \A k \in 1..Len(log[i]) :
       k <= Len(log'[i]) /\ log'[i][k] = log[i][k]]_vars

-------------------------------------------------------------------------------
(* The primary's batching. *)

CommittedAt(i, k) ==
  /\ k \in 1..Len(log[i])
  /\ IsReady(i, commit_quorums[i], k)

\* Requests wait only while the window is full: whatever opens it has closed
\* the next batch (handle_request, handle_commit).
RequestsWaitForWindow == requests # <<>> => ~WindowOpen

\* Of 2F+1 running replicas none commits without its own vote, so that requests
\* wait only behind a batch whose commit is still to come and will close the
\* next one.  (With more replicas it may be CommittedIsExecuted that fails.)
BacklogHasBatchesAhead ==
  Cardinality(Replica) <= 2 * F + 1 /\ requests # <<>> =>
    \E k \in (execute_number[Primary] + 1)..op_number : ~CommittedAt(Primary, k)

\* At most Window batches are closed and uncommitted at the primary, although
\* handle_commit closes a batch without looking at the window.
UncommittedBounded ==
  Cardinality({k \in (execute_number[Primary] + 1)..op_number :
                 ~CommittedAt(Primary, k)}) <= Window

-------------------------------------------------------------------------------
(* What a client may conclude from its result. *)

Answered(c) == IF pending[c] THEN request_number[c] - 1 ELSE request_number[c]

HasExecuted(i, request) == \E x \in app[i] : x.request = request

\* A request whose result the client has taken was executed by F+1 replicas
\* (the client counts one reply per replica, of the outstanding request only).
ResultIsExecuted ==
  \A c \in Client : \A n \in 1..Answered(c) :
    Cardinality({i \in Replica :
      HasExecuted(i, [client |-> c, request_number |-> n])}) > F

-------------------------------------------------------------------------------
(* What the comments of handle_pre_prepare and handle_prepare rely on. *)

HandledOwn(i, m) == m \in network /\ m \notin signing[i]

\* "no need to check for prepared/committed, we will check that when our own
\* Prepare is ready": once main has handled its own Prepare of a batch that is
\* prepared, it has sent the Commit.
PreparedIsAnnounced ==
  \A i \in Replica : \A k \in 1..Len(log[i]) :
    LET digest == log[i][k].request_digest
    IN  /\ HandledOwn(i, Vote("Prepare", k, digest, i))
        /\ IsPrepared(log[i], prepare_quorums[i], k, digest)
        => Vote("Commit", k, digest, i) \in network

\* "no need to check committed, same as above": once main has handled its own
\* Commit of the next batch to execute, the batch is not left committed and
\* unexecuted.
CommittedIsExecuted ==
  \A i \in Replica : \A k \in 1..Len(log[i]) :
    /\ k = execute_number[i] + 1
    /\ HandledOwn(i, Vote("Commit", k, log[i][k].request_digest, i))
    => ~CommittedAt(i, k)

\* Both comments hold where no vote overtakes what its sender had to receive
\* first: a replica has sent its Commit of every prepared batch, its own
\* Prepares handled or not, and the next batch to execute is not committed.
\* (With F = 0 no Prepare makes a batch prepared.)
NothingIsHeldBack ==
  \A i \in Replica \ Late :
    /\ \A k \in 1..Len(log[i]) :
         LET digest == log[i][k].request_digest
         IN  F > 0 /\ IsPrepared(log[i], prepare_quorums[i], k, digest)
               => Vote("Commit", k, digest, i) \in network
    /\ ~CommittedAt(i, execute_number[i] + 1)

-------------------------------------------------------------------------------
(* Progress. *)

\* Replica i has taken in message m: to handle it again changes nothing.
IsCounted(i, m) ==
  LET ballot == <<m.op_number, m.request_digest, m.replica_id>>
  IN  /\ m.type = "PrePrepare" =>
           m.op_number \in 1..Len(log[i]) \cup OpNumbers(reorder[i])
      /\ m.type = "Prepare" =>
           \/ IsPrepared(log[i], prepare_quorums[i], m.op_number, m.request_digest)
           \/ ballot \in prepare_quorums[i]
      /\ m.type = "Commit" =>
           \/ IsCommitted(log[i], prepare_quorums[i], commit_quorums[i],
                          m.op_number, m.request_digest)
           \/ ballot \in commit_quorums[i]

\* Nobody has anything left to handle.
Settled ==
  /\ \A r \in Request : in_flight[r] = 0
  /\ \A i \in Replica : \A m \in Inbox(i) : m \notin signing[i] /\ IsCounted(i, m)
  /\ \A m \in replies : IsAwaited(m.client, m) => m.replica_id \in results[m.client]

\* Where no vote overtakes and a quorum runs, the service never comes to rest
\* before its clients have their results: if every message was handled, nobody
\* waits (do_close_batch, handle_prepare and handle_commit lose no request, no
\* quorum and no execution, and execute answers what it executes).
NothingIsStuck ==
  /\ Late = {}
  /\ F > 0
  /\ Window > 0
  /\ Cardinality(Replica) > 2 * F
  /\ Settled
  => \A c \in Client : ~pending[c]

\* When nothing is lost, no vote overtakes what it depends on and a thread is left
\* for the crypto state, every request is answered (the whole of the normal case).
EveryRequestAnswered ==
  \A c \in Client : \A n \in 1..MaxRequest :
    (request_number[c] = n) ~> (Answered(c) >= n)

===============================================================================
