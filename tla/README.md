# Verification of tidyup

tidyup runs replicated services for benchmarking: a PBFT service
(`src/src/pbft.rs`) and, as a baseline, an unreplicated one
(`src/src/unreplicated.rs`). This directory holds TLA+ models of
both services, of the threads they run on and of the client program that loads
them, TLC configurations that check the models on small instances, and proofs
that their safety properties hold for every instance.

Paths below are those of the repository, seen from the directory above `tla/`:
the crate is in `src/src/`, the message crate in `src/src/message/`.

## 1. The system

| Part | State | Operations |
| --- | --- | --- |
| PBFT client, `pbft::Client` (pbft.rs:16-115) | `request_number`, `op`, `results` (replies by replica), `result`, `resend_instant` | `invoke`, `take_result`, `poll` (resend on timeout, then one datagram), `do_send` |
| PBFT main thread, `pbft::MainThread` (pbft.rs:137-450) | `op_number`, `requests`, `reorder_pre_prepare`, `log`, `prepare_quorums`, `commit_quorums`, `execute_number`, `client_table`, `app` | `poll`, which dispatches to `handle_request`, `handle_pre_prepare`, `handle_prepare`, `handle_commit`; `do_close_batch`, `execute` |
| PBFT listen thread, `pbft::ListenThread` (pbft.rs:468-493) | its socket | `poll`: requests go straight to main, the other messages to crypto |
| PBFT crypto thread, `pbft::CryptoThread` (pbft.rs:495-640) | none; one queue that several threads poll | `shared_poll`: verify what arrived; sign and broadcast what main sends, and return the signed copy to main |
| Messages (`message/src/lib.rs`, `message/src/pbft.rs`) | - | `Request`, `Reply`; `PrePrepare`, `Prepare`, `Commit` |
| Channels and clock (`core.rs`) | UDP sockets | non-blocking send and receive; `now`, `after`; the ordering of `OptionInstant` |
| Application (`app.rs`) | `App::Null` has none | `execute` |
| Unreplicated client and server (`unreplicated.rs`) | `client_table`, `op_number`, `log`; the client as above | three threads and two queues |
| Replica program (`program/replica.rs`) | threads, `shutdown`, shared states, idle callbacks | `deploy`, `deploy_shared`, `run_until_interrupt`, `drop`, the SIGINT handler |
| Bench client (`program/bench_client.rs`) | clients, timers by client and by instant | `run`, `poll_client`, `update_timer`, an edge-triggered epoll loop |
| Simulated network (`simulated.rs`) | one FIFO queue, a virtual clock | test double for sockets and clock |
| Ids, cores, launcher (`misc.rs`, `main.rs`, `run/`) | two counters | start-up only |

How they interact. A client sends a request in a datagram to replica 0, the
primary of view 0. The primary's listen thread passes it to its main thread,
which puts it into the queue `requests` and, if the window of six batches in
progress allows, closes a batch: the queue becomes the batch of the next op
number. Crypto signs the PrePrepare, broadcasts it and returns it to the main
thread. Main threads accept PrePrepares in order of op number; what arrives
early waits in `reorder_pre_prepare`. A backup that accepts one broadcasts a
Prepare; a replica that has the entry and 2f Prepares broadcasts a Commit; a
replica that has 2f+1 Commits executes, in order, every batch that is committed,
and replies to each client. A commit also closes the next batch at the primary.
A client takes its result from f+1 replies and then issues its next request.

What is hard here. No message has a fixed order: UDP reorders, duplicates and
loses, and since several threads poll one crypto queue even messages of one
sender overtake one another inside a replica. A replica's own votes count only
after a detour through crypto, so that the votes of others can overtake them.
The client's timer races the protocol, so that a request may be batched twice.
Batches commit out of order, so that replicas execute them in different groups.
Queue, window and buffer must neither get stuck nor lose anything. The hazards
are listed in `PROJECT.json`, each at its line and with its properties.

Around the protocols. The unreplicated server hands a request from its listen
thread to its main thread and on to whichever thread polls the effect state;
its client resends every 10 ms, and the server repeats a reply from its table.
`program/replica` gives every deployed state a thread; a thread that was idle
for 100 ms, and every thread left over, polls the shared states. SIGINT may hit
any thread at any moment; its handler takes a mutex that the main thread waits
with. Threads end one by one, each with the state it owns, so that a thread may
send to one that is gone. `program/bench_client` drives all clients from one
thread with an edge-triggered epoll: an event that is dropped too early is never
reported again. The tests of the unreplicated service replace sockets and clock
by one queue with a filter and a clock that is elapsed by hand.

What makes each part correct:

* replicas: logs agree, are never overwritten, and what one executes is prepared
  at a quorum; the same calls reach every application, each request once and no
  request of a client before its earlier ones;
* primary: one batch for each op number, requests wait only behind a batch whose
  commit will take them along, and at most a window of batches is uncommitted;
* client: a result that is taken belongs to a request that f+1 replicas executed;
* the whole: either service is one order of execution, each request once and
  before its answer, and requests are answered;
* the threads of a replica: what main hands over goes out once and comes back
  once, in this order, and nothing stays behind in a channel;
* the replica program: work is done by running threads only and is done in the
  end; an interrupt ends the process, and no thread outlives it;
* the bench client: no socket with data and no expired timer is forgotten.

## 2. The modules

| Module | Content |
| --- | --- |
| `Service` | abstract specification: one order of execution, exactly once, answers after execution |
| `PbftMessages` | constants, message types, the datagrams on their way |
| `PbftClient` | the client and the bench client's closed loop around it |
| `PbftReplica` | the main thread: one action per handler |
| `Pbft` | clients and replicas together, `Spec`, `FairSpec` and the properties |
| `PbftService` | the refinement mapping from `Pbft` to `Service` |
| `PbftPipeline` | `Pbft` with the listen, crypto and main threads of one replica and their channels, and the inductive invariant |
| `PbftInvariants` | inductive invariants: `AgreementInv`, `ExecutionInv`, `SequenceInv`, `ProgressInv`; `QuorumsAreInOrder` where no vote overtakes |
| `PbftProofs` | types, facts about quorums, the accepted log and slots; logs agree and only grow; nobody equivocates; what is executed is prepared |
| `PbftExecutionProofs` | the same calls, each once; results are executed; nothing is with F = 0 |
| `PbftSequenceProofs` | no request of a client is skipped; the refinement of `Service` |
| `PbftQueueProofs` | the reorder buffer, the queue of requests, the window; what is not held back; the threads of a replica and their channels |
| `PbftProgressProofs` | nothing that somebody waits for is lost; the service does not come to rest while a client waits |
| `Unreplicated` | the unreplicated client, the three threads of the server and their channels |
| `UnreplicatedService` | the refinement mapping from `Unreplicated` to `Service`, and the inductive invariant |
| `UnreplicatedProofs` | the invariant and the refinement, on both transports; the rounds of the tests |
| `Simulated` | the simulated network of the tests under `Unreplicated`, one poll at a time, and its inductive invariant |
| `Transport` | both kinds of channel, sockets with fairness and the simulated network |
| `ReplicaProgram` | the threads of a replica process: deployment, idle polling, SIGINT, shutdown, panics |
| `ReplicaProgramProofs` | its inductive invariant and what follows |
| `BenchClient` | the bench client's thread: timers by client and by instant, epoll, draining |
| `BenchClientProofs` | its inductive invariant: timers are never late, wake-ups never lost |
| `MCPbft`, `MCPbftPipeline`, `MCUnreplicated`, `MCReplicaProgram`, `MCBenchClient` | instances for TLC |

### PBFT

How the model corresponds to the code:

* An action is one run of a handler to its end, because each `MainThread` is
  owned by one thread and its handlers block on nothing. `MainPoll(i)` takes one
  message: a request at the primary (`HandleRequest`), or a member of `Inbox(i)`.
* `network` holds every message ever handed to crypto for broadcast. A message
  may be handled at any later time, any number of times, or never: these are
  reordering, duplication, loss, and the crash of a receiver. Crypto's digest and
  signature checks are modelled by their result: every message in `network` was
  made by its sender and verifies.
* `signing[i]` holds what replica `i` sent and crypto has not yet returned. A
  copy comes back once (`ToMain::Signed`), in any order with the rest.
* A PrePrepare that was accepted or buffered may be delivered again only at the
  replicas in `Duplicates`. Votes may always be delivered again; a second
  delivery changes nothing (a `HashMap` insert).
* `Late` bounds the reordering of votes for model checking: a replica outside it
  handles its own copies first and no vote before it has what the voter had to
  have. The proofs make no assumption on `Late` and `Duplicates`, so that they
  cover any order and repetition.
* `HandlePrePrepare` includes the drain of `reorder_pre_prepare`, which in the
  code is a loop of `handle_pre_prepare` calls in the same `poll`; the assertion
  that the PrePrepare is the next one (`pbft.rs:320`) is a conjunct of it, so that
  a bug that makes it fail stops the handler, as the panic does. `Execute` is
  the recursion of `execute` as one step: `to` is the last batch of the run of
  committed ones (`IsSweep`), and `Fresh` is what the filter lets through when the client
  table is updated request by request.
* The maps with keys `(op_number, digest)` are sets of triples. The log is a
  sequence; `entry(log, op)` is `log[op]`.
* `client_table[i][c] = 0` stands for an absent entry; request numbers start
  from 1. `app[i]` is the set of calls of `App::execute` with their place.
* A digest is injective on batches, which is what SHA-256 is used for.
* `ClientPoll` is `poll`: it resends when the timer expires, which may be at any
  poll while a request is outstanding, and then reads at most one datagram.
  `Invoke` is `take_result` and `invoke` of `poll_client`.
* `view_number` is 0 everywhere: no code assigns a replica's, and no reply
  carries another. It is left out, and `Primary` is replica 0.


Bounds are constants, named where they are declared: `MaxRequest` (requests of
one client) and `MaxResend` (expiries of one client's timer). The theorems hold
for every value of either.

`PbftPipeline` adds, for the replica `Focus`, what `PbftReplica` abstracts from:
the listen thread's choice of channel, `to_crypto`, the threads `Crypto` in
`shared_poll` with a message each, the broadcast before the own copy is passed
on, and `to_main`. Its main thread takes the head of its channel. Another replica
receives nothing of `Focus` that is not broadcast yet. A datagram may be read
again (`Arrives`): nothing between the socket and main looks whether a message
has come before, so that several crypto threads may hold copies of one message,
and a copy may reach main long after the first. `MaxRepeat` bounds this for TLC,
`Focus` is in `Duplicates` and in `Late`, and the theorems hold for every
`MaxRepeat`. `HeadIsInInbox` says that whatever the threads bring the main
thread, in whatever order and however often, is in the unordered `Inbox` from
which `PbftReplica` lets it take: the abstraction loses no behaviour of the code.
That the threads bring nothing else about is the theorem
`PipelineImplementsPbft`: every step of theirs is one of `Pbft` or changes nothing
`Pbft` sees, so that what is proved of `Pbft` holds of the replica with its
threads.

### The unreplicated service and its transports

`Unreplicated` has an action for each poll that does something: `ListenPoll`,
`MainPoll` (the three cases of `handle_request`), `EffectPoll`, and the client's
`Invoke`, `PollExpired` (resend, then one datagram) and `PollInTime`. A request
number is checked twice in `MainPoll`, against a newer entry of the table (the
request is dropped) and against an equal one (the reply is repeated). `requests`
and `replies` hold the datagrams on their way; taking one may leave it there,
which is duplication, and `Lose` removes any. `to_main` and `to_effect` are FIFO
channels, bounded by `MaxQueue` for TLC.

`Simulated` runs the same polls as the tests do: a round polls the clients until
nobody has work, then the network, the replica, the network and the clients
again. `tx` is the queue of `Network`; its filter may drop any datagram; time is
elapsed before a round or not. `Transport` puts both under one specification,
as `TxChannel` and `RxChannel` do: the initial state decides.

### The replica program

The main thread is a program counter over the steps of `deploy`,
`run_until_interrupt` and `drop`; a step ends where another thread can tell the
difference, so that locking, checking the flag and going to sleep are three. The
handler is two steps, of any thread including the main one. The other threads
wait for their callback, run, and end when they read `shutdown`; a turn of their
loop is one step, but one that has read `shutdown` before it was set may poll
once more (`"last"`). The work is a stream of items that passes the states in the
order in which a protocol hands its messages on; one of them is marked and
followed. A state is dropped with its thread, a send to a dropped state panics,
and `shared_poll` of PBFT panics when no sender is left (`AssertsSenders`). A
panic ends the thread where panics unwind, or the process (`Unwinds`).

### The bench client

`BenchClient` is the one thread of `bench_client::Program`. A client is seen from
outside: its deadline, its socket, and whether a datagram completes its request.
The kernel's list of ready sockets, the events in the buffer, both timer tables
and the order of `OptionInstant` are modelled as they are. A poll that returns
true is `PollClientAgain`; one that returns false, with the `update_timer` after
it, is `PollClientLast`. Arrivals and the passing of time come between any two
steps.

## 3. What is model-checked

A replica set of three with `F = 1` is the deployment of four with one replica
down from the start, which is the smallest in which a quorum has no spare
member; the two violations of PBFT have all four.

| Run | Instance | Shows | Distinct states |
| --- | --- | --- | --- |
| `pbft_order` | 3 replicas, 2 clients, window 2, one replica in `Duplicates` | `LogAgreement`, `NoEquivocation`, `BufferIsSound`, `ExecutedIsPrepared`, `NothingIsHeldBack` | 257 075 |
| `pbft_batching` | 3 replicas, all in `Late`, 2 clients, window 1 | `TypeOK`, `AgreementInv`, `RequestsWaitForWindow`, `BacklogHasBatchesAhead`, `UncommittedBounded` | 168 277 |
| `pbft_service` | 3 replicas, 1 client with 2 requests and 1 resend, window 1 | `NoRequestSkipped`, `ResultIsExecuted`, `SequenceInv`, `ExecutionAgreement`, `ExactlyOnce`, `ExecutionInv`, `ImplementsService` | 141 413 |
| `pbft_live` | 3 replicas, 2 clients, window 1, `FairSpec` | `NothingIsStuck`, `EveryRequestAnswered` | 31 842 |
| `pbft_announced` | 4 replicas, one in `Late`, 1 client | `PreparedIsAnnounced` is violated | - |
| `pbft_executed` | the same | `CommittedIsExecuted` is violated | - |
| `pipeline` | 3 replicas, 1 client, the primary's threads, two of them in the crypto state, 1 datagram that arrives again | `PipelineInv`, `OwnCopiesReturnOnce`, `HeadIsInInbox` | 289 420 |
| `unreplicated` | 2 clients with 2 requests each, channels of length 1, sockets and simulated network | `UnreplicatedInv`, `ResultIsOwn`, `RoundInv`, `CompleteRoundAnswers`, `ImplementsService`, `EveryRequestAnswered` | 148 583 |
| `program` | 2 deployed states and the shared one, 0 to 3 threads, 2 signals, unwinding panics | `ProgramInv`, `NoThreadOutlivesProgram`, `WakeupNotLost`, `WorkOnlyWhileRunning`, `InterruptEnds`, `WorkIsDone`, `IdleThreadsWork` | 56 076 |
| `program_interrupt` | the same | `InterruptAlwaysEnds` is violated | - |
| `program_shutdown` | the same, 1 signal, panics that abort | `ThreadsEndInPeace` is violated | - |
| `bench` | 2 clients, 2 datagrams in each socket, a buffer of 2 events, 2 units of time | `BenchInv`, `NoWakeupLost`, `TimerNotLate`, `TimersServed`, `DatagramsRead` | 111 926 |

Why the bounds are enough. PBFT: two batches in progress are the least at which
PrePrepares arrive out of order, wait in the buffer and are drained in a sweep,
and at which batches commit out of order. A window of one batch and two clients
make a request wait. One resend makes a request reach the log twice, in two
batches that are executed one by one or together; the window of one holds the
second batch back at the primary only, so that a backup may have both in
progress. With two requests of the client, replies and copies of the first are
late for the second, and the history of the abstract service has an order. In the
pipeline two crypto threads let messages overtake one another, hold two copies of
one message when a datagram is repeated, and the batch of one request passes all
three rounds of votes. Unreplicated: two
requests of a client make copies and replies of the first late for the second,
and a second client comes in between; a channel of length one delays every
hand-over at every point. Program: `n_thread` is any number up to `MaxThread`:
too few for the deployed states, just enough, so that only idle threads poll the
shared state, and one to spare; two signals meet on two threads, or on the main
thread in any of its steps. Bench: a socket with two datagrams is the
least that one poll does not empty, two clients are the least of which one can
starve the other, and a timeout of one unit expires inside the loop, between any
two of its steps.

Every property has a plausible bug of the code, beside the definition it changes
and marked `Mutant`, that makes the run fail; each is a lost condition, an
off-by-one, a missing reset or a wrong threshold in the lines the definition
stands for.

Symmetry permutes the replicas that no constant sets apart and the clients. It is
used for invariants and the one action property of PBFT only; `pbft_service` and
the runs with liveness properties have none.

Deadlock is checked except where the system stops by design: the pipeline when
the requests are used up, the program when its process has ended, the bench
client after `run_duration`.

`ImplementsService` says that every step of the service, seen through the order
in which the most advanced replica executed, is a step of `Service` or changes
nothing. Together with `ExecutionAgreement` the choice of that replica is no
restriction: the others have executed a prefix of the same batches. For the
unreplicated service the mapping is the identity on its log.

`BacklogHasBatchesAhead` is stated for 2F+1 running replicas. With more, a batch
may be committed at the primary and stay unexecuted (the second finding below),
and requests may then wait behind batches none of which still has a commit to
come; what holds in general is `RequestsWaitForWindow`.

### Fairness

`Spec` has none: a replica or a client may stop at any step, so that every crash
is among its behaviours (nothing is persisted, and a replica that stopped never
returns), and any message may stay unhandled, so that every loss is. The safety
properties hold with all of these.

`FairSpec` adds weak fairness of each client's and each replica's next step. The
code justifies it for a run without crashes and losses: every deployed thread
polls in a loop until shutdown (`program/replica.rs:47`), and the bench client
polls whatever epoll reports and whatever timer is due (`bench_client.rs:140`).
Losses are excluded because the code has no remedy for them: only the client
resends, only to the primary, and nobody repeats a PrePrepare, Prepare or
Commit. Overtaking votes are excluded (`Late = {}`) because of the findings;
`NothingIsHeldBack` says that without them no Commit and no execution is missing.

It also presumes that what is signed comes back, that is, a thread to spare for
the crypto state or idle ones, as described for the program below.

`TransportSpec` asks that the listen thread, the main thread and the client's
timer run, and, strongly, that a datagram that is on its way again and again is
received at some time: any number of losses is allowed, but not the loss of
every copy. Here that is enough, since the client resends and the server repeats
its reply. It does not ask for polls of the effect state, which is shared: a
replica polls it with its spare threads, if it has any, and otherwise only on
threads that were idle for 100 ms, which clients that resend every 10 ms may
prevent for ever. `EveryRequestAnswered` therefore has the hypothesis
`EffectIsPolled`. On the simulated network nothing is assumed.

`FairSpec` of the program asks that every thread runs, that a thread gets a mutex
that is free again and again, and that a thread whose state stays without work is
idle for 100 ms at some time. `InterruptEnds` is about any number of signals, on
any threads: the process ends or a handler is stuck (`HandlerIsStuck`, the fourth
finding), and nothing else keeps it alive. `WorkIsDone` and `IdleThreadsWork` are
the two ways in which shared work gets done, and excuse what an interrupt cuts
off: with a spare thread it is done whatever else arrives; with as many threads
as states it is done by idle ones, once arrivals come to an end (`ArrivalsEnd`).
Without that end it need not be, and no property claims it.

`FairSpec` of the bench client asks only that its thread runs; the clock may stand
still. The source asks itself whether draining a client may live-lock
(`bench_client.rs:147`): it may, if datagrams of one client arrive as fast as
they are read. `DrainsEnd` and `EventsEnd` say that they do not, and are
hypotheses of the two liveness properties.

### Findings

1. `pbft.rs:345`. `handle_prepare` returns as soon as the batch is prepared,
   before it looks at the message. When the Prepares of 2f other replicas arrive
   before the PrePrepare, the batch is prepared the moment it is accepted; the
   replica's own Prepare takes the early return, and no Commit is sent. The
   comment at `pbft.rs:335` relies on the opposite: "no need to check for
   prepared/committed, we will check that when our own Prepare is ready".
2. `pbft.rs:374`. Likewise `handle_commit` returns as soon as the batch is
   committed. When the Commits of 2f+1 other replicas arrive before the batch is
   prepared, it is committed the moment it is prepared; the own Commit takes the
   early return and `execute` is not called, against "no need to check committed,
   same as above" (`pbft.rs:365`). The batch stays unexecuted until a later one
   commits.

   Neither endangers safety, which is proved with any order of messages. Both
   delay progress: each silences one replica, whose vote or reply another may
   then be missing. Both need overtaking votes, the second more than 2f+1
   replicas as well: where those are absent the comments are true, which is
   proved (`PreparedAnnouncedInOrder`, `CommittedExecutedInOrder`).
3. `pbft.rs:498`. Threads read `shutdown` one after the other, and a state is
   dropped with its thread. A thread in its last turn then sends to one that has
   ended, and the `unwrap` of the send panics (`pbft.rs:479`,
   `unreplicated.rs:176`); an extra thread that polls the crypto state after main
   and listen have ended finds its channel disconnected, against the
   `unreachable!()` at `pbft.rs:499`. The release build aborts; where panics
   unwind, the `thread.join().unwrap()` at `replica.rs:143` panics in turn.
4. `program/replica.rs:131`. `on_interrupt` locks the mutex of `FLAG` on whatever
   thread the signal is delivered to. The main thread holds it from its check of
   the flag to its sleep and, through `_unused` (`replica.rs:135`), from its
   wake-up until its threads are joined. A signal that the main thread handles
   while it holds the mutex blocks it for ever, be it the first; a second one
   that another thread handles between the wake-up and `SigDfl`
   (`replica.rs:136`) blocks that thread, and the main thread joins it. `run.py:87`
   waits, after the interrupts of line 86, until the shell that runs each replica
   has ended ("await gather(*tasks)"). Nor does a replica get one signal only:
   with the four hosts of `run/examples/localhost.rs:8-13` on one machine, line 86
   runs the unfiltered `pkill -INT` of `run.py:119` once for each, and every one
   of them reaches every replica that is still there. That a single signal
   is harmless unless the main thread itself handles it is proved
   (`StuckTakesTwoSignals`); that a stuck handler is all that can keep the
   process alive is what `InterruptEnds` checks.

Limits of the replica program that the model has and no line of the repository
rules out:

* A program that is dropped before `run_until_interrupt` joins threads that wait
  for their callback. Only a failed assertion of `deploy`, in a build that
  unwinds, leads there.
* With as many threads as deployed states the shared state is polled only by
  threads that are idle for 100 ms. Clients that resend every 10 ms can keep both
  threads of an unreplicated server busy, and its replies are then never sent.
  `localhost.rs` gives a replica four threads, two of them to spare.

## 4. What is proved

The theorems hold for every value of the constants: for PBFT every finite set of
replicas, every F, set of clients, number of requests and resends, window, and
every order, repetition and loss; for the unreplicated service every set of
clients and length of the channels; for the replica program any number of
threads, states and signals; for the bench client any number of clients, length
of the buffer and duration. The assumptions are those of the modules on their
constants: `PbftAssumption`, `ResendAssumption`, `ReplicaAssumption` (the
replicas are finitely many and include the primary, numbers are naturals) and
their like in the other modules; what a theorem assumes beyond them stands in
parentheses. No
theorem needs n = 3F + 1: replicas follow the code, so that agreement rests on
the primary sending one batch for each op number, not on quorum intersection.

| Theorem | Establishes | Module |
| --- | --- | --- |
| `TypeCorrect` | `TypeOK` | `PbftProofs` |
| `AgreementInvariant` | `AgreementInv` | `PbftProofs` |
| `LogsAgree` | `LogAgreement` | `PbftProofs` |
| `LogsOnlyGrow` | `LogOnlyGrows`, which no run lists | `PbftProofs` |
| `NobodyEquivocates` | `NoEquivocation` | `PbftProofs` |
| `ExecutedPrepared` | `ExecutedIsPrepared` | `PbftProofs` |
| `ExecutionInvariant` | `ExecutionInv` | `PbftExecutionProofs` |
| `ExecutionsAgree` | `ExecutionAgreement` | `PbftExecutionProofs` |
| `ExecutedOnce` | `ExactlyOnce` | `PbftExecutionProofs` |
| `ResultsExecuted` | `ResultIsExecuted` | `PbftExecutionProofs` |
| `NothingIsExecutedWithoutFaults` (`F = 0`) | no batch is executed, no client answered | `PbftExecutionProofs` |
| `SequenceInvariant` | `SequenceInv` | `PbftSequenceProofs` |
| `NothingSkipped` | `NoRequestSkipped` | `PbftSequenceProofs` |
| `PbftImplementsService` | `ImplementsService` | `PbftSequenceProofs` |
| `BufferStaysSound` (`NothingDueBuffered`, `LeftoversStayBounded`) | `BufferIsSound` | `PbftQueueProofs` |
| `LoopsTerminate` | `LoopsEnd` | `PbftQueueProofs` |
| `WaitingMeansFull` | `RequestsWaitForWindow` | `PbftQueueProofs` |
| `UncommittedStaysBounded` | `UncommittedBounded` | `PbftQueueProofs` |
| `BacklogIsBehindBatches` (`Window > 0`) | `BacklogHasBatchesAhead` | `PbftQueueProofs` |
| `NothingHeldBack` | `NothingIsHeldBack` | `PbftQueueProofs` |
| `PreparedAnnouncedInOrder` (`Late = {}`, `F > 0`) | `PreparedIsAnnounced`, of finding 1 | `PbftQueueProofs` |
| `CommittedExecutedInOrder` (`Late = {}`, or at most 2F+1 replicas) | `CommittedIsExecuted`, of finding 2 | `PbftQueueProofs` |
| `PipelineImplementsPbft` | the threads of a replica implement `Pbft` | `PbftQueueProofs` |
| `PipelineInvariant` | `PipelineInv` | `PbftQueueProofs` |
| `OwnCopiesReturn` | `OwnCopiesReturnOnce` | `PbftQueueProofs` |
| `HandledAreBroadcast` | `HandledIsBroadcast`, a part of `PipelineInv` | `PbftQueueProofs` |
| `HeadsAreInInbox` | `HeadIsInInbox` | `PbftQueueProofs` |
| `ProgressInvariant` | `ProgressInv` | `PbftProgressProofs` |
| `NothingStuck` (the hypotheses are the property's) | `NothingIsStuck` | `PbftProgressProofs` |
| `UnreplicatedInvariant` | `UnreplicatedInv` | `UnreplicatedProofs` |
| `ReplyIsFromTheLog` | `ReplyIsFromLog` | `UnreplicatedProofs` |
| `ResultsAreOwn` | `ResultIsOwn` | `UnreplicatedProofs` |
| `UnreplicatedImplementsService` | `ImplementsService` | `UnreplicatedProofs` |
| `TransportImplementsUnreplicated` | both transports implement `Unreplicated` | `UnreplicatedProofs` |
| `RoundInvariant` | `RoundInv` | `UnreplicatedProofs` |
| `CompleteRoundsAnswer` | `CompleteRoundAnswers` | `UnreplicatedProofs` |
| `ProgramInvariant` | `ProgramInv` | `ReplicaProgramProofs` |
| `NoThreadOutlives` | `NoThreadOutlivesProgram` | `ReplicaProgramProofs` |
| `NoWakeupLost` | `WakeupNotLost` | `ReplicaProgramProofs` |
| `WorkWhileRunning` | `WorkOnlyWhileRunning` | `ReplicaProgramProofs` |
| `StuckTakesTwoSignals` | a stuck handler is on the main thread, or of a second signal | `ReplicaProgramProofs` |
| `BenchInvariant` | `BenchInv` | `BenchClientProofs` |
| `WakeupsAreKept` | `NoWakeupLost` | `BenchClientProofs` |
| `TimersAreNotLate` | `TimerNotLate` | `BenchClientProofs` |

The arguments.

* Agreement. That logs agree is not inductive: a step extends a log by what is
  in the network and the buffer. `AgreementInv` says where everything comes
  from: one PrePrepare for each op number, logs and buffers hold what was sent,
  entry k is that of op number k, votes are for entries of the voter's log,
  Commits are of prepared batches, quorums consist of votes that were sent, and
  what is executed is committed. Each step is summed up in two formulas, `Grows`
  (what was accepted, counted or sent stays) and `Sends` (what a step may send);
  the parts of the invariant follow from them. A quorum of Commits then yields
  2F+1 replicas at which the batch is prepared.
* Execution. A replica executes its log in sweeps, with a client table that is
  updated by each. `ExecutionInv` says that the calls are nevertheless those that
  one pass of the filter over the whole executed log lets through. `FreshSplits`
  is the core: a pass over two parts is the pass over the first, followed by the
  pass over the second with the table the first leaves. `SweepIsCovered`, that
  after a sweep the table is as new as every request of it, takes the earliest
  call at which this fails. Then agreement on logs gives agreement on calls, and
  two calls for one request would have to be fresh one after the other.
* The order of requests. `SequenceInv` says that what waits was issued and that
  a client's earlier requests are in earlier batches. A batch is closed with
  requests that were issued, so the earlier ones were answered, hence executed
  (`ResultIsExecuted`), hence in a batch that was sent. The first slot of each
  earlier request is then let through.
* The window. A request closes a batch only inside it. A commit closes one
  without looking, but it has turned an uncommitted batch into a committed one.
* The backlog. Of 2F+1 replicas all have to commit, the primary too. Its own
  Commit was sent when the batch was prepared, so that only a Commit it handles
  makes a batch committed, and `execute` is called for it: the next batch to be
  executed is never committed (`NextIsUncommitted`). Where requests wait, the
  window is full, and that batch is closed.
* What is not held back. Where no vote overtakes, each vote that a replica counts
  stands beside its own: a Commit was counted of a batch that is prepared, a
  Prepare of one that is in the log (`QuorumsAreInOrder`), and the own vote is
  counted first. A batch thus becomes prepared, with F > 0, or committed in a
  handler of a vote, which announces it or executes it. That the next batch is
  uncommitted is the backlog's argument for any such replica.
* F = 0. Every entry of the log is prepared, so that `handle_prepare` always
  returns early and no Commit is sent, on which every execution rests.
* The reorder buffer. A drain goes on as long as the next op number is in the
  buffer, so that the due one never is, which is inductive with the types. The
  rest follows from `AgreementInv`: buffers and logs hold what the primary sent,
  one for each op number, so that what stays behind is what the log has.
* The loops. The drain stops at the first op number that the buffer has not; a
  buffer of that many PrePrepares has a gap within as many numbers. `execute`
  stops at the first batch of the log that is not committed, or at its end. The
  ranges of `last` in `HandlePrePrepare` and of `to` in `Execute` therefore never
  disable a handler.
* PBFT implements `Service`. The mapping sorts the calls of a replica that is
  chosen as the most advanced, and the choice may fall on another replica in each
  step. One always exists, because no replica executes beyond `op_number` of the
  primary. A call's place is the number of calls before it, and those of a
  replica that executes further come after all it has made (`CallsStay`); a set
  that grows in this way keeps its order (`OrderIsKept`), so that the history
  only gets longer (`HistoryGrows`), whichever replica is chosen, since the calls of
  an op number are the same everywhere (`ExecutionAgreement`). That the new part
  is what `Service` allows, each request once and in its client's order, and that
  an answer is of a request in the history, follows from `ExactlyOnce`,
  `NoRequestSkipped` and `ResultIsExecuted` (`ServiceInv`).
* The threads of a replica. `PipelineInv` has two parts. `HandOverInv` counts the
  copies of each message in the three places between listen and main:
  `to_crypto`, the crypto threads and `to_main`. Each hand-over takes one away in
  one place and adds one in the next, and the socket adds only what others have
  sent, so that the count is exact for own messages however often datagrams are
  repeated (`OwnCopiesReturnOnce`); an own message that has reached the third
  place was sent to the others before (`ReturnedIsBroadcast`). It is inductive
  together with `TypeOK` and `AgreementInv`, which say what a handler sends:
  messages that were not sent before, each of another op number (`HandsOver`), so
  that ordering them for the channel puts each in once. The second part,
  `RequestsAreBacked`, says that the socket still has every request that is in
  the channel, since main uses one up when it handles it. The head of main's
  channel is then a request that is on its way, a message of another, which was
  sent, or an own one, which is in `signing` since it has a copy
  (`HeadsAreInInbox`).
* Rest. `ProgressInv` says that nothing is lost that somebody waits for: a replica
  has taken in whatever crypto has returned to it; every batch was sent, and every
  entry of a backup's log voted for; the request that a client waits for is on its
  way, in the queue or in a batch; whoever executes a request replies; a client
  takes its result as soon as it may. It is inductive with the invariants of
  agreement, execution and order. At rest, when everything was handled
  (`Settled`), the rounds then follow one after the other: every log has every
  batch (`RestIsLogged`), as the due PrePrepare is never left in the buffer; every
  batch is prepared by the votes of all backups (`RestIsPrepared`), hence announced
  by everybody (`NothingIsHeldBack`), hence committed (`RestIsCommitted`), hence
  executed (`RestIsExecuted`). Nothing is in progress, so that no request waits for
  the window, and the batch that has a client's last request was executed and
  answered by all (`LastIsAnswered`). The client then has enough results, which
  `ResultsAreTaken` rules out. The hypotheses of `NothingIsStuck` are what this
  needs of an instance: F > 0 and `Late = {}`, as without them a Commit or an
  execution may be missing for good (the first two findings), a window, and more
  than 2F replicas to vote.
* The unreplicated service. `UnreplicatedInv` ties everything to the log: what is
  on its way was issued; each client's entry in the table lies between what was
  answered and what was issued, and is the reply to the client's last request in
  the log; replies and results are those of their place in the log; the log is in
  every client's order. A request that is executed is newer than the entry, which
  is at least what was answered, so it is the next one: every step is one of
  `Service` or changes nothing.
* The test network. Each poll is a step of `Unreplicated`, so that its invariant
  holds. `RoundInv` follows an open request through a complete round: in
  each phase it, or its answer, is in the queue that the phase empties, and
  `TurnInv` says what the three parts have found when a `Replica::poll` reports no
  work, which is when the test goes on. After the round no client is waiting, and
  the log then has every request issued once.
* The replica program. `ThreadsInv` follows the threads through the phases of the
  main thread: before the run nobody has a callback, after it everybody is
  joined. `FlagInv` says that the main thread holds the mutex from its check of
  the flag until it sleeps; a handler that sets the flag is therefore before the
  check or after the sleep, and in the latter case still has to notify.
  `SignalsInv` counts the signals: whoever waits for the mutex has taken one, the
  flag is set by one, and the main thread leaves its loop only with the flag set,
  so that a worker that it joins and that still waits has taken another.
* The bench client. `NoWakeupLost` is inductive with the types: an event leaves
  the buffer only with a poll that found the socket empty, and the kernel drops a
  socket from its list only if it is empty or reported. `DeadlineInv` bounds the
  deadlines by the clock and the tables by the deadlines: a poll only moves a
  deadline later, and `update_timer` brings both tables up to it.

Only model-checked: the seven liveness properties (`EveryRequestAnswered` of both
services, `InterruptEnds`, `WorkIsDone`, `IdleThreadsWork`, `TimersServed`,
`DatagramsRead`), since they rest on fairness and so on `ENABLED`, which the
provers cannot reason about; and the four findings, which are counterexamples.
Every invariant, action property and refinement that a passing run checks is a
theorem. Of PBFT's `EveryRequestAnswered` the part that is not temporal is one,
too, `NothingStuck`: no state in which a request is open and nothing is left to do is
reachable, so that what is left to TLC is that handling messages comes to an end
and that fairness brings it about.

Proved and in no run's list: `LoopsEnd`, `HandledIsBroadcast` and
`ReplyIsFromLog`, which are parts of the invariants that `pbft_batching`,
`pipeline` and `unreplicated` check or follow from them; `ProgressInv`, the
induction behind `NothingIsStuck`; `LogOnlyGrows`, since the log is only pushed to
and the assertion before the push (`pbft.rs:320`) guards it; `NothingIsExecuted`,
since the runs have F = 1; `StuckTakesTwoSignals`; the two theorems about the
comments behind the findings, and the two implementations
`PipelineImplementsPbft` and `TransportImplementsUnreplicated`.

## 5. What is not modelled

* Faulty replicas. Signatures are assumed to do their work and every replica to
  follow the code; there is no view change, so that a faulty or stopped primary
  ends the service.
* Overflow of op and request numbers (`u32`), the sizes of buffers, and datagrams
  that are too large or do not parse.
* The count of results (`n_result`) and its report: one atomic counter that
  nothing else reads.
* Client ids, which are taken to be distinct; core binding; the launcher and the
  configuration, which run before any thread.
* A run with the threads of a backup: `pipeline` follows the primary's, where
  requests and votes share the channel to main. The theorems hold for either.

## 6. Plan

The order was: PBFT with its composition, the abstract service and the proofs;
then the unreplicated service on both transports, the threads of a PBFT replica,
the replica program and the bench client, each with its proofs.
The proofs that were left then, of the threads of a PBFT replica, the refinement
of `Service` by PBFT and the rounds of the tests, are done, and so are those of
what is not held back, of the loops, of what main finds in its channel, and of
the service at rest. Next:

1. What the liveness properties of the other modules rest on and is not temporal,
   as `NothingStuck` is for PBFT's `EveryRequestAnswered` and
   `StuckTakesTwoSignals` for `InterruptEnds`.
2. A backup as `Focus` of a run; the theorems about the pipeline include it.

## 7. Running

```
tlc -workers 2 -config MCpbft_order.cfg MCPbft.tla
tlc -workers 2 -config MCunreplicated.cfg MCUnreplicated.tla
tlapm PbftProofs.tla
```

`PROJECT.json` lists the components, the runs, the definitions with the lines
they model, the mutants, the hazards, the findings and the theorems.
