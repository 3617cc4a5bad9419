---------------------------- MODULE ReplicaProgram ----------------------------
(***************************************************************************)
(* program/replica: the threads of one replica process, the work they hand *)
(* to each other, and the way the process ends.  A state that is deployed  *)
(* has a thread of its own; the shared state is polled by the threads that *)
(* are left over and by the idle ones.  The process runs until SIGINT,     *)
(* whose handler sets a flag under a mutex and notifies the main thread.   *)
(*                                                                         *)
(* The work is a stream of items.  Each goes through a fixed sequence of   *)
(* states, which is how the states of a Replica send to one another.  One  *)
(* of the items is marked, to be followed.                                 *)
(***************************************************************************)
EXTENDS Integers, Sequences

CONSTANTS
  State,          \* the states that can be polled
  MaxThread,      \* bound on n_thread
  Deployed,       \* the states that are deployed, in that order
  Shared,         \* the shared state
  Stages,         \* the states an item goes through
  MaxQueue,       \* bound on what waits for one state
  MaxInterrupt,   \* bound on the signals
  Unwinds,        \* whether a panic ends its thread only (in release it aborts)
  AssertsSenders  \* whether the shared state asserts that others can send to it

ASSUME ReplicaProgramAssumption ==
  /\ MaxThread \in Nat
  /\ Deployed \in Seq(State)
  /\ Shared \in State
  /\ Stages \in Seq(State)
  /\ Stages # <<>>
  /\ MaxInterrupt \in Nat
  /\ Unwinds \in BOOLEAN

VARIABLES
  n_thread,      \* the argument of Program::new
  pc,            \* where the main thread is
  started,       \* threads.len(), until they are joined
  sent,          \* callbacks sent to the deployed threads
  received,      \* callbacks received by them
  thread,        \* where each other thread is
  shutdown,      \* the atomic flag
  catching,      \* whether SIGINT has its handler
  locked,        \* whether the main thread holds the mutex of FLAG
  interrupted,   \* the value under the mutex
  handling,      \* the threads' progress in on_interrupt; thread 0 is main
  interrupts,    \* the number of signals so far
  queue,         \* the channel or socket each state reads
  mark           \* where the marked item is

mainVars == <<n_thread, pc, started, sent, shutdown, catching, locked>>
signalVars == <<interrupted, handling, interrupts>>
workVars == <<queue, mark>>
otherVars == <<received, thread, signalVars, workVars>>
vars == <<mainVars, otherVars>>

ThreadId == 1..MaxThread

HasState(t) == t <= Len(Deployed)

\* A thread in its last turn has read shutdown before it was set.
ThreadState == {"unborn", "receive", "run", "last", "done", "panicked"}

Item == [stage : 1..Len(Stages), marked : BOOLEAN]

\* Inside Program::run_until_interrupt.
Running == {"send", "spawn", "install", "lock", "check", "sleep", "wait", "relock",
            "restore", "store", "join"}

TypeOK ==
  /\ pc \in Running \cup {"deploy", "drop", "rejoin", "exited", "killed"}
  /\ n_thread \in 0..MaxThread
  /\ started \in 0..n_thread
  /\ sent \in 0..Len(Deployed)
  /\ received \in 0..sent
  /\ thread \in [ThreadId -> ThreadState]
  /\ shutdown \in BOOLEAN
  /\ catching \in BOOLEAN
  /\ locked \in BOOLEAN
  /\ interrupted \in BOOLEAN
  /\ handling \in [0..MaxThread -> {"no", "lock", "notify"}]
  /\ interrupts \in 0..MaxInterrupt
  /\ queue \in [State -> Seq(Item)]
  /\ mark \in {"before", "in", "out"}

Init ==
  /\ n_thread \in 0..MaxThread
  /\ pc = "deploy"
  /\ started = 0
  /\ sent = 0
  /\ received = 0
  /\ thread = [t \in ThreadId |-> "unborn"]
  /\ shutdown = FALSE
  /\ catching = FALSE
  /\ locked = FALSE
  /\ interrupted = FALSE
  /\ handling = [t \in 0..MaxThread |-> "no"]
  /\ interrupts = 0
  /\ queue = [s \in State |-> <<>>]
  /\ mark = "before"

Alive == pc \notin {"exited", "killed"}

Goto(l) == pc' = l

AllJoined == \A t \in ThreadId : thread[t] \in {"unborn", "done"}

NoPanic == \A t \in ThreadId : thread[t] # "panicked"

-------------------------------------------------------------------------------
(* The main thread. *)

\* Mutant: a deployed thread polls its state at once.
BornRunning == "run"

\* A deployed thread begins with waiting for its callback.
Born == "receive"

\* The assertion fails when there are more states than threads; if the panic
\* unwinds, it drops the program.
DeployState ==
  /\ pc = "deploy"
  /\ \/ /\ started = Len(Deployed)
        /\ Goto("send")
        /\ UNCHANGED <<started, thread>>
     \/ /\ started < Len(Deployed)
        /\ IF started < n_thread
           THEN /\ started' = started + 1
                /\ thread' = [thread EXCEPT ![started + 1] = Born]
                /\ UNCHANGED pc
           ELSE /\ Goto(IF Unwinds THEN "drop" ELSE "killed")
                /\ UNCHANGED <<started, thread>>
  /\ UNCHANGED <<n_thread, sent, shutdown, catching, locked, received, signalVars, workVars>>

\* Mutant: the last thread gets no callback.
SendTooFew ==
  /\ pc = "send"
  /\ IF sent + 1 < started THEN sent' = sent + 1 /\ UNCHANGED pc
                           ELSE Goto("spawn") /\ UNCHANGED sent
  /\ UNCHANGED <<n_thread, started, shutdown, catching, locked, otherVars>>

\* The channel has room for a callback per thread.
SendCallback ==
  /\ pc = "send"
  /\ IF sent < started THEN sent' = sent + 1 /\ UNCHANGED pc
                       ELSE Goto("spawn") /\ UNCHANGED sent
  /\ UNCHANGED <<n_thread, started, shutdown, catching, locked, otherVars>>

SpawnExtra ==
  /\ pc = "spawn"
  /\ \/ /\ started < n_thread
        /\ started' = started + 1
        /\ thread' = [thread EXCEPT ![started + 1] = "run"]
        /\ UNCHANGED pc
     \/ /\ started = n_thread
        /\ Goto("install")
        /\ UNCHANGED <<started, thread>>
  /\ UNCHANGED <<n_thread, sent, shutdown, catching, locked, received, signalVars, workVars>>

Install ==
  /\ pc = "install"
  /\ Goto("lock")
  /\ catching' = TRUE
  /\ UNCHANGED <<n_thread, started, sent, shutdown, locked, otherVars>>

\* For the first time, and whenever the condition variable has woken it.
Lock ==
  /\ pc \in {"lock", "relock"}
  /\ ~locked
  /\ Goto("check")
  /\ locked' = TRUE
  /\ UNCHANGED <<n_thread, started, sent, shutdown, catching, otherVars>>

CheckFlag ==
  /\ pc = "check"
  /\ Goto(IF interrupted THEN "restore" ELSE "sleep")
  /\ UNCHANGED <<n_thread, started, sent, shutdown, catching, locked, otherVars>>

\* Releasing the mutex and going to sleep are one step of the condition
\* variable.
Sleep ==
  /\ pc = "sleep"
  /\ Goto("wait")
  /\ locked' = FALSE
  /\ UNCHANGED <<n_thread, started, sent, shutdown, catching, otherVars>>

\* The guard _unused is kept.
Restore ==
  /\ pc = "restore"
  /\ Goto("store")
  /\ catching' = FALSE
  /\ UNCHANGED <<n_thread, started, sent, shutdown, locked, otherVars>>

StoreShutdown ==
  /\ pc = "store"
  /\ Goto("join")
  /\ shutdown' = TRUE
  /\ UNCHANGED <<n_thread, started, sent, catching, locked, otherVars>>

\* Mutant: the run returns without waiting for its threads.
NoJoin ==
  /\ pc = "join"
  /\ Goto("drop")
  /\ locked' = FALSE
  /\ started' = 0
  /\ UNCHANGED <<n_thread, sent, shutdown, catching, otherVars>>

\* The guard is dropped on return.
Join ==
  /\ pc = "join"
  /\ AllJoined
  /\ Goto("drop")
  /\ locked' = FALSE
  /\ started' = 0
  /\ UNCHANGED <<n_thread, sent, shutdown, catching, otherVars>>

\* The first thread that has panicked makes its join panic; the threads after it
\* are not joined any more.
JoinPanicked ==
  /\ pc = "join"
  /\ \E t \in ThreadId :
       /\ thread[t] = "panicked"
       /\ \A u \in 1..(t - 1) : thread[u] = "done"
  /\ Goto("drop")
  /\ locked' = FALSE
  /\ started' = 0
  /\ UNCHANGED <<n_thread, sent, shutdown, catching, otherVars>>

\* Only the threads that are still in the list are joined.
DropProgram ==
  /\ pc = "drop"
  /\ Goto("rejoin")
  /\ shutdown' = TRUE
  /\ UNCHANGED <<n_thread, started, sent, catching, locked, otherVars>>

JoinDropped ==
  /\ pc = "rejoin"
  /\ started > 0 => AllJoined
  /\ Goto("exited")
  /\ started' = 0
  /\ UNCHANGED <<n_thread, sent, shutdown, catching, locked, otherVars>>

\* The main thread does not go on while it runs the handler.
MainStep ==
  /\ handling[0] = "no"
  /\ \/ DeployState \/ SendCallback \/ SpawnExtra \/ Install \/ Lock \/ CheckFlag
     \/ Sleep \/ Restore \/ StoreShutdown \/ Join \/ JoinPanicked \/ DropProgram
     \/ JoinDropped

\* A condition variable may wake without being notified.
SpuriousWakeup ==
  /\ pc = "wait"
  /\ handling[0] = "no"
  /\ Goto("relock")
  /\ UNCHANGED <<n_thread, started, sent, shutdown, catching, locked, otherVars>>

-------------------------------------------------------------------------------
(* SIGINT. *)

\* The signal goes to a thread that is not in the handler; without a handler
\* it kills the process.
Interrupt(t) ==
  /\ Alive
  /\ interrupts < MaxInterrupt
  /\ t # 0 => thread[t] \in {"receive", "run", "last"}
  /\ handling[t] = "no"
  /\ interrupts' = interrupts + 1
  /\ \/ /\ catching
        /\ handling' = [handling EXCEPT ![t] = "lock"]
        /\ UNCHANGED pc
     \/ /\ ~catching
        /\ Goto("killed")
        /\ UNCHANGED handling
  /\ UNCHANGED <<n_thread, started, sent, shutdown, catching, locked, received, thread, interrupted,
                 workVars>>

\* Mutant: the flag is set without its mutex.
SetFlagUnlocked(t) ==
  /\ Alive
  /\ handling[t] = "lock"
  /\ interrupted' = TRUE
  /\ handling' = [handling EXCEPT ![t] = "notify"]
  /\ UNCHANGED <<mainVars, received, thread, interrupts, workVars>>

\* The main thread has panicked while it held the mutex.
IsPoisoned == pc \in {"drop", "rejoin"} /\ ~NoPanic

\* The mutex is free again at the end of the statement.  A poisoned one makes
\* the handler panic, which nothing can unwind.
SetFlag(t) ==
  /\ Alive
  /\ handling[t] = "lock"
  /\ ~locked
  /\ \/ /\ ~IsPoisoned
        /\ interrupted' = TRUE
        /\ handling' = [handling EXCEPT ![t] = "notify"]
        /\ UNCHANGED pc
     \/ /\ IsPoisoned
        /\ Goto("killed")
        /\ UNCHANGED <<interrupted, handling>>
  /\ UNCHANGED <<n_thread, started, sent, shutdown, catching, locked, received, thread,
                 interrupts, workVars>>

\* Mutant: nobody is notified.
NotifyNobody(t) ==
  /\ Alive
  /\ handling[t] = "notify"
  /\ handling' = [handling EXCEPT ![t] = "no"]
  /\ UNCHANGED <<mainVars, received, thread, interrupted, interrupts, workVars>>

Notify(t) ==
  /\ Alive
  /\ handling[t] = "notify"
  /\ handling' = [handling EXCEPT ![t] = "no"]
  /\ Goto(IF pc = "wait" THEN "relock" ELSE pc)
  /\ UNCHANGED <<n_thread, started, sent, shutdown, catching, locked, received, thread,
                 interrupted, interrupts, workVars>>

-------------------------------------------------------------------------------
(* The work. *)

\* A channel at its bound takes only the marked item.
Put(queues, s, item) ==
  IF item.marked \/ Len(queues[s]) < MaxQueue
  THEN [queues EXCEPT ![s] = Append(@, item)]
  ELSE queues

\* A datagram for the replica; its socket is bound before the threads start.
Arrive ==
  /\ Alive
  /\ \E marked \in BOOLEAN :
       /\ marked => mark = "before"
       /\ queue' = Put(queue, Stages[1], [stage |-> 1, marked |-> marked])
       /\ mark' = IF marked THEN "in" ELSE mark
  /\ UNCHANGED <<mainVars, received, thread, signalVars>>

\* A state is dropped with its thread, and its channel is closed then.
IsClosed(s) ==
  \E t \in ThreadId :
    HasState(t) /\ Deployed[t] = s /\ thread[t] \in {"done", "panicked"}

\* A poll of s that returns true.
TakeWork(s) ==
  /\ queue[s] # <<>>
  /\ LET item == Head(queue[s])
         left == [queue EXCEPT ![s] = Tail(@)]
     IN  \/ /\ item.stage < Len(Stages)
            /\ ~IsClosed(Stages[item.stage + 1])
            /\ queue' = Put(left, Stages[item.stage + 1], [item EXCEPT !.stage = @ + 1])
            /\ UNCHANGED mark
         \/ /\ item.stage = Len(Stages)
            /\ queue' = left
            /\ mark' = IF item.marked THEN "out" ELSE mark

\* A poll of s that panics: what it has taken cannot be sent on.
LoseWork(s) ==
  /\ queue[s] # <<>>
  /\ Head(queue[s]).stage < Len(Stages)
  /\ IsClosed(Stages[Head(queue[s]).stage + 1])
  /\ queue' = [queue EXCEPT ![s] = Tail(@)]
  /\ UNCHANGED mark

-------------------------------------------------------------------------------
(* The other threads; a turn of a loop is one step.  What others do between  *)
(* reading shutdown and the poll matters only if it is to set it.            *)

IsActive(t) ==
  /\ Alive
  /\ handling[t] = "no"
  /\ thread[t] \in {"run", "last"}

Receive(t) ==
  /\ Alive
  /\ handling[t] = "no"
  /\ thread[t] = "receive"
  /\ received < sent
  /\ received' = received + 1
  /\ thread' = [thread EXCEPT ![t] = "run"]
  /\ UNCHANGED <<mainVars, signalVars, workVars>>

Panic(t) ==
  /\ thread' = [thread EXCEPT ![t] = "panicked"]
  /\ Goto(IF Unwinds THEN pc ELSE "killed")
  /\ UNCHANGED <<n_thread, started, sent, shutdown, catching, locked>>

\* One turn, with a poll of s.
PollOnce(t, s) ==
  /\ IsActive(t)
  /\ thread[t] = "run"
  /\ \/ /\ TakeWork(s)
        /\ thread' = [thread EXCEPT ![t] = IF shutdown THEN "last" ELSE "run"]
        /\ UNCHANGED mainVars
     \/ /\ LoseWork(s)
        /\ Panic(t)
  /\ UNCHANGED <<received, signalVars>>

\* A poll that succeeds restarts the 100 ms.
PollState(t) ==
  /\ HasState(t)
  /\ PollOnce(t, Deployed[t])

\* Mutant: only the threads that have work go on to the shared state.
PollIdleBusy(t) ==
  /\ HasState(t)
  /\ queue[Deployed[t]] # <<>>
  /\ PollOnce(t, Shared)

\* The last 100 ms and this poll had nothing for the state: on_idle.
PollIdle(t) ==
  /\ HasState(t)
  /\ queue[Deployed[t]] = <<>>
  /\ PollOnce(t, Shared)

PollShared(t) ==
  /\ ~HasState(t)
  /\ PollOnce(t, Shared)

\* The shared state is empty and nobody is left who could send to it.
PollDisconnected(t) ==
  /\ AssertsSenders
  /\ IsActive(t)
  /\ thread[t] = "run"
  /\ ~HasState(t)
  /\ queue[Shared] = <<>>
  /\ \A k \in 1..Len(Deployed) : IsClosed(Deployed[k])
  /\ Panic(t)
  /\ UNCHANGED <<received, signalVars, workVars>>

Stop(t) ==
  /\ IsActive(t)
  /\ shutdown
  /\ thread' = [thread EXCEPT ![t] = "done"]
  /\ UNCHANGED <<mainVars, received, signalVars, workVars>>

ThreadStep(t) ==
  \/ Receive(t) \/ PollState(t) \/ PollIdle(t) \/ PollShared(t)
  \/ PollDisconnected(t) \/ Stop(t)

-------------------------------------------------------------------------------

Next ==
  \/ MainStep
  \/ SpuriousWakeup
  \/ \E t \in 0..MaxThread : Interrupt(t) \/ SetFlag(t) \/ Notify(t)
  \/ Arrive
  \/ \E t \in ThreadId : ThreadStep(t)

Spec == Init /\ [][Next]_vars

\* Every thread runs, and gets a mutex that is free again and again.  A state
\* that stays without work is idle for 100 ms at some time.
FairSpec ==
  /\ Spec
  /\ WF_vars(MainStep)
  /\ \A t \in 0..MaxThread : SF_vars(SetFlag(t)) /\ WF_vars(Notify(t))
  /\ \A t \in ThreadId :
       /\ WF_vars(Receive(t))
       /\ WF_vars(PollState(t))
       /\ WF_vars(PollIdle(t))
       /\ WF_vars(PollShared(t))
       /\ WF_vars(Stop(t))

-------------------------------------------------------------------------------
(* The inductive invariant. *)

\* A deployed thread gets a callback; no state is polled outside the run, for
\* before it no thread has a callback, and afterwards there is no thread, unless
\* one has panicked.
ThreadsInv ==
  /\ pc \in {"deploy", "send"} => started <= Len(Deployed)
  /\ pc \in {"deploy", "send", "spawn"} =>
       \A t \in ThreadId : t > started => thread[t] = "unborn"
  /\ NoPanic /\ pc \in {"deploy", "drop", "rejoin", "exited"} =>
       \A t \in ThreadId : thread[t] \notin {"run", "last"}
  /\ pc = "deploy" => sent = 0 /\ NoPanic
  /\ NoPanic /\ pc \in {"drop", "rejoin"} => sent = 0 \/ AllJoined
  /\ NoPanic /\ pc \in {"drop", "rejoin"} => started > 0 \/ AllJoined
  /\ NoPanic /\ pc = "exited" => AllJoined

\* Between its check of the flag and its sleep the main thread has the mutex.
FlagInv ==
  /\ pc \in {"check", "sleep", "restore", "store", "join"} => locked
  /\ pc = "sleep" => ~interrupted
  /\ interrupted /\ pc = "wait" => \E t \in 0..MaxThread : handling[t] = "notify"

\* What signals leave behind: a thread in the handler has taken one, and one that
\* still waits for the mutex was not the only one, if another waits too or has
\* set the flag.
SignalsInv ==
  /\ interrupted => interrupts > 0
  /\ pc \in {"restore", "store", "join"} => interrupted
  /\ \A t \in 0..MaxThread : handling[t] # "no" => interrupts > 0
  /\ \A t, u \in 0..MaxThread :
       handling[t] = "lock" /\ (interrupted \/ (u # t /\ handling[u] = "lock")) =>
         interrupts > 1

ProgramInv == TypeOK /\ ThreadsInv /\ FlagInv /\ SignalsInv

-------------------------------------------------------------------------------
(* Properties. *)

\* When the process ends by itself, each of its threads has ended (the joins of
\* run_until_interrupt and of drop), unless one has panicked: then join panics.
NoThreadOutlivesProgram == pc = "exited" /\ NoPanic => AllJoined

\* A main thread that sleeps although the flag is set is about to be notified
\* (the mutex of FLAG, wait_while and on_interrupt).
WakeupNotLost ==
  interrupted /\ pc = "wait" => \E t \in 0..MaxThread : handling[t] = "notify"

\* No state is polled before the run begins, when not every state may be
\* deployed yet, or after it has ended (the callbacks and the joins).
WorkOnlyWhileRunning ==
  [][\A s \in State : NoPanic /\ Len(queue'[s]) < Len(queue[s]) => pc \in Running]_vars

\* Threads end in any order and the last turn of one may still send to another:
\* nobody panics all the same (thread.join().unwrap(), the unwrap of every send,
\* and the unreachable!() for a channel without senders).
ThreadsEndInPeace == NoPanic

\* The handler waits for ever for the mutex of FLAG: it runs on the main thread,
\* which holds the mutex, or on a thread that the main thread joins with the mutex
\* in its hands (_unused).
HandlerIsStuck ==
  /\ locked
  /\ \/ handling[0] = "lock"
     \/ pc = "join" /\ \E t \in ThreadId : handling[t] = "lock"

\* Interrupts end the process, however many there are, whichever threads handle
\* them and however early they come, or they leave a handler stuck: nothing else
\* keeps the main thread from waking, joining its threads and returning
\* (on_interrupt, wait_while and the joins).
InterruptEnds == (interrupts > 0) ~> [](~Alive \/ HandlerIsStuck)

\* An interrupt ends the process: run.py sends it to the replicas with pkill -INT
\* and then waits until the shell that runs each of them has ended.
InterruptAlwaysEnds == (interrupts > 0) ~> ~Alive

IsWorkedOff == mark = "out" \/ interrupts > 0

\* With a thread to spare, what arrives is worked off in the end, whatever else
\* keeps arriving, unless the process is interrupted: every thread gets its
\* callback and takes its turns, and the spare one polls the shared state (the
\* loops of deploy and run_until_interrupt).
WorkIsDone == (mark = "in" /\ n_thread > Len(Deployed)) ~> IsWorkedOff

\* Datagrams come to an end.
ArrivalsEnd == <>[][~Arrive]_vars

\* Without a thread to spare, what arrives is worked off once datagrams stop: a
\* thread whose own state has nothing left to do polls the shared state, although
\* it is not its own (on_idle, after 100 ms).
IdleThreadsWork ==
  ArrivalsEnd => ((mark = "in" /\ n_thread = Len(Deployed)) ~> IsWorkedOff)

===============================================================================
