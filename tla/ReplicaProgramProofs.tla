------------------------- MODULE ReplicaProgramProofs -------------------------
(***************************************************************************)
(* Proofs about the replica program, for any number of threads, states and *)
(* signals, and for signals at any moment.                                 *)
(***************************************************************************)
EXTENDS ReplicaProgram, TLAPS

LEMMA Sizes ==
  /\ MaxThread \in Nat /\ MaxInterrupt \in Nat
  /\ Len(Deployed) \in Nat
  /\ Len(Stages) \in Nat \ {0}
BY ReplicaProgramAssumption

-------------------------------------------------------------------------------
(* The queues. *)

LEMMA PutKeepsType ==
  ASSUME NEW queues \in [State -> Seq(Item)], NEW s \in State, NEW item \in Item
  PROVE  Put(queues, s, item) \in [State -> Seq(Item)]
<1>1. Append(queues[s], item) \in Seq(Item)
  OBVIOUS
<1> QED  BY <1>1 DEF Put

LEMMA PutShrinksNothing ==
  ASSUME NEW queues \in [State -> Seq(Item)], NEW s \in State, NEW item \in Item,
         NEW r \in State
  PROVE  Len(Put(queues, s, item)[r]) >= Len(queues[r])
<1>1. queues[r] \in Seq(Item) /\ queues[s] \in Seq(Item)
  OBVIOUS
<1>2. Len(Append(queues[s], item)) = Len(queues[s]) + 1
  BY <1>1
<1>3. Len(queues[r]) \in Nat /\ Len(queues[s]) \in Nat
  BY <1>1
<1> QED  BY <1>2, <1>3 DEF Put

LEMMA ArriveStep ==
  ASSUME TypeOK, Arrive
  PROVE  /\ queue' \in [State -> Seq(Item)]
         /\ mark' \in {"before", "in", "out"}
         /\ \A r \in State : Len(queue'[r]) >= Len(queue[r])
         /\ UNCHANGED <<mainVars, received, thread, signalVars>>
<1>1. PICK marked \in BOOLEAN :
        /\ queue' = Put(queue, Stages[1], [stage |-> 1, marked |-> marked])
        /\ mark' = IF marked THEN "in" ELSE mark
  BY DEF Arrive
<1>2. Stages[1] \in State /\ 1 \in 1..Len(Stages)
  BY ReplicaProgramAssumption
<1>3. [stage |-> 1, marked |-> marked] \in Item
  BY <1>2 DEF Item
<1>4. queue \in [State -> Seq(Item)] /\ mark \in {"before", "in", "out"}
  BY DEF TypeOK
<1> QED
  BY <1>1, <1>2, <1>3, <1>4, PutKeepsType, PutShrinksNothing DEF Arrive

LEMMA TakeStep ==
  ASSUME TypeOK, NEW s \in State, TakeWork(s)
  PROVE  queue' \in [State -> Seq(Item)] /\ mark' \in {"before", "in", "out"}
<1> DEFINE item == Head(queue[s])
           left == [queue EXCEPT ![s] = Tail(@)]
<1>1. queue \in [State -> Seq(Item)] /\ mark \in {"before", "in", "out"}
  BY DEF TypeOK
<1>2. item \in Item /\ left \in [State -> Seq(Item)]
  <2>1. queue[s] \in Seq(Item) /\ queue[s] # <<>>
    BY <1>1 DEF TakeWork
  <2>2. Head(queue[s]) \in Item /\ Tail(queue[s]) \in Seq(Item)
    BY <2>1
  <2> QED  BY <1>1, <2>2
<1>3. \/ /\ item.stage < Len(Stages)
         /\ queue' = Put(left, Stages[item.stage + 1], [item EXCEPT !.stage = @ + 1])
         /\ UNCHANGED mark
      \/ /\ queue' = left
         /\ mark' = IF item.marked THEN "out" ELSE mark
  BY DEF TakeWork
<1> HIDE DEF item, left
<1>4. CASE /\ item.stage < Len(Stages)
           /\ queue' = Put(left, Stages[item.stage + 1], [item EXCEPT !.stage = @ + 1])
           /\ UNCHANGED mark
  <2>1. item.stage + 1 \in 1..Len(Stages) /\ Len(Stages) \in Nat
    BY <1>2, <1>4, Sizes DEF Item
  <2>2. Stages[item.stage + 1] \in State
    BY <2>1, ReplicaProgramAssumption
  <2>3. [item EXCEPT !.stage = @ + 1] \in Item
    BY <1>2, <2>1 DEF Item
  <2> QED  BY <1>1, <1>2, <1>4, <2>2, <2>3, PutKeepsType
<1>5. CASE /\ queue' = left
           /\ mark' = IF item.marked THEN "out" ELSE mark
  BY <1>1, <1>2, <1>5
<1> QED  BY <1>3, <1>4, <1>5

LEMMA LoseStep ==
  ASSUME TypeOK, NEW s \in State, LoseWork(s)
  PROVE  queue' \in [State -> Seq(Item)] /\ mark' \in {"before", "in", "out"}
<1>1. /\ queue \in [State -> Seq(Item)] /\ mark \in {"before", "in", "out"}
      /\ queue[s] \in Seq(Item) /\ queue[s] # <<>>
  BY DEF TypeOK, LoseWork
<1>2. Tail(queue[s]) \in Seq(Item)
  BY <1>1
<1> QED  BY <1>1, <1>2 DEF LoseWork

\* What one turn of a thread does to the threads and the main thread.
LEMMA TurnStep ==
  ASSUME ProgramInv, NEW t \in ThreadId,
         PollState(t) \/ PollIdle(t) \/ PollShared(t) \/ PollDisconnected(t)
  PROVE  /\ thread[t] = "run" /\ Alive
         /\ queue' \in [State -> Seq(Item)] /\ mark' \in {"before", "in", "out"}
         /\ UNCHANGED <<n_thread, received, signalVars, started, sent, shutdown, catching, locked>>
         /\ \/ /\ \E l \in {"run", "last"} : thread' = [thread EXCEPT ![t] = l]
               /\ pc' = pc
            \/ /\ thread' = [thread EXCEPT ![t] = "panicked"]
               /\ pc' \in {pc, "killed"}
<1>1. CASE PollState(t) \/ PollIdle(t) \/ PollShared(t)
  <2>1. PICK s \in State : PollOnce(t, s)
    <3>1. HasState(t) => Deployed[t] \in State
      BY ReplicaProgramAssumption DEF HasState, ThreadId
    <3> QED  BY <1>1, <3>1, ReplicaProgramAssumption DEF PollState, PollIdle, PollShared
  <2>2. CASE TakeWork(s)
    <3>1. queue' \in [State -> Seq(Item)] /\ mark' \in {"before", "in", "out"}
      BY <2>2, TakeStep DEF ProgramInv
    <3> QED  BY <2>1, <3>1 DEF PollOnce, IsActive, Panic, Goto, mainVars
  <2>3. CASE LoseWork(s)
    <3>1. queue' \in [State -> Seq(Item)] /\ mark' \in {"before", "in", "out"}
      BY <2>3, LoseStep DEF ProgramInv
    <3> QED  BY <2>1, <3>1 DEF PollOnce, IsActive, Panic, Goto, mainVars
  <2> QED  BY <2>1, <2>2, <2>3 DEF PollOnce
<1>2. CASE PollDisconnected(t)
  BY <1>2 DEF PollDisconnected, IsActive, Panic, Goto, workVars, ProgramInv, TypeOK
<1> QED  BY <1>1, <1>2

-------------------------------------------------------------------------------
(* The steps. *)

LEMMA InitInv == Init => ProgramInv
<1> SUFFICES ASSUME Init  PROVE ProgramInv
  OBVIOUS
<1>1. TypeOK
  <2>1. <<>> \in Seq(Item)
    OBVIOUS
  <2>2. started \in 0..n_thread /\ sent \in 0..Len(Deployed) /\ received \in 0..sent
    BY Sizes DEF Init
  <2>3. /\ thread \in [ThreadId -> ThreadState]
        /\ handling \in [0..MaxThread -> {"no", "lock", "notify"}]
        /\ queue \in [State -> Seq(Item)]
    BY <2>1 DEF Init, ThreadState
  <2>4. /\ pc = "deploy" /\ n_thread \in 0..MaxThread /\ mark = "before"
        /\ shutdown = FALSE /\ catching = FALSE /\ locked = FALSE /\ interrupted = FALSE
    BY DEF Init
  <2>5. interrupts \in 0..MaxInterrupt
    BY Sizes DEF Init
  <2> QED  BY <2>2, <2>3, <2>4, <2>5 DEF TypeOK
<1>2. ThreadsInv /\ FlagInv /\ SignalsInv
  BY DEF Init, ThreadsInv, FlagInv, SignalsInv, ThreadId, AllJoined, NoPanic
<1> QED  BY <1>1, <1>2 DEF ProgramInv

LEMMA JoinKeepsTypes ==
  ASSUME TypeOK, Join \/ JoinPanicked
  PROVE  TypeOK'
<1>1. /\ pc' = "drop" /\ locked' = FALSE /\ started' = 0
      /\ UNCHANGED <<n_thread, sent, shutdown, catching, otherVars>>
  BY DEF Join, JoinPanicked, Goto
<1>2. /\ interrupted' = interrupted /\ handling' = handling /\ interrupts' = interrupts
      /\ queue' = queue /\ mark' = mark
  BY <1>1 DEF otherVars, signalVars, workVars
<1>3. started' \in 0..n_thread'
  BY <1>1, Sizes DEF TypeOK
<1>4. /\ sent' \in 0..Len(Deployed)
      /\ received' \in 0..sent'
  BY <1>1 DEF TypeOK, otherVars
<1> QED  BY <1>1, <1>2, <1>3, <1>4 DEF TypeOK, Running, otherVars

\* The main thread leaves the handlers alone, and sees the flag.
LEMMA MainStepKeepsSignals ==
  ASSUME ProgramInv, MainStep \/ SpuriousWakeup
  PROVE  SignalsInv'
<1>1. interrupted' = interrupted /\ handling' = handling /\ interrupts' = interrupts
  BY DEF MainStep, SpuriousWakeup, DeployState, SendCallback, SpawnExtra, Install, Lock,
         CheckFlag, Sleep, Restore, StoreShutdown, Join, JoinPanicked, DropProgram, JoinDropped,
         otherVars, signalVars
<1>2. pc' \in {"restore", "store", "join"} => interrupted
  BY DEF MainStep, SpuriousWakeup, DeployState, SendCallback, SpawnExtra, Install, Lock,
         CheckFlag, Sleep, Restore, StoreShutdown, Join, JoinPanicked, DropProgram, JoinDropped,
         Goto, ProgramInv, SignalsInv
<1> QED  BY <1>1, <1>2 DEF ProgramInv, SignalsInv

LEMMA MainStepKeeps ==
  ASSUME ProgramInv, MainStep
  PROVE  (TypeOK /\ ThreadsInv /\ FlagInv)'
<1> USE Sizes DEF ProgramInv, TypeOK, ThreadsInv, FlagInv, Running, ThreadId,
      ThreadState, NoPanic, AllJoined, Goto, signalVars, workVars, otherVars
<1>1. CASE DeployState
  <2>1. TypeOK'
    <3>1. CASE started < Len(Deployed) /\ started < n_thread
      <4>1. started' = started + 1 /\ started + 1 \in ThreadId
        BY <1>1, <3>1, Sizes DEF DeployState
      <4>2. thread' \in [ThreadId -> ThreadState]
        BY <1>1, <3>1, <4>1 DEF DeployState, Born
      <4> QED  BY <1>1, <3>1, <4>1, <4>2 DEF DeployState
    <3>2. CASE ~(started < Len(Deployed) /\ started < n_thread)
      BY <1>1, <3>2 DEF DeployState
    <3> QED  BY <3>1, <3>2
  <2>2. ThreadsInv'
    <3>1. /\ pc = "deploy" /\ sent' = 0
          /\ \A t \in ThreadId : thread[t] \notin {"run", "last", "panicked"}
          /\ \A t \in ThreadId : t > started => thread[t] = "unborn"
      BY <1>1 DEF DeployState
    <3>2. CASE started < Len(Deployed) /\ started < n_thread
      <4>1. /\ pc' = "deploy" /\ started' = started + 1
            /\ thread' = [thread EXCEPT ![started + 1] = "receive"]
        BY <1>1, <3>1, <3>2 DEF DeployState, Born
      <4>2. \A t \in ThreadId : thread'[t] \notin {"run", "last", "panicked"}
        BY <3>1, <4>1
      <4>3. \A t \in ThreadId : t > started' => thread'[t] = "unborn"
        BY <3>1, <4>1
      <4> QED  BY <3>1, <3>2, <4>1, <4>2, <4>3
    <3>3. CASE ~(started < Len(Deployed) /\ started < n_thread)
      <4>1. /\ thread' = thread /\ started' = started
            /\ \/ pc' = "send" /\ started <= Len(Deployed)
               \/ pc' = "drop" /\ started = n_thread
               \/ pc' = "killed"
        BY <1>1, <3>3 DEF DeployState
      <4>2. started > 0 \/ AllJoined'
        BY <3>1, <4>1
      <4> QED  BY <3>1, <4>1, <4>2
    <3> QED  BY <3>2, <3>3
  <2>3. FlagInv'
    BY <1>1 DEF DeployState
  <2> QED  BY <2>1, <2>2, <2>3
<1>2. CASE SendCallback
  <2>1. TypeOK'
    BY <1>2 DEF SendCallback
  <2>2. ThreadsInv'
    BY <1>2 DEF SendCallback
  <2>3. FlagInv'
    BY <1>2 DEF SendCallback
  <2> QED  BY <2>1, <2>2, <2>3
<1>3. CASE SpawnExtra
  BY <1>3 DEF SpawnExtra
<1>4. CASE Install
  BY <1>4 DEF Install
<1>5. CASE Lock
  BY <1>5 DEF Lock
<1>6. CASE CheckFlag
  BY <1>6 DEF CheckFlag
<1>7. CASE Sleep
  BY <1>7 DEF Sleep
<1>8. CASE Restore
  BY <1>8 DEF Restore
<1>9. CASE StoreShutdown
  BY <1>9 DEF StoreShutdown
<1>10. CASE Join
  <2>1. TypeOK'
    BY <1>10, JoinKeepsTypes
  <2>2. ThreadsInv'
    <3>1. pc' = "drop" /\ thread' = thread
      BY <1>10 DEF Join
    <3>2. \A t \in ThreadId : thread'[t] \in {"unborn", "done"}
      BY <1>10, <3>1 DEF Join
    <3> QED  BY <3>1, <3>2
  <2>3. FlagInv'
    BY <1>10 DEF Join
  <2> QED  BY <2>1, <2>2, <2>3
<1>11. CASE DropProgram
  BY <1>11 DEF DropProgram
<1>12. CASE JoinDropped
  BY <1>12 DEF JoinDropped
<1>13. CASE JoinPanicked
  <2>1. TypeOK'
    BY <1>13, JoinKeepsTypes
  <2>2. ThreadsInv'
    <3>1. pc' = "drop" /\ thread' = thread
      BY <1>13 DEF JoinPanicked
    <3>2. \E t \in ThreadId : thread'[t] = "panicked"
      BY <1>13, <3>1 DEF JoinPanicked
    <3> QED  BY <3>1, <3>2
  <2>3. FlagInv'
    BY <1>13 DEF JoinPanicked
  <2> QED  BY <2>1, <2>2, <2>3
<1> QED
  BY <1>1, <1>2, <1>3, <1>4, <1>5, <1>6, <1>7, <1>8, <1>9, <1>10, <1>11, <1>12, <1>13 DEF MainStep

\* A thread that enters the handler has taken a signal, and so has every other
\* that is in it.
LEMMA SignalStepKeepsSignals ==
  ASSUME ProgramInv, NEW t \in 0..MaxThread,
         Interrupt(t) \/ SetFlag(t) \/ Notify(t)
  PROVE  SignalsInv'
<1> USE Sizes DEF ProgramInv, TypeOK, SignalsInv
<1>1. pc' \in {"restore", "store", "join"} => pc' = pc
  BY DEF Interrupt, SetFlag, Notify, Goto, mainVars
<1>2. CASE Interrupt(t)
  <2>1. /\ interrupts' = interrupts + 1 /\ interrupted' = interrupted
        /\ handling' \in {handling, [handling EXCEPT ![t] = "lock"]}
    BY <1>2 DEF Interrupt
  <2> QED  BY <1>1, <2>1
<1>3. CASE SetFlag(t)
  <2>1. /\ interrupts' = interrupts /\ handling[t] = "lock"
        /\ \/ interrupted' = TRUE /\ handling' = [handling EXCEPT ![t] = "notify"]
           \/ interrupted' = interrupted /\ handling' = handling
    BY <1>3 DEF SetFlag
  <2> QED  BY <1>1, <2>1
<1>4. CASE Notify(t)
  <2>1. /\ interrupts' = interrupts /\ interrupted' = interrupted
        /\ handling' = [handling EXCEPT ![t] = "no"]
    BY <1>4 DEF Notify
  <2> QED  BY <1>1, <2>1
<1> QED  BY <1>2, <1>3, <1>4

LEMMA SignalStepKeeps ==
  ASSUME ProgramInv, NEW t \in 0..MaxThread,
         Interrupt(t) \/ SetFlag(t) \/ Notify(t)
  PROVE  (TypeOK /\ ThreadsInv /\ FlagInv)'
<1> USE Sizes DEF ProgramInv, TypeOK, ThreadsInv, FlagInv, Running, ThreadId,
      ThreadState, NoPanic, AllJoined, Goto, mainVars, workVars
<1>1. CASE Interrupt(t)
  BY <1>1 DEF Interrupt
<1>2. CASE SetFlag(t)
  BY <1>2 DEF SetFlag
<1>3. CASE Notify(t)
  BY <1>3 DEF Notify
<1> QED  BY <1>1, <1>2, <1>3

LEMMA ThreadStepInv ==
  ASSUME ProgramInv, NEW t \in ThreadId, ThreadStep(t)
  PROVE  ProgramInv'
<1> USE DEF ProgramInv, ThreadsInv, FlagInv, SignalsInv, AllJoined, NoPanic, mainVars, signalVars
<1>1. CASE Receive(t)
  BY <1>1, Sizes DEF Receive, TypeOK, Running, ThreadId, ThreadState, workVars
<1>2. CASE PollState(t) \/ PollIdle(t) \/ PollShared(t) \/ PollDisconnected(t)
  <2>1. /\ thread[t] = "run" /\ Alive
        /\ queue' \in [State -> Seq(Item)] /\ mark' \in {"before", "in", "out"}
        /\ UNCHANGED <<n_thread, received, signalVars, started, sent, shutdown, catching, locked>>
    BY <1>2, TurnStep
  <2>2. CASE /\ \E l \in {"run", "last"} : thread' = [thread EXCEPT ![t] = l]
             /\ pc' = pc
    <3>1. TypeOK'
      BY <2>1, <2>2 DEF TypeOK, ThreadState
    <3>2. NoPanic' <=> NoPanic
      BY <2>1, <2>2 DEF TypeOK
    <3>3. ThreadsInv'
      BY <2>1, <2>2, <3>2 DEF TypeOK
    <3>4. FlagInv' /\ SignalsInv'
      BY <2>1, <2>2
    <3> QED  BY <3>1, <3>3, <3>4
  <2>3. CASE /\ thread' = [thread EXCEPT ![t] = "panicked"]
             /\ pc' \in {pc, "killed"}
    <3>1. TypeOK'
      BY <2>1, <2>3 DEF TypeOK, ThreadState
    <3>2. ~NoPanic'
      BY <2>1, <2>3 DEF TypeOK
    <3>3. pc # "deploy"
      BY <2>1
    <3>4. ThreadsInv'
      BY <2>1, <2>3, <3>2, <3>3 DEF TypeOK
    <3>5. FlagInv' /\ SignalsInv'
      BY <2>1, <2>3
    <3> QED  BY <3>1, <3>4, <3>5
  <2>4. \/ (\E l \in {"run", "last"} : thread' = [thread EXCEPT ![t] = l]) /\ pc' = pc
        \/ thread' = [thread EXCEPT ![t] = "panicked"] /\ pc' \in {pc, "killed"}
    BY <1>2, TurnStep
  <2> QED  BY <2>2, <2>3, <2>4
<1>3. CASE Stop(t)
  BY <1>3, Sizes DEF Stop, IsActive, TypeOK, Running, ThreadId, ThreadState, workVars
<1> QED  BY <1>1, <1>2, <1>3 DEF ThreadStep

LEMMA StepInv == ProgramInv /\ [Next]_vars => ProgramInv'
<1> SUFFICES ASSUME ProgramInv, [Next]_vars  PROVE ProgramInv'
  OBVIOUS
<1>1. CASE SpuriousWakeup
  <2>1. TypeOK' /\ ThreadsInv' /\ FlagInv'
    BY <1>1 DEF SpuriousWakeup, ProgramInv, TypeOK, ThreadsInv, FlagInv, Running, AllJoined,
       NoPanic, Goto, otherVars, signalVars, workVars
  <2> QED  BY <1>1, <2>1, MainStepKeepsSignals DEF ProgramInv
<1>2. CASE Arrive
  <2>1. /\ UNCHANGED <<mainVars, received, thread, signalVars>>
        /\ queue' \in [State -> Seq(Item)]
        /\ mark' \in {"before", "in", "out"}
    BY <1>2, ArriveStep DEF ProgramInv
  <2>2. TypeOK'
    BY <2>1 DEF ProgramInv, TypeOK, mainVars, signalVars
  <2>3. ThreadsInv' /\ FlagInv' /\ SignalsInv'
    BY <2>1 DEF ProgramInv, ThreadsInv, FlagInv, SignalsInv, AllJoined, NoPanic, mainVars, signalVars
  <2> QED  BY <2>2, <2>3 DEF ProgramInv
<1>3. CASE UNCHANGED vars
  BY <1>3 DEF vars, ProgramInv, TypeOK, ThreadsInv, FlagInv, SignalsInv, AllJoined, NoPanic,
     mainVars, otherVars, signalVars, workVars
<1>4. CASE MainStep
  BY <1>4, MainStepKeeps, MainStepKeepsSignals DEF ProgramInv
<1>5. CASE \E t \in 0..MaxThread : Interrupt(t) \/ SetFlag(t) \/ Notify(t)
  BY <1>5, SignalStepKeeps, SignalStepKeepsSignals DEF ProgramInv
<1> QED  BY <1>1, <1>2, <1>3, <1>4, <1>5, ThreadStepInv DEF Next

-------------------------------------------------------------------------------
(* The theorems. *)

\* The invariant holds in every reachable state (all of program/replica.rs).
THEOREM ProgramInvariant == Spec => []ProgramInv
BY InitInv, StepInv, PTL DEF Spec

\* The process ends by itself only after all of its threads (the joins of
\* run_until_interrupt and drop).
THEOREM NoThreadOutlives == Spec => []NoThreadOutlivesProgram
<1>1. ProgramInv => NoThreadOutlivesProgram
  BY DEF ProgramInv, ThreadsInv, NoThreadOutlivesProgram
<1> QED  BY ProgramInvariant, <1>1, PTL

\* The main thread never sleeps through an interrupt, however the handler and
\* wait_while interleave.
THEOREM NoWakeupLost == Spec => []WakeupNotLost
<1>1. ProgramInv => WakeupNotLost
  BY DEF ProgramInv, FlagInv, WakeupNotLost
<1> QED  BY ProgramInvariant, <1>1, PTL

\* A single signal leaves a handler stuck only if the main thread itself takes it,
\* with the mutex in its hands: a worker that the main thread waits for in vain
\* holds a second one (_unused, which is kept over the joins).
THEOREM StuckTakesTwoSignals ==
  Spec => [](HandlerIsStuck => interrupts > 1 \/ handling[0] = "lock")
<1>1. ProgramInv => (HandlerIsStuck => interrupts > 1 \/ handling[0] = "lock")
  BY DEF ProgramInv, SignalsInv, HandlerIsStuck, ThreadId
<1> QED  BY ProgramInvariant, <1>1, PTL

\* No state is polled before every state is deployed, nor after the run (the
\* callbacks and the joins).
THEOREM WorkWhileRunning == Spec => WorkOnlyWhileRunning
<1>1. ASSUME ProgramInv, [Next]_vars, NoPanic, NEW s \in State, Len(queue'[s]) < Len(queue[s])
      PROVE  pc \in Running
  <2>1. Len(queue[s]) \in Nat
    BY DEF ProgramInv, TypeOK
  <2>2. ~Arrive
    <3> SUFFICES ASSUME Arrive  PROVE FALSE
      OBVIOUS
    <3>1. queue'[s] \in Seq(Item) /\ Len(queue'[s]) >= Len(queue[s])
      BY <1>1, ArriveStep DEF ProgramInv
    <3>2. Len(queue'[s]) \in Nat
      BY <3>1
    <3> QED  BY <1>1, <2>1, <3>1, <3>2
  <2>3. queue' # queue
    BY <1>1, <2>1
  <2>4. PICK t \in ThreadId :
          PollState(t) \/ PollIdle(t) \/ PollShared(t) \/ PollDisconnected(t)
    BY <1>1, <2>2, <2>3
       DEF Next, vars, otherVars, workVars, MainStep, DeployState, SendCallback, SpawnExtra, Install, Lock,
           CheckFlag, Sleep, Restore, StoreShutdown, Join, JoinPanicked, DropProgram,
           JoinDropped, SpuriousWakeup, Interrupt, SetFlag, Notify, ThreadStep, Receive, Stop
  <2>5. Alive /\ thread[t] = "run"
    BY <1>1, <2>4, TurnStep
  <2> QED  BY <1>1, <2>5 DEF ProgramInv, TypeOK, ThreadsInv, Alive
<1>2. ProgramInv /\ [Next]_vars =>
        [\A s \in State : NoPanic /\ Len(queue'[s]) < Len(queue[s]) => pc \in Running]_vars
  BY <1>1
<1> QED  BY ProgramInvariant, <1>2, PTL DEF Spec, WorkOnlyWhileRunning

===============================================================================
