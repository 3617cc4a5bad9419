--------------------------- MODULE BenchClientProofs --------------------------
(***************************************************************************)
(* Proofs about the bench client, for any number of clients, any length of *)
(* the event buffer and any timeout.                                       *)
(***************************************************************************)
EXTENDS BenchClient, SequenceTheorems, TLAPS

-------------------------------------------------------------------------------
(* Sequences as sets. *)

LEMMA AppendAdds ==
  ASSUME NEW S, NEW q \in Seq(S), NEW x \in S
  PROVE  /\ Append(q, x) \in Seq(S)
         /\ Elements(Append(q, x)) = Elements(q) \cup {x}
<1>1. /\ Append(q, x) \in Seq(S)
      /\ Len(q) \in Nat
      /\ Len(Append(q, x)) = Len(q) + 1
      /\ Append(q, x)[Len(q) + 1] = x
      /\ \A k \in 1..Len(q) : Append(q, x)[k] = q[k]
  OBVIOUS
<1> QED  BY <1>1 DEF Elements

LEMMA TailDropsHead ==
  ASSUME NEW S, NEW q \in Seq(S), q # <<>>
  PROVE  /\ Head(q) \in S
         /\ Tail(q) \in Seq(S)
         /\ Elements(q) \subseteq Elements(Tail(q)) \cup {Head(q)}
<1>1. /\ Len(q) \in Nat \ {0}
      /\ Head(q) = q[1]
      /\ Head(q) \in S
      /\ Tail(q) \in Seq(S)
      /\ Len(Tail(q)) = Len(q) - 1
      /\ \A k \in 1..(Len(q) - 1) : Tail(q)[k] = q[k + 1]
  OBVIOUS
<1>2. ASSUME NEW k \in 1..Len(q), k # 1
      PROVE  /\ k - 1 \in 1..Len(Tail(q))
             /\ Tail(q)[k - 1] = q[k]
  BY <1>1, <1>2
<1> QED  BY <1>1, <1>2 DEF Elements

LEMMA SplitKeeps ==
  ASSUME NEW S, NEW q \in Seq(S), NEW n \in 0..Len(q)
  PROVE  /\ SubSeq(q, n + 1, Len(q)) \in Seq(S)
         /\ Elements(q) \subseteq
              Elements(SubSeq(q, 1, n)) \cup Elements(SubSeq(q, n + 1, Len(q)))
         /\ Elements(SubSeq(q, 1, n)) \subseteq S
<1> DEFINE front == SubSeq(q, 1, n)
           back == SubSeq(q, n + 1, Len(q))
<1>1. Len(q) \in Nat /\ \A k \in 1..Len(q) : q[k] \in S
  OBVIOUS
<1>2. /\ Len(front) = n
      /\ \A k \in 1..n : front[k] = q[k]
  BY <1>1, SubSeqProperties
<1>3. /\ back \in Seq(S)
      /\ Len(back) = Len(q) - n
      /\ \A k \in 1..(Len(q) - n) : back[k] = q[n + k]
  BY <1>1, SubSeqProperties
<1> HIDE DEF front, back
<1>4. ASSUME NEW k \in 1..Len(q), k > n
      PROVE  /\ k - n \in 1..Len(back)
             /\ back[k - n] = q[k]
  BY <1>1, <1>3, <1>4
<1>5. Elements(q) \subseteq Elements(front) \cup Elements(back)
  <2>1. Len(front) = n /\ Len(back) \in Nat /\ Len(q) \in Nat /\ n \in Nat
    BY <1>1, <1>2, <1>3
  <2>2. ASSUME NEW k \in 1..Len(q)
        PROVE  \/ k \in 1..Len(front) /\ front[k] = q[k]
               \/ k - n \in 1..Len(back) /\ back[k - n] = q[k]
    BY <1>2, <1>4, <2>1
  <2> QED  BY ONLY <2>2 DEF Elements
<1>6. Elements(front) \subseteq S
  BY <1>1, <1>2 DEF Elements
<1> QED  BY <1>3, <1>5, <1>6 DEF front, back

LEMMA OldIsSequence ==
  ASSUME NEW q \in Seq({"current", "old"})
  PROVE  MadeOld(q) \in Seq({"current", "old"})
<1>1. Len(q) \in Nat
  OBVIOUS
<1>2. \A n \in Nat : [k \in 1..n |-> "old"] \in Seq({"current", "old"})
  OBVIOUS
<1> QED  BY <1>1, <1>2 DEF MadeOld

-------------------------------------------------------------------------------
(* The polls. *)

\* Where a client is polled: it is started.
Polled(c) == pc # "invoke" \/ c < at

LEMMA DeadlineAfterPoll ==
  ASSUME BenchInv, NEW c \in Client, Polled(c),
         \/ deadline' = Resent(c)
         \/ deadline' = [deadline EXCEPT ![c] = now + ResendAfter]
  PROVE  /\ deadline' \in [Client -> Instant]
         /\ deadline'[c] \in 0..(now + ResendAfter)
         /\ deadline[c] <= deadline'[c]
         /\ \A d \in Client \ {c} : deadline'[d] = deadline[d]
<1>1. /\ deadline \in [Client -> Instant]
      /\ deadline[c] \in 0..(now + ResendAfter)
      /\ now \in 0..(MaxStart + RunDuration)
  BY DEF BenchInv, TypeOK, DeadlineInv, Polled
<1>2. /\ now + ResendAfter \in Instant
      /\ now + ResendAfter \in Nat
  BY <1>1, BenchClientAssumption DEF Instant
<1>3. \/ deadline' = deadline
      \/ deadline' = [deadline EXCEPT ![c] = now + ResendAfter]
  BY DEF Resent
<1> QED  BY <1>1, <1>2, <1>3

LEMMA AgainStep ==
  ASSUME BenchInv, NEW c \in Client, Polled(c), PollClientAgain(c)
  PROVE  /\ deadline' \in [Client -> Instant]
         /\ deadline'[c] \in 0..(now + ResendAfter)
         /\ deadline[c] <= deadline'[c]
         /\ \A d \in Client \ {c} : deadline'[d] = deadline[d]
         /\ socket' \in [Client -> Seq({"current", "old"})]
         /\ socket[c] # <<>>
         /\ \A d \in Client \ {c} : socket'[d] = socket[d]
<1>1. socket \in [Client -> Seq({"current", "old"})] /\ socket[c] # <<>>
  BY DEF BenchInv, TypeOK, PollClientAgain
<1>2. /\ Tail(socket[c]) \in Seq({"current", "old"})
      /\ MadeOld(Tail(socket[c])) \in Seq({"current", "old"})
  <2>1. socket[c] \in Seq({"current", "old"}) /\ socket[c] # <<>>
    BY <1>1
  <2>2. Tail(socket[c]) \in Seq({"current", "old"})
    BY <2>1
  <2>3. \A q \in Seq({"current", "old"}) : MadeOld(q) \in Seq({"current", "old"})
    BY OldIsSequence
  <2> QED  BY <2>2, <2>3
<1>3. \/ deadline' = Resent(c)
      \/ deadline' = [deadline EXCEPT ![c] = now + ResendAfter]
  BY DEF PollClientAgain, Invoked
<1>4. \/ socket' = [socket EXCEPT ![c] = MadeOld(Tail(@))]
      \/ socket' = [socket EXCEPT ![c] = Tail(@)]
  BY DEF PollClientAgain, Invoked
<1>5. /\ socket' \in [Client -> Seq({"current", "old"})]
      /\ \A d \in Client \ {c} : socket'[d] = socket[d]
  BY <1>1, <1>2, <1>4
<1> QED  BY <1>1, <1>3, <1>5, DeadlineAfterPoll

LEMMA LastStep ==
  ASSUME BenchInv, NEW c \in Client, Polled(c), PollClientLast(c)
  PROVE  /\ deadline' \in [Client -> Instant]
         /\ deadline'[c] \in 0..(now + ResendAfter)
         /\ deadline[c] <= deadline'[c]
         /\ \A d \in Client \ {c} : deadline'[d] = deadline[d]
         /\ socket' = socket
         /\ socket[c] = <<>>
         /\ poll_instants' = [poll_instants EXCEPT ![c] = deadline'[c]]
         /\ poll_instants' \in [Client -> Instant]
         /\ instant_polls' = {<<poll_instants'[d], d>> : d \in Client}
         /\ instant_polls' \subseteq Instant \X Client
<1>1. /\ deadline' \in [Client -> Instant]
      /\ deadline'[c] \in 0..(now + ResendAfter)
      /\ deadline[c] <= deadline'[c]
      /\ \A d \in Client \ {c} : deadline'[d] = deadline[d]
  BY DeadlineAfterPoll DEF PollClientLast
<1> PICK to \in Instant : to = deadline'[c]
  BY <1>1
<1>2. /\ poll_instants \in [Client -> Instant]
      /\ instant_polls = {<<poll_instants[d], d>> : d \in Client}
      /\ poll_instants' = [poll_instants EXCEPT ![c] = to]
      /\ instant_polls' = (instant_polls \ {<<poll_instants[c], c>>}) \cup {<<to, c>>}
  BY DEF BenchInv, TypeOK, TimerNotLate, PollClientLast, UpdateTimer
<1>3. /\ poll_instants' \in [Client -> Instant]
      /\ poll_instants'[c] = to
      /\ \A d \in Client \ {c} : poll_instants'[d] = poll_instants[d]
  BY <1>2
<1>4. instant_polls' = {<<poll_instants'[d], d>> : d \in Client}
  BY <1>2, <1>3
<1>5. instant_polls' \subseteq Instant \X Client
  BY <1>3, <1>4
<1> QED  BY <1>1, <1>2, <1>3, <1>4, <1>5 DEF PollClientLast

-------------------------------------------------------------------------------
(* The steps. *)

LEMMA InitInv == Init => BenchInv
<1> SUFFICES ASSUME Init  PROVE BenchInv
  OBVIOUS
<1> USE BenchClientAssumption DEF Init, Client, Never
<1>1. TypeOK
  <2>1. <<>> \in Seq({"current", "old"}) /\ <<>> \in Seq(Client)
    OBVIOUS
  <2> QED  BY <2>1 DEF TypeOK, Instant
<1>2. DeadlineInv
  BY DEF DeadlineInv, Entered
<1>3. NoWakeupLost
  BY DEF NoWakeupLost
<1>4. TimerNotLate
  BY DEF TimerNotLate, Entered
<1> QED  BY <1>1, <1>2, <1>3, <1>4 DEF BenchInv

LEMMA TickStep ==
  ASSUME BenchInv, Tick
  PROVE  BenchInv'
<1> USE BenchClientAssumption DEF BenchInv, Tick, programVars, clientVars, epollVars, timerVars
<1>1. TypeOK' /\ DeadlineInv'
  BY DEF TypeOK, DeadlineInv, Entered, Instant, Never
<1>2. NoWakeupLost' /\ TimerNotLate'
  BY DEF NoWakeupLost, Elements, TimerNotLate, Entered, Before
<1> QED  BY <1>1, <1>2

LEMMA ArriveStep ==
  ASSUME BenchInv, NEW c \in Client, Arrive(c)
  PROVE  BenchInv'
<1> USE DEF BenchInv
<1>1. /\ UNCHANGED <<now, programVars, deadline, events, timerVars>>
      /\ socket \in [Client -> Seq({"current", "old"})]
      /\ ready \in Seq(Client)
  BY DEF Arrive, TypeOK
<1>2. /\ socket' \in [Client -> Seq({"current", "old"})]
      /\ \A d \in Client \ {c} : socket'[d] = socket[d]
  <2>1. PICK m \in {"current", "old"} : socket' = [socket EXCEPT ![c] = Append(@, m)]
    BY DEF Arrive
  <2>2. Append(socket[c], m) \in Seq({"current", "old"})
    BY <1>1
  <2> QED  BY <1>1, <2>1, <2>2
<1>3. /\ ready' \in Seq(Client)
      /\ Elements(ready') = Elements(ready) \cup {c}
  BY <1>1, AppendAdds DEF Arrive
<1>4. TypeOK'
  BY <1>1, <1>2, <1>3 DEF TypeOK, programVars, timerVars
<1>5. NoWakeupLost'
  BY <1>1, <1>2, <1>3 DEF NoWakeupLost, Elements
<1>6. DeadlineInv' /\ TimerNotLate'
  BY <1>1 DEF DeadlineInv, TimerNotLate, Entered, Before, programVars, timerVars
<1> QED  BY <1>4, <1>5, <1>6

\* The invariants about deadlines when client c is polled, and the loop stays
\* where it was entered or goes on there.
LEMMA PollKeepsTimers ==
  ASSUME BenchInv, NEW c \in Client, pc # "invoke", pc' # "invoke",
         deadline[c] <= deadline'[c],
         deadline'[c] \in 0..(now + ResendAfter),
         \A d \in Client \ {c} : deadline'[d] = deadline[d],
         UNCHANGED <<now, start, poll_instants, instant_polls>>,
         Entered' = Entered,
         pc' = "start" => pc = "start" /\ at' = at
  PROVE  DeadlineInv' /\ TimerNotLate'
<1> USE DEF BenchInv
<1>1. /\ \A d \in Client : deadline[d] \in 0..(now + ResendAfter)
      /\ \A d \in Client : Entered \/ (pc = "start" /\ d < at) =>
           poll_instants[d] \in 0..deadline[d]
      /\ ~Entered => now <= MaxStart
      /\ now <= start + RunDuration \/ ~Entered
  BY DEF DeadlineInv
<1>2. now \in Nat /\ ResendAfter \in Nat
  BY BenchClientAssumption DEF TypeOK
<1>3. \A d \in Client : /\ deadline'[d] \in 0..(now + ResendAfter)
                        /\ deadline[d] <= deadline'[d]
  BY <1>1, <1>2
<1>4. \A d \in Client : Entered' \/ (pc' = "start" /\ d < at') =>
        poll_instants[d] \in 0..deadline'[d]
  BY <1>1, <1>2, <1>3
<1>5. DeadlineInv'
  BY <1>1, <1>3, <1>4 DEF DeadlineInv
<1>6. TimerNotLate'
  BY <1>2, <1>3, <1>4 DEF TimerNotLate, Before, Never
<1> QED  BY <1>5, <1>6

LEMMA InvokeFirstStep ==
  ASSUME BenchInv, InvokeFirst
  PROVE  BenchInv'
<1> USE BenchClientAssumption DEF BenchInv
<1>1. /\ pc = "invoke" /\ ~Entered /\ ~Entered'
      /\ at \in Client /\ at' \in Client
      /\ now + ResendAfter \in Instant
      /\ now \in Nat
      /\ UNCHANGED <<now, start, socket, epollVars, timerVars>>
      /\ \/ pc' = "invoke" /\ at' = at + 1
         \/ pc' = "start" /\ at = NClient /\ at' = 1
  <2>1. /\ pc = "invoke"
        /\ UNCHANGED <<now, start, socket, epollVars, timerVars>>
        /\ NextClient("start")
    BY DEF InvokeFirst
  <2>2. at \in Client /\ at \in 1..NClient /\ now \in Nat
    BY DEF TypeOK, Client
  <2>3. \/ pc' = "invoke" /\ at' = at + 1 /\ at < NClient
        \/ pc' = "start" /\ at = NClient /\ at' = 1
    BY <2>1, <2>2 DEF NextClient
  <2>4. at' \in Client
    BY <2>2, <2>3 DEF Client
  <2>5. now + ResendAfter \in Instant
    BY <2>1 DEF DeadlineInv, TypeOK, Entered, Instant
  <2>6. ~Entered /\ ~Entered'
    BY <2>1, <2>3 DEF Entered
  <2> QED  BY <2>1, <2>2, <2>3, <2>4, <2>5, <2>6
<1>2. deadline' = [deadline EXCEPT ![at] = now + ResendAfter]
  BY DEF InvokeFirst
<1>3. TypeOK'
  BY <1>1, <1>2 DEF TypeOK, epollVars, timerVars
<1>4. DeadlineInv'
  BY <1>1, <1>2 DEF DeadlineInv, TypeOK, Client, timerVars
<1>5. NoWakeupLost' /\ TimerNotLate'
  BY <1>1 DEF NoWakeupLost, Elements, TimerNotLate, epollVars, timerVars
<1> QED  BY <1>3, <1>4, <1>5

LEMMA DrainStep ==
  ASSUME BenchInv, StartAgain \/ TimerAgain
  PROVE  BenchInv'
<1> USE DEF BenchInv
<1>1. /\ PollClientAgain(at)
      /\ Polled(at)
      /\ at \in Client
      /\ pc # "invoke"
      /\ UNCHANGED <<now, programVars, epollVars, timerVars>>
  BY DEF StartAgain, TimerAgain, Polled, TypeOK
<1>2. /\ deadline' \in [Client -> Instant]
      /\ deadline'[at] \in 0..(now + ResendAfter)
      /\ deadline[at] <= deadline'[at]
      /\ \A d \in Client \ {at} : deadline'[d] = deadline[d]
      /\ socket' \in [Client -> Seq({"current", "old"})]
      /\ socket[at] # <<>>
      /\ \A d \in Client \ {at} : socket'[d] = socket[d]
  BY <1>1, AgainStep
<1>3. TypeOK'
  BY <1>1, <1>2 DEF TypeOK, programVars, epollVars, timerVars
<1>4. NoWakeupLost'
  BY <1>1, <1>2 DEF NoWakeupLost, Elements, epollVars
<1>5. DeadlineInv' /\ TimerNotLate'
  BY <1>1, <1>2, PollKeepsTimers DEF programVars, timerVars, Entered
<1> QED  BY <1>3, <1>4, <1>5

\* A poll that ends draining client c updates its place in the table.
LEMMA PollUpdatesTimers ==
  ASSUME BenchInv, NEW c \in Client, PollClientLast(c), pc # "invoke", pc' # "invoke",
         now' = now,
         ~Entered' => ~Entered,
         Entered' => now <= start' + RunDuration,
         \A d \in Client : Entered' \/ (pc' = "start" /\ d < at') =>
           d = c \/ Entered \/ (pc = "start" /\ d < at)
  PROVE  DeadlineInv' /\ TimerNotLate'
<1> USE DEF BenchInv
<1>1. /\ deadline'[c] \in 0..(now + ResendAfter)
      /\ \A d \in Client \ {c} : deadline'[d] = deadline[d]
      /\ poll_instants' = [poll_instants EXCEPT ![c] = deadline'[c]]
      /\ instant_polls' = {<<poll_instants'[d], d>> : d \in Client}
  BY LastStep DEF Polled
<1>2. /\ \A d \in Client : deadline[d] \in 0..(now + ResendAfter)
      /\ \A d \in Client : Entered \/ (pc = "start" /\ d < at) =>
           poll_instants[d] \in 0..deadline[d]
      /\ ~Entered => now <= MaxStart
  BY DEF DeadlineInv
<1>3. now \in Nat /\ ResendAfter \in Nat
  BY BenchClientAssumption DEF TypeOK
<1>4. /\ poll_instants'[c] = deadline'[c]
      /\ \A d \in Client \ {c} : poll_instants'[d] = poll_instants[d]
  BY <1>1 DEF TypeOK
<1>5. \A d \in Client : deadline'[d] \in 0..(now + ResendAfter)
  BY <1>1, <1>2
<1>6. \A d \in Client : Entered' \/ (pc' = "start" /\ d < at') =>
        poll_instants'[d] \in 0..deadline'[d]
  BY <1>1, <1>2, <1>3, <1>4, <1>5
<1>7. DeadlineInv'
  BY <1>2, <1>5, <1>6 DEF DeadlineInv
<1>8. TimerNotLate'
  BY <1>1, <1>3, <1>5, <1>6 DEF TimerNotLate, Before, Never
<1> QED  BY <1>7, <1>8

LEMMA StartLastStep ==
  ASSUME BenchInv, StartLast
  PROVE  BenchInv'
<1> USE DEF BenchInv
<1>1. /\ PollClientLast(at)
      /\ Polled(at)
      /\ at \in Client /\ at' \in Client
      /\ pc = "start" /\ pc' \in {"start", "top"}
      /\ ~Entered
      /\ now \in 0..MaxStart
      /\ UNCHANGED <<now, epollVars>>
      /\ start' \in 0..MaxStart
      /\ Entered' => start' = now
  <2>1. /\ PollClientLast(at)
        /\ pc = "start"
        /\ NextClient("top")
        /\ start' = IF at = NClient THEN now ELSE start
        /\ UNCHANGED <<now, epollVars>>
    BY DEF StartLast
  <2>2. ~Entered /\ Polled(at)
    BY <2>1 DEF Entered, Polled
  <2>3. at \in Client /\ now \in Nat /\ start \in 0..MaxStart
    BY BenchClientAssumption DEF TypeOK
  <2>4. now \in 0..MaxStart
    BY <2>2, <2>3, BenchClientAssumption DEF DeadlineInv
  <2>5. at' \in Client /\ pc' \in {"start", "top"} /\ (at # NClient => pc' = "start")
    BY <2>1, <2>3, BenchClientAssumption DEF NextClient, Client
  <2>6. start' \in 0..MaxStart /\ (Entered' => start' = now)
    BY <2>1, <2>3, <2>4, <2>5 DEF Entered
  <2> QED  BY <2>1, <2>2, <2>3, <2>4, <2>5, <2>6
<1>2. \A d \in Client : Entered' \/ (pc' = "start" /\ d < at') => d = at \/ d < at
  BY BenchClientAssumption DEF StartLast, NextClient, Client, TypeOK, Entered
<1>3. TypeOK'
  BY <1>1, LastStep DEF TypeOK, epollVars
<1>4. NoWakeupLost'
  BY <1>1, LastStep DEF NoWakeupLost, Elements, epollVars
<1>5. now <= now + RunDuration
  BY <1>1, BenchClientAssumption
<1>6. DeadlineInv' /\ TimerNotLate'
  BY <1>1, <1>2, <1>5, PollUpdatesTimers
<1> QED  BY <1>3, <1>4, <1>6

LEMMA TimerLastStep ==
  ASSUME BenchInv, TimerLast
  PROVE  BenchInv'
<1> USE DEF BenchInv
<1>1. /\ PollClientLast(at)
      /\ Polled(at)
      /\ at \in Client
      /\ pc = "timer" /\ pc' = "epoll"
      /\ Entered /\ Entered'
      /\ UNCHANGED <<now, at, start, epollVars>>
      /\ now <= start + RunDuration
  BY DEF TimerLast, Polled, TypeOK, DeadlineInv, Entered
<1>2. TypeOK'
  BY <1>1, LastStep DEF TypeOK, epollVars
<1>3. NoWakeupLost'
  BY <1>1, LastStep DEF NoWakeupLost, Elements, epollVars
<1>4. DeadlineInv' /\ TimerNotLate'
  BY <1>1, PollUpdatesTimers
<1> QED  BY <1>2, <1>3, <1>4

LEMMA LoopTopStep ==
  ASSUME BenchInv, LoopTop
  PROVE  BenchInv'
<1> USE DEF BenchInv
<1>1. /\ Entered /\ Entered'
      /\ pc' \in {"timer", "epoll", "done"}
      /\ at' \in Client
      /\ UNCHANGED <<now, start, clientVars, epollVars, timerVars>>
  BY DEF LoopTop, TypeOK, Entered
<1>2. TypeOK'
  BY <1>1 DEF TypeOK, clientVars, epollVars, timerVars
<1>3. NoWakeupLost'
  BY <1>1 DEF NoWakeupLost, Elements, clientVars, epollVars
<1>4. DeadlineInv'
  BY <1>1 DEF DeadlineInv, Entered, clientVars, timerVars
<1>5. TimerNotLate'
  BY <1>1 DEF TimerNotLate, Before, clientVars, timerVars
<1> QED  BY <1>2, <1>3, <1>4, <1>5

LEMMA EpollWaitKeeps ==
  ASSUME BenchInv, EpollWait
  PROVE  /\ ready' \in Seq(Client) /\ events' \in Seq(Client)
         /\ \A c \in Client : c \in Elements(ready) /\ socket[c] # <<>> =>
              c \in Elements(ready') \cup Elements(events')
<1>1. PICK n \in 0..Len(ready), k \in 0..MaxEvents :
        /\ events' \in [1..k -> Reported(n)]
        /\ Elements(events') = Reported(n)
        /\ ready' = SubSeq(ready, n + 1, Len(ready))
  BY DEF EpollWait
<1>2. ready \in Seq(Client)
  BY DEF BenchInv, TypeOK
<1>3. /\ ready' \in Seq(Client)
      /\ Elements(ready) \subseteq Elements(SubSeq(ready, 1, n)) \cup Elements(ready')
      /\ Elements(SubSeq(ready, 1, n)) \subseteq Client
  BY <1>1, <1>2, SplitKeeps
<1>4. Reported(n) \subseteq Client
  BY <1>3 DEF Reported
<1>5. events' \in Seq(Client)
  <2>1. k \in Nat
    BY BenchClientAssumption
  <2>2. events' \in [1..k -> Client]
    BY <1>1, <1>4
  <2> QED  BY <2>1, <2>2, SeqDef
<1>6. ASSUME NEW c \in Client, c \in Elements(ready), socket[c] # <<>>
      PROVE  c \in Elements(ready') \cup Elements(events')
  <2>1. CASE c \in Elements(SubSeq(ready, 1, n))
    BY <1>1, <1>6, <2>1 DEF Reported
  <2>2. CASE c \in Elements(ready')
    BY <2>2
  <2> QED  BY <1>3, <1>6, <2>1, <2>2
<1> QED  BY <1>3, <1>5, <1>6

LEMMA TakeEventsStep ==
  ASSUME BenchInv, TakeEvents
  PROVE  BenchInv'
<1> USE DEF BenchInv
<1>1. /\ Entered /\ Entered' /\ pc' = "event" /\ pc = "epoll"
      /\ UNCHANGED <<now, at, start, clientVars, timerVars>>
      /\ (events = <<>> /\ EpollWait) \/ UNCHANGED epollVars
  BY DEF TakeEvents, Entered
<1>2. /\ ready' \in Seq(Client) /\ events' \in Seq(Client)
      /\ \A c \in Client :
           /\ c \in Elements(ready) \cup Elements(events)
           /\ socket[c] # <<>>
           => c \in Elements(ready') \cup Elements(events')
  <2>1. CASE events = <<>> /\ EpollWait
    <3>1. Elements(events) = {}
      BY <2>1 DEF Elements
    <3> QED  BY <2>1, <3>1, EpollWaitKeeps
  <2>2. CASE UNCHANGED epollVars
    BY <2>2 DEF epollVars, TypeOK
  <2> QED  BY <1>1, <2>1, <2>2
<1>3. TypeOK'
  BY <1>1, <1>2 DEF TypeOK, clientVars, timerVars
<1>4. NoWakeupLost'
  BY <1>1, <1>2 DEF NoWakeupLost, clientVars
<1>5. DeadlineInv' /\ TimerNotLate'
  BY <1>1 DEF DeadlineInv, TimerNotLate, Entered, Before, clientVars, timerVars
<1> QED  BY <1>3, <1>4, <1>5

LEMMA HandleEventStep ==
  ASSUME BenchInv, HandleEvent
  PROVE  BenchInv'
<1> USE DEF BenchInv
<1>1. /\ Entered /\ Entered' /\ pc = "event" /\ pc' = "top"
      /\ UNCHANGED <<now, at, start, ready>>
      /\ now <= start + RunDuration
  BY DEF HandleEvent, Entered, DeadlineInv
<1>2. CASE events = <<>> /\ UNCHANGED <<clientVars, timerVars, events>>
  <2>1. TypeOK' /\ NoWakeupLost'
    BY <1>1, <1>2 DEF TypeOK, NoWakeupLost, Elements, clientVars, timerVars
  <2>2. DeadlineInv' /\ TimerNotLate'
    BY <1>1, <1>2 DEF DeadlineInv, TimerNotLate, Before, clientVars, timerVars
  <2> QED  BY <2>1, <2>2
<1>3. ASSUME events # <<>>
      PROVE  /\ Head(events) \in Client
             /\ Tail(events) \in Seq(Client)
             /\ Elements(events) \subseteq Elements(Tail(events)) \cup {Head(events)}
             /\ Polled(Head(events))
  <2>1. events \in Seq(Client)
    BY DEF TypeOK
  <2> QED  BY <1>1, <1>3, <2>1, TailDropsHead DEF Polled
<1>4. CASE /\ events # <<>>
           /\ PollClientAgain(Head(events))
           /\ events' = EventsAgain
           /\ UNCHANGED timerVars
  <2> PICK c \in Client : c = Head(events)
    BY <1>3, <1>4
  <2>1. /\ deadline' \in [Client -> Instant]
        /\ deadline'[c] \in 0..(now + ResendAfter)
        /\ deadline[c] <= deadline'[c]
        /\ \A d \in Client \ {c} : deadline'[d] = deadline[d]
        /\ socket' \in [Client -> Seq({"current", "old"})]
        /\ socket[c] # <<>>
        /\ \A d \in Client \ {c} : socket'[d] = socket[d]
    BY <1>3, <1>4, AgainStep
  <2>2. events' = events /\ UNCHANGED timerVars
    BY <1>4 DEF EventsAgain
  <2>3. TypeOK'
    BY <1>1, <2>1, <2>2 DEF TypeOK, timerVars
  <2>4. NoWakeupLost'
    BY <1>1, <2>1, <2>2 DEF NoWakeupLost, Elements
  <2>5. DeadlineInv' /\ TimerNotLate'
    BY <1>1, <2>1, <2>2, PollKeepsTimers DEF timerVars
  <2> QED  BY <2>3, <2>4, <2>5
<1>5. CASE /\ events # <<>>
           /\ PollClientLast(Head(events))
           /\ events' = Tail(events)
  <2> PICK c \in Client : c = Head(events)
    BY <1>3, <1>5
  <2>1. PollClientLast(c) /\ Polled(c)
    BY <1>3, <1>5
  <2>2. TypeOK'
    BY <1>1, <1>3, <1>5, <2>1, LastStep DEF TypeOK
  <2>3. NoWakeupLost'
    <3>1. socket' = socket /\ socket[c] = <<>>
      BY <2>1, LastStep
    <3>2. Elements(events) \subseteq Elements(events') \cup {c}
      BY <1>3, <1>5
    <3> QED  BY <1>1, <3>1, <3>2 DEF NoWakeupLost, Elements
  <2>4. DeadlineInv' /\ TimerNotLate'
    BY <1>1, <2>1, PollUpdatesTimers
  <2> QED  BY <2>2, <2>3, <2>4
<1> QED  BY <1>2, <1>4, <1>5 DEF HandleEvent

LEMMA StepInv == BenchInv /\ [Next]_vars => BenchInv'
<1> SUFFICES ASSUME BenchInv, [Next]_vars  PROVE BenchInv'
  OBVIOUS
<1>1. CASE UNCHANGED vars
  <2>1. TypeOK' /\ NoWakeupLost'
    BY <1>1 DEF vars, programVars, clientVars, epollVars, timerVars, BenchInv, TypeOK,
       NoWakeupLost, Elements
  <2>2. DeadlineInv' /\ TimerNotLate'
    BY <1>1 DEF vars, programVars, clientVars, epollVars, timerVars, BenchInv,
       DeadlineInv, TimerNotLate, Entered, Before
  <2> QED  BY <2>1, <2>2 DEF BenchInv
<1> QED
  BY <1>1, TickStep, ArriveStep, InvokeFirstStep, DrainStep, StartLastStep, LoopTopStep,
     TimerLastStep, TakeEventsStep, HandleEventStep DEF Next, ProgramNext

-------------------------------------------------------------------------------
(* The theorems. *)

\* The invariant holds in every reachable state (run, poll_client and
\* update_timer).
THEOREM BenchInvariant == Spec => []BenchInv
BY InitInv, StepInv, PTL DEF Spec

\* No arrival is forgotten, although each is reported at most once (EPOLLET and
\* the rest of events).
THEOREM WakeupsAreKept == Spec => []NoWakeupLost
<1>1. BenchInv => NoWakeupLost
  BY DEF BenchInv
<1> QED  BY BenchInvariant, <1>1, PTL

\* update_timer's assertion holds, and no client's place in the table is after
\* its deadline.
THEOREM TimersAreNotLate == Spec => []TimerNotLate
<1>1. BenchInv => TimerNotLate
  BY DEF BenchInv
<1> QED  BY BenchInvariant, <1>1, PTL

===============================================================================
