------------------------------ MODULE BenchClient -----------------------------
(***************************************************************************)
(* program/bench_client: one thread that drives many closed-loop clients   *)
(* through an edge-triggered epoll and a table of timers.  The clients are *)
(* those of either protocol, seen from outside: a client has a deadline    *)
(* and a socket, and a poll reads at most one datagram, which may complete *)
(* its request.  The count of results and the sleeps of CI are left out.   *)
(***************************************************************************)
EXTENDS Integers, Sequences

CONSTANTS
  NClient,       \* n_client
  RunDuration,   \* run_duration
  ResendAfter,   \* the clients' timeout, 10 ms
  MaxEvents,     \* the length of event_buffer
  MaxSocket,     \* bound on the datagrams in one socket
  MaxStart       \* bound on the time it takes to start

ASSUME BenchClientAssumption ==
  /\ NClient \in Nat \ {0}
  /\ RunDuration \in Nat
  /\ ResendAfter \in Nat \ {0}
  /\ MaxEvents \in Nat \ {0}
  /\ MaxStart \in Nat

Client == 1..NClient

VARIABLES
  now,             \* the clock
  pc,              \* where run() is
  at,              \* the client it drains, or starts
  start,           \* when the loop was entered
  deadline,        \* resend_instant of each client
  socket,          \* the datagrams in each client's socket
  ready,           \* the ready list of the epoll instance
  events,          \* the events that were reported and are not done with
  poll_instants,   \* client => instant
  instant_polls    \* (instant, client)

programVars == <<pc, at, start>>
clientVars == <<deadline, socket>>
epollVars == <<ready, events>>
timerVars == <<poll_instants, instant_polls>>
vars == <<now, programVars, clientVars, epollVars, timerVars>>

-------------------------------------------------------------------------------
(* Instants. *)

\* The default OptionInstant.
Never == -1

\* The order of Reverse<Option<Reverse<Instant>>>.
Before(a, b) == a # Never /\ (b = Never \/ a < b)

\* A client is sent to at some time, and waits for the timeout after it.
Instant == 0..(MaxStart + RunDuration + ResendAfter) \cup {Never}

TypeOK ==
  /\ now \in 0..(MaxStart + RunDuration)
  /\ pc \in {"invoke", "start", "top", "timer", "epoll", "event", "done"}
  /\ at \in Client
  /\ start \in 0..MaxStart
  /\ deadline \in [Client -> Instant]
  /\ socket \in [Client -> Seq({"current", "old"})]
  /\ ready \in Seq(Client)
  /\ events \in Seq(Client)
  /\ poll_instants \in [Client -> Instant]
  /\ instant_polls \subseteq Instant \X Client

Init ==
  /\ now = 0
  /\ pc = "invoke"
  /\ at = 1
  /\ start = 0
  /\ deadline = [c \in Client |-> Never]
  /\ socket = [c \in Client |-> <<>>]
  /\ ready = <<>>
  /\ events = <<>>
  /\ poll_instants = [c \in Client |-> Never]
  /\ instant_polls = {<<Never, c>> : c \in Client}

Entered == pc \notin {"invoke", "start"}

\* Time passes; the clock is read where it matters.
Tick ==
  /\ now < (IF Entered THEN start + RunDuration ELSE MaxStart)
  /\ now' = now + 1
  /\ UNCHANGED <<programVars, clientVars, epollVars, timerVars>>

-------------------------------------------------------------------------------
(* Sockets and epoll. *)

Elements(q) == {q[k] : k \in 1..Len(q)}

\* A datagram arrives: one that completes the client's request, or any other.
\* With EPOLLET each arrival makes the socket ready.
Arrive(c) ==
  /\ pc # "done"
  /\ Len(socket[c]) < MaxSocket
  /\ \E m \in {"current", "old"} :
       /\ m = "current" => deadline[c] # Never
       /\ socket' = [socket EXCEPT ![c] = Append(@, m)]
  /\ ready' = IF c \in Elements(ready) THEN ready ELSE Append(ready, c)
  /\ UNCHANGED <<now, programVars, deadline, events, timerVars>>

\* Of the first n ready sockets those with something to read are reported.
Reported(n) == {c \in Elements(SubSeq(ready, 1, n)) : socket[c] # <<>>}

\* The kernel takes sockets from the front of its list until the buffer is full;
\* nothing depends on the order of what it reports at once.
EpollWait ==
  \E n \in 0..Len(ready), k \in 0..MaxEvents :
    /\ n = Len(ready) \/ k = MaxEvents
    /\ events' \in {s \in [1..k -> Reported(n)] :
                      /\ \A i, j \in 1..k : s[i] = s[j] => i = j
                      /\ Elements(s) = Reported(n)}
    /\ ready' = SubSeq(ready, n + 1, Len(ready))

-------------------------------------------------------------------------------
(* The clients. *)

\* What was an answer to the last request is none to the next one.
MadeOld(q) == [k \in 1..Len(q) |-> "old"]

\* A new request is sent (invoke, do_send).
Invoked(c) ==
  /\ deadline' = [deadline EXCEPT ![c] = now + ResendAfter]
  /\ socket' = [socket EXCEPT ![c] = MadeOld(Tail(@))]

IsExpired(c) == ~Before(now, deadline[c])

\* What the timer alone does to a polled client's deadline.
Resent(c) ==
  IF IsExpired(c) THEN [deadline EXCEPT ![c] = now + ResendAfter] ELSE deadline

\* poll_client, when the poll returns true: a result is taken and the next
\* request invoked, or the datagram changes nothing.
PollClientAgain(c) ==
  /\ socket[c] # <<>>
  /\ \/ /\ Head(socket[c]) = "current"
        /\ Invoked(c)
     \/ /\ Head(socket[c]) = "old"
        /\ deadline' = Resent(c)
        /\ socket' = [socket EXCEPT ![c] = Tail(@)]

\* Mutant: the old entry stays in the table.
UpdateTimerOnly(c) ==
  /\ poll_instants' = [poll_instants EXCEPT ![c] = deadline'[c]]
  /\ instant_polls' = instant_polls \cup {<<deadline'[c], c>>}

\* Nothing is done when the instants are equal.
UpdateTimer(c) ==
  /\ poll_instants' = [poll_instants EXCEPT ![c] = deadline'[c]]
  /\ instant_polls' =
       (instant_polls \ {<<poll_instants[c], c>>}) \cup {<<deadline'[c], c>>}

\* poll_client, when the poll returns false, and the update_timer after it.
PollClientLast(c) ==
  /\ socket[c] = <<>>
  /\ deadline' = Resent(c)
  /\ UpdateTimer(c)
  /\ UNCHANGED socket

-------------------------------------------------------------------------------
(* Program::run. *)

NextClient(l) ==
  IF at < NClient THEN at' = at + 1 /\ UNCHANGED pc
                  ELSE at' = 1 /\ pc' = l

\* The first requests.
InvokeFirst ==
  /\ pc = "invoke"
  /\ deadline' = [deadline EXCEPT ![at] = now + ResendAfter]
  /\ NextClient("start")
  /\ UNCHANGED <<now, start, socket, epollVars, timerVars>>

StartAgain ==
  /\ pc = "start"
  /\ PollClientAgain(at)
  /\ UNCHANGED <<now, programVars, epollVars, timerVars>>

\* After the last client the clock is read for start.
StartLast ==
  /\ pc = "start"
  /\ PollClientLast(at)
  /\ NextClient("top")
  /\ start' = IF at = NClient THEN now ELSE start
  /\ UNCHANGED <<now, epollVars>>

\* Mutant: the timer that is due last is served.
IsLastDue(instant, c) ==
  \A p \in instant_polls :
    Before(p[1], instant) \/ (p[1] = instant /\ p[2] <= c)

\* The first element of the ordered set.
IsFirstDue(instant, c) ==
  \A p \in instant_polls :
    Before(instant, p[1]) \/ (instant = p[1] /\ c <= p[2])

LoopTop ==
  /\ pc = "top"
  /\ \/ /\ now - start < RunDuration
        /\ \E p \in instant_polls :
             /\ IsFirstDue(p[1], p[2])
             /\ at' = p[2]
             /\ pc' = IF Before(p[1], Never) THEN "timer" ELSE "epoll"
     \/ /\ now - start >= RunDuration
        /\ pc' = "done"
        /\ UNCHANGED at
  /\ UNCHANGED <<now, start, clientVars, epollVars, timerVars>>

TimerAgain ==
  /\ pc = "timer"
  /\ PollClientAgain(at)
  /\ UNCHANGED <<now, programVars, epollVars, timerVars>>

TimerLast ==
  /\ pc = "timer"
  /\ PollClientLast(at)
  /\ pc' = "epoll"
  /\ UNCHANGED <<now, at, start, epollVars>>

TakeEvents ==
  /\ pc = "epoll"
  /\ pc' = "event"
  /\ \/ /\ events = <<>>
        /\ EpollWait
     \/ /\ events # <<>>
        /\ UNCHANGED epollVars
  /\ UNCHANGED <<now, at, start, clientVars, timerVars>>

\* Mutant: an event is done with after one poll.
EventKept == Tail(events)

\* The events that remain after a poll that returned true.
EventsAgain == events

\* One poll for the first event.
HandleEvent ==
  /\ pc = "event"
  /\ pc' = "top"
  /\ \/ events = <<>> /\ UNCHANGED <<clientVars, timerVars, events>>
     \/ /\ events # <<>>
        /\ PollClientAgain(Head(events))
        /\ events' = EventsAgain
        /\ UNCHANGED timerVars
     \/ /\ events # <<>>
        /\ PollClientLast(Head(events))
        /\ events' = Tail(events)
  /\ UNCHANGED <<now, at, start, ready>>

ProgramNext ==
  \/ InvokeFirst \/ StartAgain \/ StartLast
  \/ LoopTop \/ TimerAgain \/ TimerLast \/ TakeEvents \/ HandleEvent

Next == ProgramNext \/ Tick \/ \E c \in Client : Arrive(c)

Spec == Init /\ [][Next]_vars

\* The thread runs.  Nothing is asked of the clock: what has to happen must not
\* need the time to pass.
FairSpec == Spec /\ WF_vars(ProgramNext)

-------------------------------------------------------------------------------
(* Safety properties. *)

\* A socket with something to read is on the kernel's list or its event is not
\* done with: with EPOLLET nobody would report it again (EPOLLIN | EPOLLET, and
\* events = &events[1..] only after a poll that found nothing).
NoWakeupLost ==
  \A c \in Client : socket[c] # <<>> => c \in Elements(ready) \cup Elements(events)

\* In the loop every client has one place in the table, not after its deadline;
\* it may be earlier, as a poll for an event does not update it (update_timer
\* and its assertion).
TimerNotLate ==
  /\ instant_polls = {<<poll_instants[c], c>> : c \in Client}
  /\ Entered => \A c \in Client : ~Before(deadline[c], poll_instants[c])

-------------------------------------------------------------------------------
(* The inductive invariant. *)

\* Every client that was started waits for a timeout that is not far off, and
\* its place in the table is not after it.
DeadlineInv ==
  /\ ~Entered => now <= MaxStart
  /\ now <= start + RunDuration \/ ~Entered
  /\ \A c \in Client :
       /\ pc # "invoke" \/ c < at => deadline[c] \in 0..(now + ResendAfter)
       /\ Entered \/ (pc = "start" /\ c < at) =>
            poll_instants[c] \in 0..deadline[c]

BenchInv == TypeOK /\ DeadlineInv /\ NoWakeupLost /\ TimerNotLate

-------------------------------------------------------------------------------
(* Liveness properties. *)

\* No client is fed so fast that draining it never ends (the question in run).
DrainsEnd == []<>(pc \notin {"start", "timer"})

\* An expired timer is served while the loop turns, whatever arrives for other
\* clients.
TimersServed ==
  DrainsEnd => \A c \in Client :
    (Entered /\ IsExpired(c)) ~> (~IsExpired(c) \/ pc = "done")

\* No client is fed so fast that its event stays for ever.
EventsEnd == []<>(events = <<>>)

\* A datagram is read although its arrival is reported only once.
DatagramsRead ==
  DrainsEnd /\ EventsEnd => \A c \in Client :
    (socket[c] # <<>>) ~> (socket[c] = <<>> \/ pc = "done")

===============================================================================
