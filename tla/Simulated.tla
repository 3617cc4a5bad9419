------------------------------- MODULE Simulated ------------------------------
(***************************************************************************)
(* The simulated network of the tests, with the unreplicated service on    *)
(* it: one thread calls every poll, all datagrams pass one FIFO queue      *)
(* whose filter may drop them, and time stands still unless it is elapsed. *)
(* A test is a sequence of rounds: the clients are polled until they have  *)
(* nothing to do, then the network, the replica, the network, and the      *)
(* clients again.                                                          *)
(*                                                                         *)
(* Each poll is the step of Unreplicated with the datagram that the queues *)
(* determine.  requests and replies are here all that were ever sent.      *)
(***************************************************************************)
EXTENDS Unreplicated

VARIABLES
  phase,       \* what the test polls; there is no test on UDP sockets
  part,        \* the part of the replica whose turn it is in Replica::poll
  poll_again,  \* whether a part has done something in this Replica::poll
  tx,          \* Network.tx
  rx_replica,  \* the replica's route
  rx_client,   \* the route of each client
  expired,     \* the clients whose resend_instant has come
  complete     \* every open request was sent, and nothing dropped, in this round

queueVars == <<tx, rx_replica, rx_client>>
replicaTurn == <<part, poll_again>>
simulatedVars == <<phase, replicaTurn, queueVars, expired, complete>>

Elements(q) == {q[k] : k \in 1..Len(q)}

NetworkIdle ==
  /\ part = "listen"
  /\ poll_again = FALSE
  /\ tx = <<>>
  /\ rx_replica = <<>>
  /\ rx_client = [c \in Client |-> <<>>]
  /\ expired = {}
  /\ complete = FALSE

SimulatedInit == Init /\ phase = "elapse" /\ NetworkIdle

-------------------------------------------------------------------------------
(* Before a round. *)

InvokeNext(c) ==
  /\ phase = "elapse"
  /\ Invoke(c)
  /\ tx' = Append(tx, Outstanding(c)')
  /\ complete' = FALSE
  /\ UNCHANGED <<phase, replicaTurn, rx_replica, rx_client, expired>>

\* Network::elapse by more than the clients' timeout, or not at all.
Elapse ==
  /\ phase = "elapse"
  /\ expired' \in {expired, {c \in Client : pending[c]}}
  /\ complete' = \A c \in Client :
       pending[c] => c \in expired' \/ Outstanding(c) \in Elements(tx)
  /\ phase' = "ask"
  /\ UNCHANGED <<vars, replicaTurn, queueVars>>

-------------------------------------------------------------------------------
(* The polls. *)

HasWork(c) == c \in expired \/ rx_client[c] # <<>>

\* Client::poll: the timer, then at most one datagram.
PollClient(c) ==
  /\ phase \in {"ask", "take"}
  /\ HasWork(c)
  /\ \/ /\ c \in expired
        /\ PollExpired(c)
        /\ tx' = Append(tx, Outstanding(c))
     \/ /\ c \notin expired
        /\ PollInTime(c)
        /\ UNCHANGED tx
  /\ expired' = expired \ {c}
  /\ UNCHANGED replies
  /\ \/ /\ rx_client[c] = <<>>
        /\ UNCHANGED <<pending, rx_client>>
     \/ /\ rx_client[c] # <<>>
        /\ rx_client' = [rx_client EXCEPT ![c] = Tail(@)]
        /\ LET m == Head(rx_client[c])
           IN  IF IsAwaited(c, m) THEN ~pending'[c] /\ result'[c] = m.result
                                  ELSE UNCHANGED pending
  /\ UNCHANGED <<phase, replicaTurn, rx_replica, complete>>

ClientsDone(next) ==
  /\ \A c \in Client : ~HasWork(c)
  /\ phase' = next
  /\ UNCHANGED <<vars, replicaTurn, queueVars, expired, complete>>

\* Network::poll: the filter decides whether the datagram is routed.
PollNetwork ==
  /\ phase \in {"deliver", "return"}
  /\ tx # <<>>
  /\ tx' = Tail(tx)
  /\ LET m == Head(tx)
     IN  \/ /\ complete' = FALSE
            /\ UNCHANGED <<rx_replica, rx_client>>
         \/ /\ m \in Request
            /\ rx_replica' = Append(rx_replica, m)
            /\ UNCHANGED <<rx_client, complete>>
         \/ /\ m \notin Request
            /\ rx_client' = [rx_client EXCEPT ![m.client] = Append(@, m)]
            /\ UNCHANGED <<rx_replica, complete>>
  /\ UNCHANGED <<vars, phase, replicaTurn, expired>>

NetworkDone(next) ==
  /\ tx = <<>>
  /\ phase' = next
  /\ UNCHANGED <<vars, replicaTurn, queueVars, expired, complete>>

\* Replica::poll polls its three parts in turn.
PollListen ==
  /\ phase = "serve"
  /\ part = "listen"
  /\ part' = "main"
  /\ \/ /\ rx_replica # <<>>
        /\ ListenPoll(Head(rx_replica))
        /\ UNCHANGED requests
        /\ rx_replica' = Tail(rx_replica)
        /\ poll_again' = TRUE
     \/ /\ rx_replica = <<>>
        /\ UNCHANGED <<vars, rx_replica, poll_again>>
  /\ UNCHANGED <<phase, tx, rx_client, expired, complete>>

PollMain ==
  /\ phase = "serve"
  /\ part = "main"
  /\ part' = "effect"
  /\ \/ MainPoll /\ poll_again' = TRUE
     \/ to_main = <<>> /\ UNCHANGED <<vars, poll_again>>
  /\ UNCHANGED <<phase, queueVars, expired, complete>>

\* Mutant: the replica is polled once.
IsIdleAtOnce == TRUE

\* No part did anything in this Replica::poll, which ends the loop of the test.
IsIdle == ~poll_again /\ to_effect = <<>>

PollEffect ==
  /\ phase = "serve"
  /\ part = "effect"
  /\ part' = "listen"
  /\ \/ EffectPoll /\ tx' = Append(tx, Head(to_effect))
     \/ to_effect = <<>> /\ UNCHANGED <<vars, tx>>
  /\ poll_again' = FALSE
  /\ phase' = IF IsIdle THEN "return" ELSE phase
  /\ UNCHANGED <<rx_replica, rx_client, expired, complete>>

SimulatedNext ==
  \/ \E c \in Client : InvokeNext(c) \/ PollClient(c)
  \/ Elapse
  \/ phase = "ask" /\ ClientsDone("deliver")
  \/ PollNetwork
  \/ phase = "deliver" /\ NetworkDone("serve")
  \/ PollListen \/ PollMain \/ PollEffect
  \/ phase = "return" /\ NetworkDone("take")
  \/ phase = "take" /\ ClientsDone("elapse")

-------------------------------------------------------------------------------
(* Properties. *)

\* A round in which every open request is sent, and no datagram dropped,
\* answers everything, and by then the application was called once for every
\* request that was issued and for nothing else, whatever was dropped in the
\* rounds before (one_op, resend_request, resend_reply).
CompleteRoundAnswers ==
  phase = "elapse" /\ complete =>
    /\ \A c \in Client : ~pending[c]
    /\ \A m \in Request :
         Cardinality({p \in 1..op_number : log[p] = m})
           = IF m.request_number <= request_number[m.client] THEN 1 ELSE 0

-------------------------------------------------------------------------------
(* The inductive invariant. *)

SimulatedTypeOK ==
  /\ phase \in {"udp", "elapse", "ask", "deliver", "serve", "return", "take"}
  /\ part \in {"listen", "main", "effect"}
  /\ poll_again \in BOOLEAN
  /\ tx \in Seq(Request \cup Reply)
  /\ rx_replica \in Seq(Request)
  /\ rx_client \in [Client -> Seq(Reply)]
  /\ expired \subseteq Client
  /\ complete \in BOOLEAN

\* What a part that has done nothing in this Replica::poll has found.
TurnInv ==
  /\ phase # "serve" => part = "listen"
  /\ part = "listen" => ~poll_again
  /\ part # "listen" /\ ~poll_again => rx_replica = <<>>
  /\ part = "effect" /\ ~poll_again => to_main = <<>>

IsAnswer(c, m) ==
  /\ m \in Reply
  /\ m.client = c
  /\ m.request_number = request_number[c]

\* Where the outstanding request of c, or its answer, is at each point of a
\* round.
OnItsWay(c) ==
  /\ phase = "ask" => c \in expired \/ Outstanding(c) \in Elements(tx)
  /\ phase = "deliver" => Outstanding(c) \in Elements(tx) \cup Elements(rx_replica)
  /\ phase = "serve" =>
       \/ Outstanding(c) \in Elements(rx_replica) \cup QueuedRequests
       \/ \E m \in QueuedReplies \cup Elements(tx) : IsAnswer(c, m)
  /\ phase = "return" => \E m \in Elements(tx) \cup Elements(rx_client[c]) : IsAnswer(c, m)
  /\ phase = "take" => \E m \in Elements(rx_client[c]) : IsAnswer(c, m)
  /\ phase # "elapse"

\* A round that is complete so far loses no open request, nor its answer,
\* between one queue and the next (the test network, Replica::poll and the
\* tests).
RoundInv ==
  /\ SimulatedTypeOK
  /\ TurnInv
  /\ complete => \A c \in Client : pending[c] => OnItsWay(c)

===============================================================================
