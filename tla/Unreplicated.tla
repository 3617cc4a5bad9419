----------------------------- MODULE Unreplicated -----------------------------
(***************************************************************************)
(* The unreplicated service: closed-loop clients and one server of three   *)
(* threads.  The listen thread hands requests to the main thread and the   *)
(* main thread hands replies to the effect threads, each through a FIFO    *)
(* channel.  Datagrams may be lost, duplicated and reordered; clients      *)
(* resend.                                                                 *)
(*                                                                         *)
(* App::execute is called with the op number; a result is represented by   *)
(* that number, so that two calls never have the same result.              *)
(***************************************************************************)
EXTENDS Integers, Sequences, FiniteSets

CONSTANTS
  Client,       \* the clients, with distinct ids
  MaxRequest,   \* bound on a client's request_number
  MaxQueue      \* bound on what waits between two threads of the server

ASSUME UnreplicatedAssumption == MaxRequest \in Nat /\ MaxQueue \in Nat

VARIABLES
  request_number,   \* number of each client's latest request
  pending,          \* whether op is Some, that is, a request is outstanding
  result,           \* the result each client took last
  requests,         \* datagrams on their way to the server
  replies,          \* datagrams on their way to the clients
  to_main,          \* the channel from listen to main
  to_effect,        \* the channel from main to effect
  client_table,     \* the last reply to each client
  op_number,        \* the number of calls of App::execute
  log               \* the executed requests

clientVars == <<request_number, pending, result>>
mainVars == <<client_table, op_number, log>>
vars == <<clientVars, requests, replies, to_main, to_effect, mainVars>>

\* The operation and the client's address are determined by these two.
Request == [client : Client, request_number : 1..MaxRequest]

\* The destination is the client's address.
Reply == [client : Client, request_number : 1..MaxRequest, result : Nat \ {0}]

\* The absent entry of the table.
NoReply(c) == [client |-> c, request_number |-> 0, result |-> 0]

TypeOK ==
  /\ request_number \in [Client -> 0..MaxRequest]
  /\ pending \in [Client -> BOOLEAN]
  /\ result \in [Client -> Nat]
  /\ requests \subseteq Request
  /\ replies \subseteq Reply
  /\ to_main \in Seq(Request)
  /\ to_effect \in Seq(Reply)
  /\ client_table \in [Client -> Reply \cup {NoReply(c) : c \in Client}]
  /\ op_number \in Nat
  /\ log \in Seq(Request)

Init ==
  /\ request_number = [c \in Client |-> 0]
  /\ pending = [c \in Client |-> FALSE]
  /\ result = [c \in Client |-> 0]
  /\ requests = {}
  /\ replies = {}
  /\ to_main = <<>>
  /\ to_effect = <<>>
  /\ client_table = [c \in Client |-> NoReply(c)]
  /\ op_number = 0
  /\ log = <<>>

-------------------------------------------------------------------------------
(* Datagrams. *)

\* A datagram that is read may arrive again.
Consume(datagrams, m) == {datagrams, datagrams \ {m}}

\* (A request is lost only at a moment when it could be delivered: the bound on
\* the channel must not decide which datagrams get through.)
Lose ==
  /\ \/ /\ Len(to_main) < MaxQueue
        /\ \E m \in requests : requests' = requests \ {m}
        /\ UNCHANGED replies
     \/ /\ \E m \in replies : replies' = replies \ {m}
        /\ UNCHANGED requests
  /\ UNCHANGED <<clientVars, to_main, to_effect, mainVars>>

-------------------------------------------------------------------------------
(* The client. *)

Outstanding(c) == [client |-> c, request_number |-> request_number[c]]

\* poll_client has taken the last result and invokes the next request.
Invoke(c) ==
  /\ ~pending[c]
  /\ request_number[c] < MaxRequest
  /\ request_number' = [request_number EXCEPT ![c] = @ + 1]
  /\ pending' = [pending EXCEPT ![c] = TRUE]
  /\ requests' = requests \cup {[client |-> c, request_number |-> request_number[c] + 1]}
  /\ UNCHANGED <<result, replies, to_main, to_effect, mainVars>>

\* Mutant: any reply answers the outstanding request.
IsAnyReply(c, m) == m.client = c /\ pending[c]

IsAwaited(c, m) ==
  /\ m.client = c
  /\ pending[c]
  /\ m.request_number = request_number[c]

\* A reply that is not awaited is dropped, like one that is lost.
ReceiveReply(c) ==
  \E m \in replies :
    /\ IsAwaited(c, m)
    /\ replies' \in Consume(replies, m)
    /\ pending' = [pending EXCEPT ![c] = FALSE]
    /\ result' = [result EXCEPT ![c] = m.result]

\* A poll reads at most one datagram; after the timer has expired it resends
\* first.
PollExpired(c) ==
  /\ pending[c]
  /\ requests' = requests \cup {Outstanding(c)}
  /\ \/ ReceiveReply(c)
     \/ UNCHANGED <<pending, result, replies>>
  /\ UNCHANGED <<request_number, to_main, to_effect, mainVars>>

PollInTime(c) ==
  /\ \/ ReceiveReply(c)
     \/ UNCHANGED <<pending, result, replies>>
  /\ UNCHANGED <<request_number, requests, to_main, to_effect, mainVars>>

-------------------------------------------------------------------------------
(* The server. *)

ListenPoll(m) ==
  /\ m \in requests
  /\ Len(to_main) < MaxQueue
  /\ requests' \in Consume(requests, m)
  /\ to_main' = Append(to_main, m)
  /\ UNCHANGED <<clientVars, replies, to_effect, mainVars>>

\* Mutant: a request below the client's entry in the table is taken for new.
NeverOld(m) == FALSE

\* Mutant: a repeated request is ignored as well.
IsOldOrRepeated(m) == client_table[m.client].request_number >= m.request_number

IsOld(m) == client_table[m.client].request_number > m.request_number

\* Mutant: a request the table answers is executed again.
NeverRepeated(m) == FALSE

IsRepeated(m) == client_table[m.client].request_number = m.request_number

\* The reply to a request that is executed now.
NewReply(m) ==
  [client |-> m.client, request_number |-> m.request_number, result |-> op_number + 1]

\* handle_request, for the message at the head of the channel.
MainPoll ==
  /\ to_main # <<>>
  /\ Len(to_effect) < MaxQueue
  /\ to_main' = Tail(to_main)
  /\ LET m == Head(to_main)
     IN  \/ /\ IsOld(m)
            /\ UNCHANGED <<to_effect, mainVars>>
         \/ /\ ~IsOld(m)
            /\ IsRepeated(m)
            /\ to_effect' = Append(to_effect, client_table[m.client])
            /\ UNCHANGED mainVars
         \/ /\ ~IsOld(m)
            /\ ~IsRepeated(m)
            /\ log' = Append(log, m)
            /\ op_number' = op_number + 1
            /\ client_table' = [client_table EXCEPT ![m.client] = NewReply(m)]
            /\ to_effect' = Append(to_effect, NewReply(m))
  /\ UNCHANGED <<clientVars, requests, replies>>

\* shared_poll, by whichever thread comes first.
EffectPoll ==
  /\ to_effect # <<>>
  /\ to_effect' = Tail(to_effect)
  /\ replies' = replies \cup {Head(to_effect)}
  /\ UNCHANGED <<clientVars, requests, to_main, mainVars>>

-------------------------------------------------------------------------------

ClientNext(c) == Invoke(c) \/ PollExpired(c) \/ PollInTime(c)

ServerNext == (\E m \in Request : ListenPoll(m)) \/ MainPoll \/ EffectPoll

Next == (\E c \in Client : ClientNext(c)) \/ ServerNext \/ Lose

Spec == Init /\ [][Next]_vars

-------------------------------------------------------------------------------
(* Properties. *)

QueuedReplies == {to_effect[k] : k \in 1..Len(to_effect)}

QueuedRequests == {to_main[k] : k \in 1..Len(to_main)}

\* Every reply on its way, first or repeated, carries the result of the one
\* call that executed its request (handle_request answers a repeated request
\* from the table and never calls the application again).
ReplyIsFromLog ==
  \A r \in replies \cup QueuedReplies :
    \A p \in 1..Len(log) :
      log[p] = [client |-> r.client, request_number |-> r.request_number]
        <=> p = r.result

Answered(c) == IF pending[c] THEN request_number[c] - 1 ELSE request_number[c]

\* The result a client holds is that of its own latest answered request, not
\* of an earlier one whose reply came late (the check of request_number in
\* poll).
ResultIsOwn ==
  \A c \in Client : Answered(c) > 0 =>
    /\ result[c] \in 1..Len(log)
    /\ log[result[c]] = [client |-> c, request_number |-> Answered(c)]

===============================================================================
