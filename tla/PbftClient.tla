------------------------------ MODULE PbftClient ------------------------------
(***************************************************************************)
(* The closed-loop PBFT client (pbft::Client driven by bench_client): it   *)
(* has at most one outstanding request, resends it to the primary whenever *)
(* its timer expires, and takes the result once F+1 replicas answered.     *)
(*                                                                         *)
(* Time is abstracted: a timer that is armed may expire at any poll.  The  *)
(* timer is armed (resend_instant is Some) exactly while op is Some.       *)
(***************************************************************************)
EXTENDS PbftMessages

CONSTANT MaxResend    \* bound on the expiries of one client's timer

ASSUME ResendAssumption == MaxResend \in Nat

VARIABLES
  request_number,   \* number of the latest request
  pending,          \* whether op is Some, that is, a request is outstanding
  results,          \* the replicas that answered the outstanding request
  resends           \* how often the client has resent a request

clientVars == <<request_number, pending, results, resends>>

ClientTypeOK ==
  /\ request_number \in [Client -> 0..MaxRequest]
  /\ pending \in [Client -> BOOLEAN]
  /\ results \in [Client -> SUBSET Replica]
  /\ resends \in [Client -> 0..MaxResend]

ClientInit ==
  /\ request_number = [c \in Client |-> 0]
  /\ pending = [c \in Client |-> FALSE]
  /\ results = [c \in Client |-> {}]
  /\ resends = [c \in Client |-> 0]

DoSend(c, n) ==
  in_flight' = [in_flight EXCEPT ![[client |-> c, request_number |-> n]] = @ + 1]

\* Mutant: the next request does not wait for the result of the previous one.
InvokeEagerly(c) ==
  /\ request_number[c] < MaxRequest
  /\ request_number' = [request_number EXCEPT ![c] = @ + 1]
  /\ pending' = [pending EXCEPT ![c] = TRUE]
  /\ DoSend(c, request_number[c] + 1)
  /\ UNCHANGED <<results, resends, network, replies>>

\* poll_client takes the result of the previous request and invokes the next.
Invoke(c) ==
  /\ ~pending[c]
  /\ request_number[c] < MaxRequest
  /\ request_number' = [request_number EXCEPT ![c] = @ + 1]
  /\ pending' = [pending EXCEPT ![c] = TRUE]
  /\ DoSend(c, request_number[c] + 1)
  /\ UNCHANGED <<results, resends, network, replies>>

\* Mutant: a reply to an earlier request counts for the outstanding one.
IsAwaitedUnchecked(c, m) ==
  /\ m.client = c
  /\ pending[c]

\* A reply counts only while its request is the outstanding one.
IsAwaited(c, m) ==
  /\ m.client = c
  /\ pending[c]
  /\ m.request_number = request_number[c]

EnoughResults(heard) == Cardinality(heard) > F

\* The datagrams that are not awaited are dropped and change nothing.
ReceiveReply(c) ==
  \E m \in replies :
    /\ IsAwaited(c, m)
    /\ LET heard == results[c] \cup {m.replica_id}
           done == EnoughResults(heard)
       IN  /\ results' = [results EXCEPT ![c] = IF done THEN {} ELSE heard]
           /\ pending' = [pending EXCEPT ![c] = ~done]

\* One poll: resend if the timer has expired, then read at most one datagram.
ClientPoll(c) ==
  /\ \/ /\ pending[c]
        /\ resends[c] < MaxResend
        /\ DoSend(c, request_number[c])
        /\ resends' = [resends EXCEPT ![c] = @ + 1]
     \/ UNCHANGED <<in_flight, resends>>
  /\ \/ ReceiveReply(c)
     \/ UNCHANGED <<pending, results>>
  /\ UNCHANGED <<request_number, network, replies>>

===============================================================================
