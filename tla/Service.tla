-------------------------------- MODULE Service -------------------------------
(***************************************************************************)
(* What a service promises its closed-loop clients: the requests are       *)
(* executed in one order, each exactly once and those of one client in the *)
(* order of their numbers; and a client is answered only after its request *)
(* has a place in that order.                                              *)
(***************************************************************************)
EXTENDS Integers, Sequences

CONSTANTS Client, MaxRequest

VARIABLES
  issued,     \* number of each client's latest request
  answered,   \* number of each client's latest answered request
  history     \* the requests, in the order of their execution

serviceVars == <<issued, answered, history>>

ServiceRequest == [client : Client, request_number : 1..MaxRequest]

ServiceInit ==
  /\ issued = [c \in Client |-> 0]
  /\ answered = [c \in Client |-> 0]
  /\ history = <<>>

InvokeRequest(c) ==
  /\ answered[c] = issued[c]
  /\ issued[c] < MaxRequest
  /\ issued' = [issued EXCEPT ![c] = @ + 1]
  /\ UNCHANGED <<answered, history>>

\* Every request has one place, after that of the client's request before it.
InOrder(h) ==
  /\ \A p, q \in 1..Len(h) : h[p] = h[q] => p = q
  /\ \A p \in 1..Len(h) : h[p].request_number > 1 =>
       \E q \in 1..(p - 1) :
         h[q] = [client |-> h[p].client, request_number |-> h[p].request_number - 1]

\* A batch of requests is executed at once.
ExecuteRequests ==
  /\ history' \in Seq(ServiceRequest)
  /\ Len(history') > Len(history)
  /\ \A p \in 1..Len(history) : history'[p] = history[p]
  /\ \A p \in (Len(history) + 1)..Len(history') :
       history'[p].request_number <= issued[history'[p].client]
  /\ InOrder(history')
  /\ UNCHANGED <<issued, answered>>

AnswerRequest(c) ==
  /\ answered[c] < issued[c]
  /\ \E p \in 1..Len(history) :
       history[p] = [client |-> c, request_number |-> issued[c]]
  /\ answered' = [answered EXCEPT ![c] = issued[c]]
  /\ UNCHANGED <<issued, history>>

ServiceNext ==
  \/ ExecuteRequests
  \/ \E c \in Client : InvokeRequest(c) \/ AnswerRequest(c)

ServiceSpec == ServiceInit /\ [][ServiceNext]_serviceVars

===============================================================================
