------------------------------ MODULE PbftService -----------------------------
(***************************************************************************)
(* The PBFT service implements Service: the order of execution is that of  *)
(* the replica that has executed most.                                     *)
(***************************************************************************)
EXTENDS Pbft

MostAdvanced ==
  CHOOSE i \in Replica : \A j \in Replica : execute_number[j] <= execute_number[i]

\* Where a call stands among others.
Place(calls, x) == Cardinality({y \in calls : Precedes(y, x)}) + 1

RequestsInOrder(calls) ==
  [p \in 1..Cardinality(calls) |-> (CHOOSE x \in calls : Place(calls, x) = p).request]

\* The requests the application of replica i was called with, in order.
ExecutionOrder(i) == RequestsInOrder(app[i])

History == ExecutionOrder(MostAdvanced)

Abstract == INSTANCE Service WITH
  issued <- request_number,
  answered <- [c \in Client |-> Answered(c)],
  history <- History

\* Every step of the PBFT service is a step of the abstract service or changes
\* nothing a client can tell: one order, exactly once, and answers only for
\* executed requests.
ImplementsService == Abstract!ServiceSpec

===============================================================================
