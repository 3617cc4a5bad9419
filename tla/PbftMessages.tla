----------------------------- MODULE PbftMessages -----------------------------
(***************************************************************************)
(* What the PBFT clients and replicas share: the message types of          *)
(* src/message and the datagrams that are on their way.                    *)
(*                                                                         *)
(* The view number is 0 in every state of every actor (no code assigns the *)
(* replicas' view_number after construction), so it is left out of the     *)
(* messages, and the replica view_number % n is the constant Primary.      *)
(***************************************************************************)
EXTENDS Integers, FiniteSets, Sequences

CONSTANTS
  Replica,      \* the replicas that run; one that is down is not in the set
  Primary,      \* replica 0, the primary of view 0
  F,            \* config.f, the number of tolerated faults
  Client,       \* the clients, with distinct ids
  MaxRequest    \* bound on a client's request_number

ASSUME PbftAssumption ==
  /\ IsFiniteSet(Replica)
  /\ Primary \in Replica
  /\ F \in Nat
  /\ MaxRequest \in Nat

VARIABLES
  in_flight,    \* for every request, the datagrams that carry it to the primary
  network,      \* every message a replica has handed over for broadcast
  replies       \* every reply a replica has handed over for a client

networkVars == <<in_flight, network, replies>>

\* The operation and the client's address are determined by these two.
Request == [client : Client, request_number : 1..MaxRequest]

Batch == Seq(Request)

\* SHA-256 of a serialised batch, taken to be free of collisions.
Digest(batch) == [sha256 |-> batch]

Digests == [sha256 : Batch]

PrePrepare(op, batch) ==
  [type |-> "PrePrepare", op_number |-> op,
   request_digest |-> Digest(batch), requests |-> batch]

\* Mutant: the position in the log instead of the op number.
VoteAtPosition(phase, op, digest, i) ==
  [type |-> phase, op_number |-> op - 1, request_digest |-> digest, replica_id |-> i]

Vote(phase, op, digest, i) ==
  [type |-> phase, op_number |-> op, request_digest |-> digest, replica_id |-> i]

Reply(request, i) ==
  [client |-> request.client, request_number |-> request.request_number,
   replica_id |-> i]

OpNumber == Nat \ {0}

PrePrepareMessage ==
  [type : {"PrePrepare"}, op_number : OpNumber,
   request_digest : Digests, requests : Batch]

VoteMessage ==
  [type : {"Prepare", "Commit"}, op_number : OpNumber,
   request_digest : Digests, replica_id : Replica]

Message == PrePrepareMessage \cup VoteMessage

ReplyMessage ==
  [client : Client, request_number : 1..MaxRequest, replica_id : Replica]

\* The only key a PrePrepare verifies under is the primary's.
Sender(m) == IF m.type = "PrePrepare" THEN Primary ELSE m.replica_id

NetworkInit ==
  /\ in_flight = [request \in Request |-> 0]
  /\ network = {}
  /\ replies = {}

NetworkTypeOK ==
  /\ in_flight \in [Request -> Nat]
  /\ network \subseteq Message
  /\ replies \subseteq ReplyMessage

===============================================================================
