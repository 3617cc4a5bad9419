----------------------------- MODULE PbftPipeline -----------------------------
(***************************************************************************)
(* The threads inside one replica, Focus: the listen thread, the threads   *)
(* that poll the shared crypto state, and the main thread, with the        *)
(* channels to_crypto and to_main between them.  The main thread takes the *)
(* head of its channel and no other message, and another replica receives  *)
(* nothing that Focus has not broadcast yet.                               *)
(*                                                                         *)
(* PbftReplica lets a main thread handle anything of its Inbox; here the   *)
(* steps of Focus are those of PbftReplica that its threads can bring      *)
(* about, and the properties say that they never bring about another.      *)
(* UDP may deliver a datagram again at any time, and nothing between the   *)
(* socket and main looks whether a message has come before.                *)
(* Every signature is good; replies, which pass to_crypto too, only leave  *)
(* the replica and are left out.                                           *)
(***************************************************************************)
EXTENDS Pbft

CONSTANTS
  Focus,     \* the replica whose threads are modelled
  Crypto,    \* the threads that poll the crypto state
  MaxRepeat  \* bound on the datagrams that arrive again

ASSUME PipelineAssumption ==
  /\ Focus \in Late \cap Duplicates
  /\ MaxRepeat \in Nat

VARIABLES
  arrived,     \* the messages that were read from the socket
  repeats,     \* how many of them were read again
  to_crypto,   \* the channel to the crypto threads
  hands,       \* what each crypto thread is working on, if anything
  to_main,     \* the channel to main
  broadcast    \* Focus's own messages that were sent to the other replicas

pipeVars == <<arrived, repeats, to_crypto, hands, to_main, broadcast>>
allVars == <<vars, pipeVars>>

IsOwn(m) == Sender(m) = Focus

Positions(q, m) == {k \in 1..Len(q) : q[k] = m}

Count(q, m) == Cardinality(Positions(q, m))

\* Whatever passes the pipeline was sent.
PipelineTypeOK ==
  /\ arrived \subseteq network
  /\ repeats \in 0..MaxRepeat
  /\ to_crypto \in Seq(network)
  /\ hands \subseteq [thread : Crypto, message : network, sent : BOOLEAN]
  /\ to_main \in Seq(network \cup Request)
  /\ broadcast \subseteq network

PipelineInit ==
  /\ Init
  /\ arrived = {}
  /\ repeats = 0
  /\ to_crypto = <<>>
  /\ hands = {}
  /\ to_main = <<>>
  /\ broadcast = {}

-------------------------------------------------------------------------------
(* The threads. *)

\* The socket has m, which was read before or not.
Arrives(m) ==
  \/ /\ m \notin arrived
     /\ arrived' = arrived \cup {m}
     /\ UNCHANGED repeats
  \/ /\ m \in arrived
     /\ repeats < MaxRepeat
     /\ repeats' = repeats + 1
     /\ UNCHANGED arrived

\* A request is passed to main unverified.
ListenPoll ==
  /\ \/ \E m \in Received(Focus) :
          /\ Arrives(m)
          /\ to_crypto' = Append(to_crypto, m)
          /\ UNCHANGED to_main
     \/ /\ Focus = Primary
        /\ \E m \in Request :
             /\ Count(to_main, m) < in_flight[m]
             /\ to_main' = Append(to_main, m)
        /\ UNCHANGED <<arrived, repeats, to_crypto>>
  /\ UNCHANGED <<vars, hands, broadcast>>

IsFree(t) == \A h \in hands : h.thread # t

\* shared_poll takes one message; several threads may be in it at once, also with
\* copies of the same message.
CryptoTake ==
  /\ to_crypto # <<>>
  /\ \E t \in Crypto :
       /\ IsFree(t)
       /\ hands' = hands \cup {[thread |-> t, message |-> Head(to_crypto), sent |-> FALSE]}
  /\ to_crypto' = Tail(to_crypto)
  /\ UNCHANGED <<vars, arrived, repeats, to_main, broadcast>>

\* A message of Focus is signed and sent to every other replica.
CryptoBroadcast ==
  /\ \E h \in hands :
       /\ IsOwn(h.message)
       /\ ~h.sent
       /\ broadcast' = broadcast \cup {h.message}
       /\ hands' = (hands \ {h}) \cup {[h EXCEPT !.sent = TRUE]}
  /\ UNCHANGED <<vars, arrived, repeats, to_crypto, to_main>>

\* Mutant: the own copy is passed to main before it is broadcast.
IsDoneEarly(h) == TRUE

IsDone(h) == h.sent \/ ~IsOwn(h.message)

\* Mutant: an own message stays in the hands of its thread.
HandsKept(h) == IF IsOwn(h.message) THEN hands ELSE hands \ {h}

HandsAfter(h) == hands \ {h}

\* The own copy, and what was verified, goes to main.
CryptoReturn ==
  /\ \E h \in hands :
       /\ IsDone(h)
       /\ hands' = HandsAfter(h)
       /\ to_main' = Append(to_main, h.message)
  /\ UNCHANGED <<vars, arrived, repeats, to_crypto, broadcast>>

\* What main hands over in a step, in the order of op numbers.
InOrderOfOp(out) ==
  [k \in 1..Cardinality(out) |->
     CHOOSE m \in out : Cardinality({n \in out : n.op_number < m.op_number}) = k - 1]

HandedOver == to_crypto \o InOrderOfOp(network' \ network)

FocusPoll ==
  /\ to_main # <<>>
  /\ LET m == Head(to_main)
     IN  \/ m \in Request /\ HandleRequest(m)
         \/ /\ m \in Inbox(Focus)
            /\ HandlePrePrepare(Focus, m) \/ HandlePrepare(Focus, m) \/ HandleCommit(Focus, m)
  /\ to_main' = Tail(to_main)
  /\ to_crypto' = HandedOver
  /\ UNCHANGED <<clientVars, arrived, repeats, hands, broadcast>>

-------------------------------------------------------------------------------
(* The other replicas, and the clients. *)

OtherNext(i) ==
  /\ \/ i = Primary /\ \E m \in Request : HandleRequest(m)
     \/ \E m \in Inbox(i) :
          /\ IsOwn(m) => m \in broadcast
          /\ HandlePrePrepare(i, m) \/ HandlePrepare(i, m) \/ HandleCommit(i, m)
  /\ UNCHANGED <<clientVars, pipeVars>>

PipelineNext ==
  \/ ListenPoll \/ CryptoTake \/ CryptoBroadcast \/ CryptoReturn \/ FocusPoll
  \/ \E i \in Replica \ {Focus} : OtherNext(i)
  \/ \E c \in Client : ClientNext(c) /\ UNCHANGED pipeVars

PipelineSpec == PipelineInit /\ [][PipelineNext]_allVars

-------------------------------------------------------------------------------
(* Properties. *)

Held(m) == {h \in hands : h.message = m}

\* The copies of m between listen and main.
Copies(m) == Count(to_crypto, m) + Cardinality(Held(m)) + Count(to_main, m)

\* What main hands over comes back to it exactly once: one copy is in one place
\* of the pipeline until main has it, and none is left then (the Signed copies
\* that crypto sends to main).
OwnCopiesReturnOnce ==
  \A m \in network : IsOwn(m) => Copies(m) = IF m \in signing[Focus] THEN 1 ELSE 0

\* Main counts its own vote only after the others were sent it (the order of
\* send_to and to_main.send in shared_poll).
HandledIsBroadcast ==
  \A m \in network : IsOwn(m) /\ m \notin signing[Focus] => m \in broadcast

\* The threads bring main nothing that PbftReplica does not let it handle: a
\* message of the replica itself comes while it is in signing, that is, once, and
\* any other, the first time or again, is one that another has sent (MainThread
\* handles whatever is at the head of its channel; what it handles is in Inbox).
HeadIsInInbox ==
  to_main # <<>> =>
    LET m == Head(to_main)
    IN  m \in Inbox(Focus) \/ (m \in Request /\ in_flight[m] > 0)

-------------------------------------------------------------------------------
(* The inductive invariant. *)

\* Requests pass the primary's pipeline only.
RequestsAtPrimary == \A k \in 1..Len(to_main) : to_main[k] \in Request => Focus = Primary

\* An own message has left before it comes back.
ReturnedIsBroadcast ==
  /\ \A h \in hands : h.sent => h.message \in broadcast
  /\ \A k \in 1..Len(to_main) :
       to_main[k] \in network /\ IsOwn(to_main[k]) => to_main[k] \in broadcast

\* How the threads of a replica share its messages, on top of AgreementInv, which
\* says what a handler hands over.
HandOverInv ==
  /\ PipelineTypeOK
  /\ IsFiniteSet(hands)
  /\ RequestsAtPrimary
  /\ ReturnedIsBroadcast
  /\ OwnCopiesReturnOnce
  /\ HandledIsBroadcast

\* The socket has every request that is in the channel.
RequestsAreBacked == \A r \in Request : Count(to_main, r) <= in_flight[r]

PipelineInv == HandOverInv /\ RequestsAreBacked

===============================================================================
