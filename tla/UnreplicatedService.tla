-------------------------- MODULE UnreplicatedService -------------------------
(***************************************************************************)
(* The unreplicated service implements Service: its log is the order of    *)
(* execution.                                                              *)
(***************************************************************************)
EXTENDS Unreplicated

Abstract == INSTANCE Service WITH
  issued <- request_number,
  answered <- [c \in Client |-> Answered(c)],
  history <- log

\* However often a request is lost, duplicated, delayed or resent, it is
\* executed once, in the client's order, and answered afterwards (handle_request
\* and the client's poll).
ImplementsService == Abstract!ServiceSpec

-------------------------------------------------------------------------------
(* The inductive invariant. *)

\* What each client sent, and what was executed of it.
IssuedInv ==
  /\ \A m \in requests \cup QueuedRequests :
       m.request_number <= request_number[m.client]
  /\ \A c \in Client :
       /\ 0 <= Answered(c)
       /\ Answered(c) <= client_table[c].request_number
       /\ client_table[c].request_number <= request_number[c]

IsFromLog(r) ==
  /\ r.result \in 1..Len(log)
  /\ log[r.result] = [client |-> r.client, request_number |-> r.request_number]

\* The table against the log: an entry is the reply to the last of the client's
\* requests.
TableInv ==
  /\ op_number = Len(log)
  /\ \A c \in Client :
       /\ client_table[c].client = c
       /\ client_table[c].request_number > 0 => IsFromLog(client_table[c])
  /\ \A p \in 1..Len(log) :
       log[p].request_number <= client_table[log[p].client].request_number
  /\ Abstract!InOrder(log)

ReplyInv ==
  /\ \A r \in replies \cup QueuedReplies : IsFromLog(r)
  /\ \A c \in Client : Answered(c) > 0 =>
       IsFromLog([client |-> c, request_number |-> Answered(c), result |-> result[c]])

UnreplicatedInv == TypeOK /\ IssuedInv /\ TableInv /\ ReplyInv

===============================================================================
