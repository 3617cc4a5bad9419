-------------------------- MODULE UnreplicatedProofs --------------------------
(***************************************************************************)
(* Safety of the unreplicated service, for any clients and any number of   *)
(* requests: its invariant, what clients may rely on, and that it          *)
(* implements Service.                                                     *)
(***************************************************************************)
EXTENDS UnreplicatedService, Transport, TLAPS, FiniteSetTheorems, WellFoundedInduction

-------------------------------------------------------------------------------
(* Channels. *)

LEMMA SentIsQueued ==
  ASSUME NEW S, NEW q \in Seq(S), NEW x \in S
  PROVE  /\ Append(q, x) \in Seq(S)
         /\ {Append(q, x)[k] : k \in 1..Len(Append(q, x))}
              = {q[k] : k \in 1..Len(q)} \cup {x}
<1>1. /\ Append(q, x) \in Seq(S)
      /\ Len(Append(q, x)) = Len(q) + 1
      /\ Append(q, x)[Len(q) + 1] = x
      /\ \A k \in 1..Len(q) : Append(q, x)[k] = q[k]
  OBVIOUS
<1>2. Len(q) \in Nat
  OBVIOUS
<1> QED  BY <1>1, <1>2

LEMMA ReceivedWasQueued ==
  ASSUME NEW S, NEW q \in Seq(S), q # <<>>
  PROVE  /\ Tail(q) \in Seq(S)
         /\ Head(q) \in S
         /\ Head(q) \in {q[k] : k \in 1..Len(q)}
         /\ {Tail(q)[k] : k \in 1..Len(Tail(q))} \subseteq {q[k] : k \in 1..Len(q)}
<1>1. /\ Len(q) \in Nat \ {0}
      /\ Head(q) = q[1]
      /\ Tail(q) \in Seq(S)
      /\ Len(Tail(q)) = Len(q) - 1
      /\ \A k \in 1..(Len(q) - 1) : Tail(q)[k] = q[k + 1]
  OBVIOUS
<1> QED  BY <1>1

-------------------------------------------------------------------------------
(* The invariant. *)

LEMMA InitInv == Init => UnreplicatedInv
<1> SUFFICES ASSUME Init  PROVE UnreplicatedInv
  OBVIOUS
<1> USE DEF Init, QueuedRequests, QueuedReplies
<1>1. TypeOK
  <2>1. request_number \in [Client -> 0..MaxRequest]
    BY UnreplicatedAssumption
  <2>2. client_table \in [Client -> Reply \cup {NoReply(c) : c \in Client}]
    OBVIOUS
  <2> QED  BY <2>1, <2>2 DEF TypeOK
<1>2. IssuedInv
  BY DEF IssuedInv, Answered, NoReply
<1>3. TableInv
  BY DEF TableInv, NoReply, Abstract!InOrder
<1>4. ReplyInv
  BY DEF ReplyInv, Answered, NoReply
<1> QED  BY <1>1, <1>2, <1>3, <1>4 DEF UnreplicatedInv

\* Steps that leave the main thread alone and answer nobody: what is on its way
\* to main was issued, and what is on its way to a client was on its way before.
LEMMA QuietStep ==
  ASSUME UnreplicatedInv, TypeOK', UNCHANGED <<mainVars, clientVars>>,
         \A m \in requests' \cup QueuedRequests' :
           m.request_number <= request_number[m.client],
         (replies \cup QueuedReplies)' \subseteq replies \cup QueuedReplies
  PROVE  UnreplicatedInv'
<1> USE DEF mainVars, clientVars
<1>1. IssuedInv'
  BY DEF UnreplicatedInv, IssuedInv, Answered
<1>2. TableInv'
  BY DEF UnreplicatedInv, TableInv, IsFromLog
<1>3. ReplyInv'
  BY DEF UnreplicatedInv, ReplyInv, IsFromLog, Answered
<1> QED  BY <1>1, <1>2, <1>3 DEF UnreplicatedInv

LEMMA LoseStep ==
  ASSUME UnreplicatedInv, Lose
  PROVE  UnreplicatedInv'
<1>1. TypeOK'
  BY DEF UnreplicatedInv, TypeOK, Lose, clientVars, mainVars
<1>2. /\ UNCHANGED <<mainVars, clientVars, to_main, to_effect>>
      /\ requests' \subseteq requests
      /\ replies' \subseteq replies
  BY DEF Lose
<1> QED
  BY <1>1, <1>2, QuietStep
     DEF UnreplicatedInv, IssuedInv, QueuedRequests, QueuedReplies, clientVars

LEMMA ListenStep ==
  ASSUME UnreplicatedInv, NEW m \in Request, ListenPoll(m)
  PROVE  UnreplicatedInv'
<1> USE DEF UnreplicatedInv, TypeOK
<1>1. /\ to_main' \in Seq(Request)
      /\ QueuedRequests' = QueuedRequests \cup {m}
  <2>1. to_main \in Seq(Request) /\ to_main' = Append(to_main, m)
    BY DEF ListenPoll
  <2>2. {Append(to_main, m)[k] : k \in 1..Len(Append(to_main, m))}
          = {to_main[k] : k \in 1..Len(to_main)} \cup {m}
    <3> HIDE DEF UnreplicatedInv, TypeOK
    <3>1. to_main \in Seq(Request)
      BY <2>1
    <3> QED  BY <3>1, SentIsQueued
  <2>3. QueuedRequests' = QueuedRequests \cup {m}
    BY <2>1, <2>2 DEF QueuedRequests
  <2> QED  BY <2>1, <2>3, SentIsQueued
<1>2. /\ UNCHANGED <<mainVars, clientVars, replies, to_effect>>
      /\ requests' \subseteq requests
      /\ m \in requests
  BY DEF ListenPoll, Consume
<1>3. TypeOK'
  BY <1>1, <1>2 DEF clientVars, mainVars
<1>4. \A r \in requests' \cup QueuedRequests' :
        r.request_number <= request_number[r.client]
  BY <1>1, <1>2 DEF IssuedInv
<1>5. QueuedReplies' = QueuedReplies
  BY <1>2 DEF QueuedReplies
<1> QED  BY <1>2, <1>3, <1>4, <1>5, QuietStep

LEMMA EffectStep ==
  ASSUME UnreplicatedInv, EffectPoll
  PROVE  UnreplicatedInv'
<1> USE DEF UnreplicatedInv, TypeOK
<1>1. /\ to_effect' \in Seq(Reply)
      /\ Head(to_effect) \in Reply
      /\ Head(to_effect) \in QueuedReplies
      /\ QueuedReplies' \subseteq QueuedReplies
  <2>1. to_effect \in Seq(Reply) /\ to_effect # <<>> /\ to_effect' = Tail(to_effect)
    BY DEF EffectPoll
  <2>2. /\ Tail(to_effect) \in Seq(Reply)
        /\ Head(to_effect) \in Reply
        /\ Head(to_effect) \in QueuedReplies
        /\ {Tail(to_effect)[k] : k \in 1..Len(Tail(to_effect))} \subseteq QueuedReplies
    BY ONLY <2>1, ReceivedWasQueued DEF QueuedReplies
  <2>3. QueuedReplies' = {Tail(to_effect)[k] : k \in 1..Len(Tail(to_effect))}
    BY ONLY <2>1 DEF QueuedReplies
  <2> QED  BY ONLY <2>1, <2>2, <2>3
<1>2. /\ UNCHANGED <<mainVars, clientVars, requests, to_main>>
      /\ replies' = replies \cup {Head(to_effect)}
  BY DEF EffectPoll
<1>3. TypeOK'
  BY <1>1, <1>2 DEF clientVars, mainVars
<1>4. \A r \in requests' \cup QueuedRequests' :
        r.request_number <= request_number[r.client]
  BY <1>2 DEF IssuedInv, QueuedRequests
<1> QED  BY <1>1, <1>2, <1>3, <1>4, QuietStep

LEMMA InvokeStep ==
  ASSUME UnreplicatedInv, NEW c \in Client, Invoke(c)
  PROVE  UnreplicatedInv'
<1> USE DEF Invoke, mainVars
<1>1. TypeOK'
  BY UnreplicatedAssumption DEF UnreplicatedInv, TypeOK, Request
<1>2. \A d \in Client : Answered(d)' = Answered(d)
  BY DEF UnreplicatedInv, TypeOK, Answered
<1>3. IssuedInv'
  <2>1. \A d \in Client : request_number[d] <= request_number'[d]
    BY DEF UnreplicatedInv, TypeOK
  <2>2. /\ requests' = requests \cup
             {[client |-> c, request_number |-> request_number[c] + 1]}
        /\ QueuedRequests' = QueuedRequests
        /\ QueuedRequests \subseteq Request
        /\ requests \subseteq Request
        /\ request_number'[c] = request_number[c] + 1
    BY DEF UnreplicatedInv, TypeOK, QueuedRequests
  <2>3. \A d \in Client : client_table[d].request_number \in Nat
    BY DEF UnreplicatedInv, TypeOK, Reply, NoReply
  <2>4. \A m \in requests' \cup QueuedRequests' :
          m.request_number <= request_number'[m.client]
    BY <2>1, <2>2 DEF UnreplicatedInv, TypeOK, IssuedInv, Request
  <2> QED
    BY <1>2, <2>1, <2>3, <2>4 DEF UnreplicatedInv, TypeOK, IssuedInv
<1>4. TableInv'
  BY DEF UnreplicatedInv, TableInv, IsFromLog
<1>5. ReplyInv'
  BY <1>2 DEF UnreplicatedInv, ReplyInv, IsFromLog, QueuedReplies
<1> QED  BY <1>1, <1>3, <1>4, <1>5 DEF UnreplicatedInv

LEMMA ReceiveStep ==
  ASSUME UnreplicatedInv, NEW c \in Client, ReceiveReply(c),
         requests' \in {requests, requests \cup {Outstanding(c)}},
         UNCHANGED <<request_number, to_main, to_effect, mainVars>>
  PROVE  /\ UnreplicatedInv'
         /\ Abstract!AnswerRequest(c)
<1> USE DEF mainVars
<1>1. PICK m \in replies :
        /\ IsAwaited(c, m)
        /\ replies' \in Consume(replies, m)
        /\ pending' = [pending EXCEPT ![c] = FALSE]
        /\ result' = [result EXCEPT ![c] = m.result]
  BY DEF ReceiveReply
<1>2. /\ m \in Reply
      /\ m.client = c
      /\ pending[c]
      /\ m.request_number = request_number[c]
      /\ IsFromLog(m)
      /\ replies' \subseteq replies
  BY <1>1 DEF UnreplicatedInv, TypeOK, IsAwaited, ReplyInv, Consume
<1>3. Outstanding(c) \in Request
  BY <1>2 DEF Outstanding, Request, Reply
<1>4. TypeOK'
  BY <1>1, <1>2, <1>3 DEF UnreplicatedInv, TypeOK, Reply
<1>5. \A d \in Client : Answered(d)' = IF d = c THEN request_number[c] ELSE Answered(d)
  BY <1>1 DEF UnreplicatedInv, TypeOK, Answered
<1>6. IssuedInv'
  <2>1. \A m2 \in requests' \cup QueuedRequests' :
          m2.request_number <= request_number[m2.client]
    BY DEF UnreplicatedInv, TypeOK, IssuedInv, QueuedRequests, Outstanding
  <2>2. request_number[c] <= client_table[c].request_number
    BY <1>2 DEF UnreplicatedInv, TableInv, IsFromLog
  <2>3. /\ request_number[c] \in Nat
        /\ \A d \in Client : /\ 0 <= Answered(d)
                            /\ Answered(d) <= client_table[d].request_number
                            /\ client_table[d].request_number <= request_number[d]
    BY DEF UnreplicatedInv, TypeOK, IssuedInv
  <2> QED  BY <1>5, <2>1, <2>2, <2>3 DEF IssuedInv
<1>7. TableInv'
  BY DEF UnreplicatedInv, TableInv, IsFromLog
<1>8. ReplyInv'
  <2>1. \A r \in (replies \cup QueuedReplies)' : IsFromLog(r)'
    <3>1. QueuedReplies' = QueuedReplies
      BY DEF QueuedReplies
    <3>2. \A r \in replies \cup QueuedReplies : IsFromLog(r)
      BY DEF UnreplicatedInv, ReplyInv
    <3>3. \A r : IsFromLog(r) => IsFromLog(r)'
      BY DEF IsFromLog
    <3> QED  BY <1>2, <3>1, <3>2, <3>3
  <2>2. IsFromLog([client |-> c, request_number |-> request_number[c], result |-> m.result])'
    BY <1>2 DEF IsFromLog
  <2>3. result'[c] = m.result /\ \A d \in Client \ {c} : result'[d] = result[d]
    BY <1>1 DEF UnreplicatedInv, TypeOK
  <2> QED  BY <1>5, <2>1, <2>2, <2>3 DEF UnreplicatedInv, ReplyInv, IsFromLog
<1>9. Abstract!AnswerRequest(c)
  <2>1. Answered(c) < request_number[c]
    BY <1>2 DEF UnreplicatedInv, TypeOK, Answered
  <2>2. [d \in Client |-> Answered(d)]' = [[d \in Client |-> Answered(d)] EXCEPT ![c] = request_number[c]]
    BY <1>5
  <2> QED  BY <1>2, <2>1, <2>2 DEF Abstract!AnswerRequest, IsFromLog
<1> QED  BY <1>4, <1>6, <1>7, <1>8, <1>9 DEF UnreplicatedInv

\* What main does with the message at the head of its channel, apart from the
\* call of the application: nothing but taking it, or a reply from the table.
LEMMA AnsweredStep ==
  ASSUME UnreplicatedInv, MainPoll, UNCHANGED mainVars
  PROVE  UnreplicatedInv'
<1> USE DEF UnreplicatedInv, TypeOK
<1> DEFINE m == Head(to_main)
<1>1. /\ to_main' \in Seq(Request)
      /\ m \in Request
      /\ QueuedRequests' \subseteq QueuedRequests
  <2>1. to_main \in Seq(Request) /\ to_main # <<>> /\ to_main' = Tail(to_main)
    BY DEF MainPoll
  <2> QED  BY <2>1, ReceivedWasQueued DEF QueuedRequests
<1> HIDE DEF m
<1>2. UNCHANGED <<clientVars, requests, replies>>
  BY DEF MainPoll
<1>3. /\ to_effect' \in Seq(Reply)
      /\ \A r \in QueuedReplies' : IsFromLog(r)
  <2>1. CASE UNCHANGED to_effect
    BY <2>1 DEF ReplyInv, QueuedReplies
  <2>2. CASE /\ IsRepeated(m)
             /\ to_effect' = Append(to_effect, client_table[m.client])
    <3>1. client_table[m.client] \in Reply /\ IsFromLog(client_table[m.client])
      BY <1>1, <2>2 DEF IsRepeated, Request, Reply, NoReply, TableInv
    <3>2. {to_effect'[k] : k \in 1..Len(to_effect')}
            = {to_effect[k] : k \in 1..Len(to_effect)} \cup {client_table[m.client]}
      BY <2>2, <3>1, SentIsQueued
    <3>3. QueuedReplies' = QueuedReplies \cup {client_table[m.client]}
      BY <3>2 DEF QueuedReplies
    <3>4. \A r \in QueuedReplies : IsFromLog(r)
      BY DEF ReplyInv
    <3> QED  BY <2>2, <3>1, <3>3, <3>4, SentIsQueued
  <2>3. CASE ~IsOld(m) /\ ~IsRepeated(m) /\ log' = Append(log, m)
    <3>1. Len(log') = Len(log) + 1 /\ Len(log) \in Nat
      BY <1>1, <2>3
    <3> QED  BY <3>1 DEF mainVars
  <2> QED  BY <2>1, <2>2, <2>3 DEF MainPoll, m
<1>4. TypeOK'
  BY <1>1, <1>2, <1>3 DEF clientVars, mainVars
<1>5. IssuedInv'
  BY <1>1, <1>2 DEF IssuedInv, Answered, clientVars, mainVars
<1>6. TableInv'
  BY DEF TableInv, IsFromLog, mainVars
<1>7. ReplyInv'
  <2>1. \A r : IsFromLog(r) => IsFromLog(r)'
    BY DEF IsFromLog, mainVars
  <2>2. \A r \in QueuedReplies' : IsFromLog(r)'
    BY <1>3, <2>1
  <2>3. \A r \in replies' : IsFromLog(r)'
    BY <1>2, <2>1 DEF ReplyInv
  <2> QED  BY <1>2, <2>1, <2>2, <2>3 DEF ReplyInv, Answered, clientVars
<1> QED  BY <1>4, <1>5, <1>6, <1>7

\* A request that main executes is the successor of the last one it executed for
\* the client: the client issues none before the one before is answered.
LEMMA NextOfClient ==
  ASSUME UnreplicatedInv, NEW m \in Request, m \in QueuedRequests,
         ~IsOld(m), ~IsRepeated(m)
  PROVE  /\ m.request_number = client_table[m.client].request_number + 1
         /\ m.request_number = request_number[m.client]
<1>1. /\ m.client \in Client
      /\ m.request_number \in Nat
      /\ client_table[m.client].request_number \in Nat
      /\ request_number[m.client] \in Nat
  BY DEF UnreplicatedInv, TypeOK, Request, Reply, NoReply
<1>2. client_table[m.client].request_number < m.request_number
  BY <1>1 DEF IsOld, IsRepeated
<1>3. m.request_number <= request_number[m.client]
  BY DEF UnreplicatedInv, IssuedInv
<1>4. request_number[m.client] - 1 <= client_table[m.client].request_number
  BY <1>1 DEF UnreplicatedInv, IssuedInv, Answered
<1> QED  BY <1>1, <1>2, <1>3, <1>4

LEMMA OrderGrows ==
  ASSUME UnreplicatedInv, NEW m \in Request,
         m.request_number = client_table[m.client].request_number + 1
  PROVE  Abstract!InOrder(Append(log, m))
<1> DEFINE h == Append(log, m)
<1>1. /\ Len(log) \in Nat
      /\ Len(h) = Len(log) + 1
      /\ h[Len(log) + 1] = m
      /\ \A k \in 1..Len(log) : h[k] = log[k] /\ log[k] \in Request
  BY DEF UnreplicatedInv, TypeOK
<1>2. /\ m.client \in Client
      /\ client_table[m.client].request_number \in Nat
      /\ client_table[m.client].client = m.client
  BY DEF UnreplicatedInv, TypeOK, TableInv, Request, Reply, NoReply
<1>3. \A k \in 1..Len(log) : log[k] # m
  BY <1>1, <1>2 DEF UnreplicatedInv, TableInv, Request
<1>4. m.request_number > 1 =>
        \E q \in 1..Len(log) :
          log[q] = [client |-> m.client, request_number |-> m.request_number - 1]
  BY <1>2 DEF UnreplicatedInv, TableInv, IsFromLog
<1>5. Abstract!InOrder(log)
  BY DEF UnreplicatedInv, TableInv
<1> HIDE DEF h
<1>6. \A p, q \in 1..Len(h) : h[p] = h[q] => p = q
  BY <1>1, <1>3, <1>5 DEF Abstract!InOrder
<1>7. ASSUME NEW p \in 1..Len(h), h[p].request_number > 1
      PROVE  \E q \in 1..(p - 1) :
        h[q] = [client |-> h[p].client, request_number |-> h[p].request_number - 1]
  <2>1. CASE p = Len(log) + 1
    BY <1>1, <1>4, <1>7, <2>1
  <2>2. CASE p \in 1..Len(log)
    <3>1. h[p] = log[p]
      BY <1>1, <2>2
    <3>2. PICK q \in 1..(p - 1) :
            log[q] = [client |-> log[p].client, request_number |-> log[p].request_number - 1]
      BY <1>5, <1>7, <2>2, <3>1 DEF Abstract!InOrder
    <3>3. h[q] = log[q]
      BY <1>1, <2>2
    <3> QED  BY <3>1, <3>2, <3>3
  <2> QED  BY <1>1, <2>1, <2>2
<1> QED  BY <1>6, <1>7 DEF h, Abstract!InOrder

LEMMA ExecuteStep ==
  ASSUME UnreplicatedInv, NEW m, m = Head(to_main), MainPoll,
         ~IsOld(m), ~IsRepeated(m)
  PROVE  /\ UnreplicatedInv'
         /\ Abstract!ExecuteRequests
<1>1. /\ to_main' \in Seq(Request)
      /\ m \in Request
      /\ m \in QueuedRequests
      /\ QueuedRequests' \subseteq QueuedRequests
  <2>1. to_main \in Seq(Request) /\ to_main # <<>> /\ to_main' = Tail(to_main)
    BY DEF MainPoll, UnreplicatedInv, TypeOK
  <2> QED  BY <2>1, ReceivedWasQueued DEF QueuedRequests
<1> PICK new : new = NewReply(m)
  OBVIOUS
<1>2. /\ log' = Append(log, m)
      /\ op_number' = op_number + 1
      /\ client_table' = [client_table EXCEPT ![m.client] = new]
      /\ to_effect' = Append(to_effect, new)
      /\ UNCHANGED <<clientVars, requests, replies>>
  BY DEF MainPoll
<1>3. /\ m.request_number = client_table[m.client].request_number + 1
      /\ m.request_number = request_number[m.client]
  BY <1>1, NextOfClient
<1>4. /\ Len(log) \in Nat
      /\ log' \in Seq(Request)
      /\ Len(log') = Len(log) + 1
      /\ log'[Len(log) + 1] = m
      /\ \A k \in 1..Len(log) : log'[k] = log[k]
      /\ op_number = Len(log)
  BY <1>1, <1>2 DEF UnreplicatedInv, TypeOK, TableInv
<1>5. /\ new \in Reply
      /\ new.client = m.client
      /\ new.request_number = m.request_number
      /\ new.result = Len(log) + 1
  BY <1>1, <1>4 DEF NewReply, Request, Reply
<1>6. /\ to_effect' \in Seq(Reply)
      /\ QueuedReplies' = QueuedReplies \cup {new}
  <2>1. /\ Append(to_effect, new) \in Seq(Reply)
        /\ {to_effect'[k] : k \in 1..Len(to_effect')}
             = {to_effect[k] : k \in 1..Len(to_effect)} \cup {new}
    <3>1. to_effect \in Seq(Reply)
      BY DEF UnreplicatedInv, TypeOK
    <3> QED  BY <1>2, <1>5, <3>1, SentIsQueued
  <2>2. QueuedReplies' = QueuedReplies \cup {new}
    BY <2>1 DEF QueuedReplies
  <2> QED  BY <1>2, <2>1, <2>2
<1>7. Abstract!InOrder(log')
  BY <1>1, <1>2, <1>3, OrderGrows
<1>8. IsFromLog(new)'
  <2>1. m = [client |-> m.client, request_number |-> m.request_number]
    BY <1>1 DEF Request
  <2> QED  BY <1>4, <1>5, <2>1 DEF IsFromLog
<1>9. \A r : IsFromLog(r) => IsFromLog(r)'
  BY <1>4 DEF IsFromLog
<1>10. TypeOK'
  <2>1. client_table' \in [Client -> Reply \cup {NoReply(c) : c \in Client}]
    <3>1. client_table \in [Client -> Reply \cup {NoReply(c) : c \in Client}]
      BY DEF UnreplicatedInv, TypeOK
    <3>2. client_table' = [client_table EXCEPT ![m.client] = new]
      BY <1>2
    <3> QED  BY ONLY <1>5, <3>1, <3>2
  <2>2. op_number' \in Nat
    BY <1>2 DEF UnreplicatedInv, TypeOK
  <2> QED  BY <1>1, <1>2, <1>4, <1>6, <2>1, <2>2 DEF UnreplicatedInv, TypeOK, clientVars
<1>11. \A c \in Client :
         /\ client_table[c].request_number \in Nat
         /\ client_table'[c] = IF c = m.client THEN new ELSE client_table[c]
         /\ client_table[c].request_number <= client_table'[c].request_number
  <2>1. \A c \in Client :
          /\ client_table[c].request_number \in Nat
          /\ client_table'[c] = IF c = m.client THEN new ELSE client_table[c]
    BY <1>2 DEF UnreplicatedInv, TypeOK, Reply, NoReply
  <2> QED  BY <1>1, <1>3, <1>5, <2>1
<1>12. IssuedInv'
  <2>1. \A r \in requests' \cup QueuedRequests' :
          r.request_number <= request_number'[r.client]
    BY <1>1, <1>2 DEF UnreplicatedInv, IssuedInv, clientVars
  <2>2. ASSUME NEW c \in Client
        PROVE  /\ 0 <= Answered(c)'
               /\ Answered(c)' <= client_table'[c].request_number
               /\ client_table'[c].request_number <= request_number'[c]
    <3>1. /\ 0 <= Answered(c)
          /\ Answered(c) <= client_table[c].request_number
          /\ client_table[c].request_number <= request_number[c]
      BY DEF UnreplicatedInv, IssuedInv
    <3>2. /\ Answered(c)' = Answered(c)
          /\ Answered(c) \in Int
          /\ request_number'[c] = request_number[c]
      BY <1>2 DEF Answered, clientVars, UnreplicatedInv, TypeOK
    <3>3. CASE c = m.client
      <4>1. client_table'[c].request_number = request_number[c]
        BY <1>3, <1>5, <1>11, <3>3
      <4>2. request_number[c] \in Nat
        BY DEF UnreplicatedInv, TypeOK
      <4> QED  BY <1>11, <3>1, <3>2, <4>1, <4>2
    <3>4. CASE c # m.client
      BY <1>11, <3>1, <3>2, <3>4
    <3> QED  BY <3>3, <3>4
  <2> QED  BY <2>1, <2>2 DEF IssuedInv
<1>13. TableInv'
  <2>1. ASSUME NEW c \in Client
        PROVE  /\ client_table[c].client = c
               /\ client_table[c].request_number > 0 => IsFromLog(client_table[c])
    BY DEF UnreplicatedInv, TableInv
  <2>6. ASSUME NEW c \in Client
        PROVE  /\ (client_table[c].client = c)'
               /\ (client_table[c].request_number > 0 => IsFromLog(client_table[c]))'
    <3>1. CASE c = m.client
      <4>1. client_table'[c] = new
        BY <1>11, <3>1
      <4>2. new.result \in 1..Len(log') /\ log'[new.result] = [client |-> new.client, request_number |-> new.request_number]
        BY <1>8 DEF IsFromLog
      <4> QED  BY <1>5, <3>1, <4>1, <4>2 DEF IsFromLog
    <3>2. CASE c # m.client
      <4>1. PICK old : old = client_table[c]
        OBVIOUS
      <4>2. client_table'[c] = old
        BY <1>11, <3>2, <4>1
      <4>3. /\ old.client = c
            /\ old.request_number > 0 => IsFromLog(old)'
        BY <1>9, <2>1, <4>1
      <4>4. old.request_number > 0 =>
              /\ old.result \in 1..Len(log')
              /\ log'[old.result] = [client |-> old.client, request_number |-> old.request_number]
        BY <4>3 DEF IsFromLog
      <4> QED  BY <4>2, <4>3, <4>4 DEF IsFromLog
    <3> QED  BY <3>1, <3>2
  <2>2. \A p \in 1..Len(log) : log[p] \in Request
    BY DEF UnreplicatedInv, TypeOK
  <2>3. \A p \in 1..Len(log') :
          log'[p].request_number <= client_table'[log'[p].client].request_number
    <3>1. \A p \in 1..Len(log) :
            /\ log[p].client \in Client
            /\ log[p].request_number \in Nat
            /\ log[p].request_number <= client_table[log[p].client].request_number
      BY <2>2 DEF UnreplicatedInv, TableInv, Request
    <3>2. m.client \in Client /\ m.request_number \in Nat
      BY <1>1 DEF Request
    <3>3. client_table'[m.client].request_number = m.request_number
      BY <1>5, <1>11, <3>2
    <3>4. \A c \in Client : client_table'[c].request_number \in Nat
      BY <1>5, <1>11, <3>2
    <3>5. ASSUME NEW p \in 1..Len(log)
          PROVE  log[p].request_number <= client_table'[log[p].client].request_number
      BY <1>11, <3>1, <3>4
    <3> QED  BY <1>4, <3>2, <3>3, <3>5
  <2>4. op_number' = Len(log')
    BY <1>2, <1>4
  <2>5. Abstract!InOrder(log)'
    BY <1>7
  <2> QED  BY <2>3, <2>4, <2>5, <2>6 DEF TableInv
<1>14. ReplyInv'
  BY <1>2, <1>6, <1>8, <1>9 DEF UnreplicatedInv, ReplyInv, Answered, clientVars
<1>15. Abstract!ExecuteRequests
  BY <1>1, <1>2, <1>3, <1>4, <1>7
     DEF Abstract!ExecuteRequests, Abstract!ServiceRequest, Request, Answered, clientVars
<1> QED  BY <1>10, <1>12, <1>13, <1>14, <1>15 DEF UnreplicatedInv

-------------------------------------------------------------------------------
(* The theorems. *)

\* A poll in which nothing is received: it resends, or does nothing.
LEMMA IdleStep ==
  ASSUME UnreplicatedInv, NEW c \in Client,
         requests' \in {requests, requests \cup {Outstanding(c)}},
         pending[c] \/ requests' = requests,
         UNCHANGED <<pending, result, replies, request_number, to_main, to_effect, mainVars>>
  PROVE  UnreplicatedInv'
<1> USE DEF UnreplicatedInv
<1>1. /\ Outstanding(c).client = c
      /\ Outstanding(c).request_number = request_number[c]
      /\ request_number[c] \in 0..MaxRequest
      /\ pending[c] => request_number[c] > 0
  <2>1. request_number[c] \in 0..MaxRequest
    BY DEF TypeOK
  <2>2. pending[c] => request_number[c] > 0
    BY <2>1 DEF TypeOK, IssuedInv, Answered, Reply, NoReply
  <2> QED  BY <2>1, <2>2 DEF Outstanding
<1>2. pending[c] => Outstanding(c) \in Request
  BY <1>1, UnreplicatedAssumption DEF Outstanding, Request
<1>3. TypeOK'
  BY <1>2 DEF TypeOK, mainVars
<1>4. \A m \in requests' \cup QueuedRequests' :
        m.request_number <= request_number[m.client]
  BY <1>1 DEF IssuedInv, QueuedRequests
<1> QED  BY <1>3, <1>4, QuietStep DEF QueuedReplies, clientVars

\* Every step either is invisible to the abstract specification or is a step
\* of it.
LEMMA UnreplicatedStep ==
  ASSUME UnreplicatedInv, [Next]_vars
  PROVE  /\ UnreplicatedInv'
         /\ [Abstract!ServiceNext]_<<request_number, [c \in Client |-> Answered(c)], log>>
<1> DEFINE seen == <<request_number, [c \in Client |-> Answered(c)], log>>
<1>1. UNCHANGED <<request_number, pending, log>> => UNCHANGED seen
  BY DEF Answered
<1> HIDE DEF seen
<1>2. ASSUME NEW c \in Client, Invoke(c)
      PROVE  UnreplicatedInv' /\ Abstract!ServiceNext
  <2>1. Abstract!InvokeRequest(c)
    BY <1>2 DEF UnreplicatedInv, TypeOK, Invoke, Answered, mainVars, Abstract!InvokeRequest
  <2> QED  BY <1>2, <2>1, InvokeStep DEF Abstract!ServiceNext
<1>3. ASSUME NEW c \in Client, PollExpired(c) \/ PollInTime(c)
      PROVE  UnreplicatedInv' /\ (Abstract!ServiceNext \/ UNCHANGED seen)
  <2>1. CASE ReceiveReply(c)
    <3>1. UnreplicatedInv' /\ Abstract!AnswerRequest(c)
      BY <1>3, <2>1, ReceiveStep DEF PollExpired, PollInTime
    <3> QED  BY <3>1 DEF Abstract!ServiceNext
  <2>2. CASE UNCHANGED <<pending, result, replies>>
    BY <1>1, <1>3, <2>2, IdleStep DEF PollExpired, PollInTime, mainVars
  <2> QED  BY <1>3, <2>1, <2>2 DEF PollExpired, PollInTime
<1>4. ASSUME NEW m \in Request, ListenPoll(m)
      PROVE  UnreplicatedInv' /\ UNCHANGED seen
  BY <1>1, <1>4, ListenStep DEF ListenPoll, clientVars, mainVars
<1>5. ASSUME MainPoll
      PROVE  UnreplicatedInv' /\ (Abstract!ServiceNext \/ UNCHANGED seen)
  <2>1. PICK m : m = Head(to_main)
    OBVIOUS
  <2>2. CASE ~IsOld(m) /\ ~IsRepeated(m)
    BY <1>5, <2>1, <2>2, ExecuteStep DEF Abstract!ServiceNext
  <2>3. CASE IsOld(m) \/ IsRepeated(m)
    <3>1. UNCHANGED <<mainVars, clientVars>>
      BY <1>5, <2>1, <2>3 DEF MainPoll
    <3> QED  BY <1>1, <1>5, <3>1, AnsweredStep DEF mainVars, clientVars
  <2> QED  BY <2>2, <2>3
<1>6. CASE EffectPoll
  BY <1>1, <1>6, EffectStep DEF EffectPoll, clientVars, mainVars, seen
<1>7. CASE Lose
  BY <1>1, <1>7, LoseStep DEF Lose, clientVars, mainVars, seen
<1>8. CASE UNCHANGED vars
  <2>1. TypeOK' /\ UNCHANGED <<mainVars, clientVars, requests, replies, to_main, to_effect>>
    BY <1>8 DEF UnreplicatedInv, TypeOK, vars, mainVars, clientVars
  <2>2. UnreplicatedInv'
    BY <2>1, QuietStep DEF UnreplicatedInv, IssuedInv, QueuedRequests, QueuedReplies, clientVars
  <2> QED  BY <1>1, <2>1, <2>2 DEF mainVars, clientVars, seen
<1> QED
  BY <1>2, <1>3, <1>4, <1>5, <1>6, <1>7, <1>8
     DEF Next, ClientNext, ServerNext, seen

\* The invariant holds in every reachable state (all of Client::poll,
\* ListenThread::poll, handle_request and shared_poll, and a network that
\* loses, repeats and reorders).
THEOREM UnreplicatedInvariant == Spec => []UnreplicatedInv
<1>1. UnreplicatedInv /\ [Next]_vars => UnreplicatedInv'
  BY UnreplicatedStep
<1> QED  BY InitInv, <1>1, PTL DEF Spec

\* A reply carries the result of the one call that executed its request
\* (handle_request and the client table).
THEOREM ReplyIsFromTheLog == Spec => []ReplyIsFromLog
<1>1. UnreplicatedInv => ReplyIsFromLog
  <2> SUFFICES ASSUME UnreplicatedInv,
                      NEW r \in replies \cup QueuedReplies, NEW p \in 1..Len(log)
               PROVE  log[p] = [client |-> r.client, request_number |-> r.request_number]
                        <=> p = r.result
    BY DEF ReplyIsFromLog
  <2>1. IsFromLog(r)
    BY DEF UnreplicatedInv, ReplyInv
  <2>2. \A p1, p2 \in 1..Len(log) : log[p1] = log[p2] => p1 = p2
    BY DEF UnreplicatedInv, TableInv, Abstract!InOrder
  <2> QED  BY <2>1, <2>2 DEF IsFromLog
<1> QED  BY UnreplicatedInvariant, <1>1, PTL

\* A client takes the result of its own outstanding request only (the check of
\* request_number in Client::poll).
THEOREM ResultsAreOwn == Spec => []ResultIsOwn
<1>1. UnreplicatedInv => ResultIsOwn
  BY DEF UnreplicatedInv, ReplyInv, IsFromLog, ResultIsOwn
<1> QED  BY UnreplicatedInvariant, <1>1, PTL

\* The server and its clients implement the abstract service: each request is
\* executed once, in the client's order, before it is answered.
THEOREM UnreplicatedImplementsService == Spec => ImplementsService
<1>1. Init => Abstract!ServiceInit
  BY DEF Init, Answered, Abstract!ServiceInit
<1>2. UnreplicatedInv /\ [Next]_vars => [Abstract!ServiceNext]_Abstract!serviceVars
  BY UnreplicatedStep DEF Abstract!serviceVars
<1> QED
  BY UnreplicatedInvariant, <1>1, <1>2, PTL DEF Spec, ImplementsService, Abstract!ServiceSpec

-------------------------------------------------------------------------------
(* The same actors on the test network and on sockets. *)

\* Every step on either network is one of the service alone: the polls of a test
\* are some of its interleavings, and the queues carry nothing that was not sent.
LEMMA TransportStep ==
  ASSUME UnreplicatedInv, [TransportNext]_allVars
  PROVE  [Next]_vars
<1> USE DEF vars, Next, ClientNext, ServerNext
<1>1. CASE OnUdp(Next)
  BY <1>1 DEF OnUdp
<1>2. ASSUME NEW c \in Client, InvokeNext(c) \/ PollClient(c)
      PROVE  \E d \in Client : ClientNext(d)
  BY <1>2 DEF InvokeNext, PollClient
<1>3. ASSUME PollListen
      PROVE  [Next]_vars
  <2>1. requests \subseteq Request
    BY DEF UnreplicatedInv, TypeOK
  <2>2. CASE ListenPoll(Head(rx_replica))
    <3>1. Head(rx_replica) \in Request
      BY <2>1, <2>2 DEF ListenPoll
    <3> QED  BY <2>2, <3>1
  <2> QED  BY <1>3, <2>2 DEF PollListen
<1>4. CASE PollMain
  BY <1>4 DEF PollMain
<1>5. CASE PollEffect
  BY <1>5 DEF PollEffect
<1>6. CASE Elapse \/ PollNetwork \/ UNCHANGED allVars
  BY <1>6 DEF Elapse, PollNetwork, allVars
<1>7. ASSUME NEW next, ClientsDone(next) \/ NetworkDone(next)
      PROVE  UNCHANGED vars
  BY <1>7 DEF ClientsDone, NetworkDone
<1> QED
  BY <1>1, <1>2, <1>3, <1>4, <1>5, <1>6, <1>7 DEF TransportNext, SimulatedNext

\* The service on either network behaves as Unreplicated says, so that what is
\* proved of the one holds of the other (RxChannel and TxChannel of core.rs).
THEOREM TransportImplementsUnreplicated == TransportSpec => Spec
<1>1. TransportInit => Init
  BY DEF TransportInit, SimulatedInit
<1>2. UnreplicatedInv /\ [TransportNext]_allVars => UnreplicatedInv' /\ [Next]_vars
  BY TransportStep, UnreplicatedStep
<1> QED  BY <1>1, <1>2, InitInv, PTL DEF TransportSpec, Spec

-------------------------------------------------------------------------------
(* A round of a test. *)

LEMMA QueueGrows ==
  ASSUME NEW S, NEW q \in Seq(S), NEW m \in S
  PROVE  /\ Append(q, m) \in Seq(S)
         /\ Elements(Append(q, m)) = Elements(q) \cup {m}
BY SentIsQueued DEF Elements

LEMMA QueueShrinks ==
  ASSUME NEW S, NEW q \in Seq(S), q # <<>>
  PROVE  /\ Head(q) \in S
         /\ Tail(q) \in Seq(S)
         /\ Elements(q) = Elements(Tail(q)) \cup {Head(q)}
<1>1. /\ Len(q) \in Nat \ {0}
      /\ Head(q) = q[1]
      /\ Head(q) \in S
      /\ Tail(q) \in Seq(S)
      /\ Len(Tail(q)) = Len(q) - 1
      /\ \A k \in 1..(Len(q) - 1) : Tail(q)[k] = q[k + 1]
  OBVIOUS
<1>2. ASSUME NEW k \in 1..Len(q), k # 1
      PROVE  /\ k - 1 \in 1..Len(Tail(q))
             /\ Tail(q)[k - 1] = q[k]
  BY <1>1, <1>2
<1>3. Elements(q) \subseteq Elements(Tail(q)) \cup {Head(q)}
  BY <1>1, <1>2 DEF Elements
<1>4. Elements(Tail(q)) \cup {Head(q)} \subseteq Elements(q)
  BY <1>1 DEF Elements
<1> QED  BY <1>1, <1>3, <1>4

LEMMA EmptyQueue ==
  Elements(<<>>) = {}
BY DEF Elements

LEMMA QueuesAreElements ==
  /\ QueuedRequests = Elements(to_main)
  /\ QueuedReplies = Elements(to_effect)
BY DEF QueuedRequests, QueuedReplies, Elements

\* A request and a reply cannot be taken for each other.
LEMMA RepliesAreNotRequests ==
  ASSUME NEW m \in Reply
  PROVE  m \notin Request
<1>1. DOMAIN m = {"client", "request_number", "result"}
  BY DEF Reply
<1>2. ASSUME m \in Request
      PROVE  DOMAIN m = {"client", "request_number"}
  BY <1>2 DEF Request
<1> QED  BY <1>1, <1>2

LEMMA OutstandingIsRequest ==
  ASSUME UnreplicatedInv, NEW c \in Client, pending[c]
  PROVE  /\ Outstanding(c) \in Request
         /\ Outstanding(c).client = c
         /\ Outstanding(c).request_number = request_number[c]
<1>1. request_number[c] \in 0..MaxRequest /\ pending[c] \in BOOLEAN
  BY DEF UnreplicatedInv, TypeOK
<1>2. request_number[c] > 0
  BY <1>1 DEF UnreplicatedInv, TypeOK, IssuedInv, Answered, Reply, NoReply
<1> QED  BY <1>1, <1>2, UnreplicatedAssumption DEF Outstanding, Request

LEMMA RoundInit == TransportInit => RoundInv
<1> SUFFICES ASSUME TransportInit  PROVE RoundInv
  OBVIOUS
<1>1. NetworkIdle /\ phase \in {"udp", "elapse"}
  BY DEF TransportInit, SimulatedInit, Udp
<1>2. SimulatedTypeOK
  <2>1. \A S : <<>> \in Seq(S)
    OBVIOUS
  <2>2. rx_client \in [Client -> Seq(Reply)]
    BY <1>1, <2>1 DEF NetworkIdle
  <2> QED  BY <1>1, <2>1, <2>2 DEF NetworkIdle, SimulatedTypeOK
<1>3. TurnInv /\ ~complete
  BY <1>1 DEF NetworkIdle, TurnInv
<1> QED  BY <1>2, <1>3 DEF RoundInv

LEMMA InvokeRound ==
  ASSUME UnreplicatedInv, RoundInv, NEW c \in Client, InvokeNext(c)
  PROVE  RoundInv'
<1>1. Outstanding(c)' \in Request
  BY UnreplicatedAssumption DEF InvokeNext, Invoke, UnreplicatedInv, TypeOK, Outstanding, Request
<1>2. tx' \in Seq(Request \cup Reply)
  BY <1>1, QueueGrows DEF InvokeNext, RoundInv, SimulatedTypeOK
<1>3. SimulatedTypeOK'
  BY <1>2 DEF InvokeNext, RoundInv, SimulatedTypeOK, replicaTurn
<1>4. TurnInv'
  BY DEF InvokeNext, Invoke, RoundInv, TurnInv, replicaTurn
<1> QED  BY <1>3, <1>4 DEF RoundInv, InvokeNext

LEMMA ElapseRound ==
  ASSUME RoundInv, Elapse
  PROVE  RoundInv'
<1>1. SimulatedTypeOK'
  <2>1. complete' \in BOOLEAN /\ expired' \subseteq Client
    BY DEF Elapse, RoundInv, SimulatedTypeOK
  <2> QED  BY <2>1 DEF Elapse, RoundInv, SimulatedTypeOK, replicaTurn, queueVars
<1>2. TurnInv'
  BY DEF Elapse, RoundInv, TurnInv, replicaTurn, queueVars, vars
<1>3. complete' => \A c \in Client : pending[c] => c \in expired' \/ Outstanding(c) \in Elements(tx)
  BY DEF Elapse
<1>4. ASSUME NEW c \in Client, complete', pending'[c]
      PROVE  OnItsWay(c)'
  BY <1>3, <1>4 DEF Elapse, OnItsWay, queueVars, vars, clientVars, Outstanding
<1> QED  BY <1>1, <1>2, <1>4 DEF RoundInv

\* The step of Unreplicated that a poll of a client is leaves the others alone.
LEMMA ClientPolls ==
  ASSUME NEW c \in Client, PollExpired(c) \/ PollInTime(c), pending \in [Client -> BOOLEAN]
  PROVE  /\ UNCHANGED <<request_number, to_main, to_effect>>
         /\ \A d \in Client : pending'[d] => pending[d]
<1> QED  BY DEF PollExpired, PollInTime, ReceiveReply

LEMMA PollClientRound ==
  ASSUME UnreplicatedInv, RoundInv, NEW c \in Client, PollClient(c)
  PROVE  RoundInv'
<1>1. /\ tx \in Seq(Request \cup Reply)
      /\ rx_client \in [Client -> Seq(Reply)]
      /\ pending \in [Client -> BOOLEAN]
  BY DEF UnreplicatedInv, TypeOK, RoundInv, SimulatedTypeOK
<1>2. /\ UNCHANGED <<request_number, to_main, to_effect, rx_replica, phase, replicaTurn, complete>>
      /\ \A d \in Client : pending'[d] => pending[d]
      /\ phase \in {"ask", "take"}
      /\ expired' = expired \ {c}
  BY <1>1, ClientPolls DEF PollClient
<1>3. /\ tx' \in Seq(Request \cup Reply)
      /\ Elements(tx) \subseteq Elements(tx')
      /\ c \in expired => Outstanding(c) \in Elements(tx')
  <2>1. CASE c \in expired
    <3>1. tx' = Append(tx, Outstanding(c)) /\ pending[c]
      BY <2>1 DEF PollClient, PollExpired
    <3>2. Outstanding(c) \in Request
      BY <3>1, OutstandingIsRequest
    <3>3. Append(tx, Outstanding(c)) \in Seq(Request \cup Reply)
      BY <1>1, <3>2, QueueGrows
    <3>4. Elements(Append(tx, Outstanding(c))) = Elements(tx) \cup {Outstanding(c)}
      BY <1>1, <3>2, QueueGrows
    <3>5. Elements(tx') = Elements(tx) \cup {Outstanding(c)}
      BY <3>1, <3>4
    <3> QED  BY <3>1, <3>3, <3>5
  <2>2. CASE c \notin expired
    BY <1>1, <2>2 DEF PollClient
  <2> QED  BY <2>1, <2>2
<1>4. /\ rx_client' \in [Client -> Seq(Reply)]
      /\ \A d \in Client \ {c} : rx_client'[d] = rx_client[d]
  <2>1. CASE rx_client[c] # <<>>
    <3>1. Tail(rx_client[c]) \in Seq(Reply)
      BY <1>1, <2>1
    <3> QED  BY <1>1, <2>1, <3>1 DEF PollClient
  <2> QED  BY <1>1, <2>1 DEF PollClient
\* The awaited reply is taken, and any other leaves it where it was.
<1>5. ASSUME NEW m \in Elements(rx_client[c]), IsAnswer(c, m), pending'[c]
      PROVE  m \in Elements(rx_client'[c])
  <2>1. CASE rx_client[c] = <<>>
    BY <2>1 DEF PollClient
  <2>2. CASE rx_client[c] # <<>>
    <3>1. PICK head : head = Head(rx_client[c])
      OBVIOUS
    <3>2. /\ rx_client'[c] = Tail(rx_client[c])
          /\ ~IsAwaited(c, head)
      BY <1>1, <1>5, <2>2, <3>1 DEF PollClient
    <3>3. m # head
      BY <1>2, <1>5, <3>2 DEF IsAwaited, IsAnswer
    <3>4. Elements(rx_client[c]) = Elements(Tail(rx_client[c])) \cup {head}
      BY <1>1, <2>2, <3>1, QueueShrinks
    <3> QED  BY <1>5, <3>2, <3>3, <3>4
  <2> QED  BY <2>1, <2>2
<1>6. SimulatedTypeOK'
  BY <1>2, <1>3, <1>4 DEF RoundInv, SimulatedTypeOK, replicaTurn
<1>7. TurnInv'
  BY <1>2 DEF RoundInv, TurnInv, replicaTurn
<1>8. ASSUME NEW d \in Client, complete', pending'[d]
      PROVE  OnItsWay(d)'
  <2>1. OnItsWay(d)
    BY <1>2, <1>8 DEF RoundInv
  <2>2. \A m : IsAnswer(d, m)' <=> IsAnswer(d, m)
    BY <1>2 DEF IsAnswer
  <2>3. phase = "ask" => d \in expired' \/ Outstanding(d)' \in Elements(tx')
    BY <1>2, <1>3, <2>1 DEF OnItsWay, Outstanding
  <2>4. phase = "take" => \E m \in Elements(rx_client'[d]) : IsAnswer(d, m)
    BY <1>4, <1>5, <1>8, <2>1 DEF OnItsWay
  <2> QED  BY <1>2, <2>2, <2>3, <2>4 DEF OnItsWay
<1> QED  BY <1>6, <1>7, <1>8 DEF RoundInv

LEMMA NetworkRound ==
  ASSUME UnreplicatedInv, RoundInv, PollNetwork
  PROVE  RoundInv'
<1>1. PICK m : m = Head(tx)
  OBVIOUS
<1>2. /\ tx \in Seq(Request \cup Reply)
      /\ rx_replica \in Seq(Request)
      /\ rx_client \in [Client -> Seq(Reply)]
      /\ tx # <<>>
      /\ tx' = Tail(tx)
      /\ phase \in {"deliver", "return"}
      /\ UNCHANGED <<vars, phase, replicaTurn, expired>>
  BY DEF RoundInv, SimulatedTypeOK, PollNetwork
<1>3. /\ m \in Request \cup Reply
      /\ tx' \in Seq(Request \cup Reply)
      /\ Elements(tx) = Elements(tx') \cup {m}
  BY <1>1, <1>2, QueueShrinks
<1>4. CASE complete' = FALSE /\ UNCHANGED <<rx_replica, rx_client>>
  BY <1>2, <1>3, <1>4 DEF RoundInv, SimulatedTypeOK, TurnInv, replicaTurn
<1>5. CASE m \in Request /\ rx_replica' = Append(rx_replica, m) /\ UNCHANGED <<rx_client, complete>>
  <2>1. /\ rx_replica' \in Seq(Request)
        /\ Elements(rx_replica') = Elements(rx_replica) \cup {m}
    BY <1>2, <1>5, QueueGrows
  <2>2. \A d \in Client : ~IsAnswer(d, m)
    BY <1>5, RepliesAreNotRequests DEF IsAnswer
  <2>3. SimulatedTypeOK'
    BY <1>2, <1>3, <1>5, <2>1 DEF RoundInv, SimulatedTypeOK, replicaTurn
  <2>4. TurnInv'
    BY <1>2 DEF RoundInv, TurnInv, replicaTurn
  <2>5. ASSUME NEW d \in Client, complete', pending'[d]
        PROVE  OnItsWay(d)'
    <3>1. OnItsWay(d)
      BY <1>2, <1>5, <2>5 DEF RoundInv, vars, clientVars
    <3> QED
      BY <1>2, <1>3, <1>5, <2>1, <2>2, <3>1 DEF OnItsWay, IsAnswer, Outstanding, vars, clientVars
  <2> QED  BY <2>3, <2>4, <2>5 DEF RoundInv
<1>6. CASE /\ m \notin Request
           /\ rx_client' = [rx_client EXCEPT ![m.client] = Append(@, m)]
           /\ UNCHANGED <<rx_replica, complete>>
  <2>1. m \in Reply /\ m.client \in Client
    BY <1>3, <1>6 DEF Reply
  <2>2. Append(rx_client[m.client], m) \in Seq(Reply)
    BY <1>2, <2>1, QueueGrows
  <2>3. Elements(Append(rx_client[m.client], m)) = Elements(rx_client[m.client]) \cup {m}
    BY <1>2, <2>1, QueueGrows
  <2>4. /\ rx_client' \in [Client -> Seq(Reply)]
        /\ rx_client'[m.client] = Append(rx_client[m.client], m)
        /\ \A d \in Client \ {m.client} : rx_client'[d] = rx_client[d]
    BY <1>2, <1>6, <2>1, <2>2
  <2>5. \A d \in Client : Elements(rx_client[d]) \subseteq Elements(rx_client'[d])
    BY <2>3, <2>4
  <2>6. \A d \in Client : IsAnswer(d, m) => m \in Elements(rx_client'[d])
    BY <2>3, <2>4 DEF IsAnswer
  <2>7. SimulatedTypeOK'
    BY <1>2, <1>3, <1>6, <2>4 DEF RoundInv, SimulatedTypeOK, replicaTurn
  <2>8. TurnInv'
    BY <1>2, <1>6 DEF RoundInv, TurnInv, replicaTurn, vars
  <2>9. ASSUME NEW d \in Client, complete', pending'[d]
        PROVE  OnItsWay(d)'
    <3>1. OnItsWay(d)
      BY <1>2, <1>6, <2>9 DEF RoundInv, vars, clientVars
    <3>2. pending[d]
      BY <1>2, <2>9 DEF vars, clientVars
    <3>3. Outstanding(d) # m
      BY <1>6, <3>2, OutstandingIsRequest
    <3> QED
      BY <1>2, <1>3, <1>6, <2>5, <2>6, <3>1, <3>3 DEF OnItsWay, IsAnswer, Outstanding, vars, clientVars
  <2> QED  BY <2>7, <2>8, <2>9 DEF RoundInv
<1> QED  BY <1>1, <1>4, <1>5, <1>6 DEF PollNetwork

LEMMA ListenRound ==
  ASSUME UnreplicatedInv, RoundInv, PollListen
  PROVE  RoundInv'
<1>1. /\ rx_replica \in Seq(Request)
      /\ to_main \in Seq(Request)
      /\ phase = "serve"
      /\ part = "listen"
      /\ ~poll_again
      /\ part' = "main"
      /\ UNCHANGED <<phase, tx, rx_client, expired, complete>>
  BY DEF PollListen, RoundInv, SimulatedTypeOK, TurnInv, UnreplicatedInv, TypeOK
<1>2. CASE /\ rx_replica # <<>>
           /\ ListenPoll(Head(rx_replica))
           /\ rx_replica' = Tail(rx_replica)
           /\ poll_again' = TRUE
  <2>1. PICK m : m = Head(rx_replica)
    OBVIOUS
  <2>2. /\ m \in Request
        /\ rx_replica' \in Seq(Request)
        /\ Elements(rx_replica) = Elements(rx_replica') \cup {m}
    BY <1>1, <1>2, <2>1, QueueShrinks
  <2>3. /\ to_main' = Append(to_main, m)
        /\ UNCHANGED <<clientVars, to_effect>>
    BY <1>2, <2>1 DEF ListenPoll
  <2>4. Elements(Append(to_main, m)) = Elements(to_main) \cup {m}
    BY <1>1, <2>2, QueueGrows
  <2>5. Elements(to_main') = Elements(to_main) \cup {m}
    BY <2>3, <2>4
  <2>6. SimulatedTypeOK'
    BY <1>1, <1>2, <2>2 DEF RoundInv, SimulatedTypeOK
  <2>7. TurnInv'
    BY <1>1, <1>2 DEF TurnInv
  <2>8. ASSUME NEW d \in Client, complete', pending'[d]
        PROVE  OnItsWay(d)'
    <3>1. OnItsWay(d)
      BY <1>1, <2>3, <2>8 DEF RoundInv, clientVars
    <3>2. QueuedRequests = Elements(to_main) /\ QueuedRequests' = Elements(to_main')
      BY QueuesAreElements DEF QueuedRequests, Elements
    <3>3. QueuedReplies' = QueuedReplies
      BY <2>3 DEF QueuedReplies
    <3> QED
      BY <1>1, <2>2, <2>3, <2>5, <3>1, <3>2, <3>3 DEF OnItsWay, IsAnswer, Outstanding, clientVars
  <2> QED  BY <2>6, <2>7, <2>8 DEF RoundInv
<1>3. CASE rx_replica = <<>> /\ UNCHANGED <<vars, rx_replica, poll_again>>
  BY <1>1, <1>3
     DEF RoundInv, SimulatedTypeOK, TurnInv, OnItsWay, IsAnswer, Outstanding, QueuedRequests,
         QueuedReplies, vars, clientVars
<1> QED  BY <1>2, <1>3 DEF PollListen

\* Main answers the outstanding request of a client when it comes to it: it is
\* never old, as the table knows no later one.
LEMMA MainAnswers ==
  ASSUME UnreplicatedInv, MainPoll, NEW c \in Client, pending[c],
         Head(to_main) = Outstanding(c)
  PROVE  \E m \in Elements(to_effect') : IsAnswer(c, m)
<1>1. PICK r : r = Outstanding(c)
  OBVIOUS
<1>2. /\ r \in Request
      /\ r.client = c
      /\ r.request_number = request_number[c]
  BY <1>1, OutstandingIsRequest
<1>3. /\ to_effect \in Seq(Reply)
      /\ client_table[c] \in Reply \cup {NoReply(d) : d \in Client}
      /\ client_table[c].client = c
      /\ client_table[c].request_number <= request_number[c]
      /\ request_number[c] \in 0..MaxRequest
      /\ op_number \in Nat
  BY DEF UnreplicatedInv, TypeOK, TableInv, IssuedInv
<1>4. ~IsOld(r)
  BY <1>2, <1>3 DEF IsOld, Reply, NoReply
<1>5. CASE IsRepeated(r)
  <2>1. to_effect' = Append(to_effect, client_table[c])
    BY <1>1, <1>2, <1>4, <1>5 DEF MainPoll
  <2>2. client_table[c].request_number = request_number[c] /\ request_number[c] > 0
    BY <1>2, <1>5 DEF IsRepeated, Request
  <2>3. client_table[c] \in Reply
    BY <1>3, <2>2 DEF NoReply
  <2>4. PICK m : m = client_table[c]
    OBVIOUS
  <2>5. Elements(Append(to_effect, m)) = Elements(to_effect) \cup {m}
    BY <1>3, <2>3, <2>4, QueueGrows
  <2>6. m \in Elements(to_effect')
    BY <2>1, <2>4, <2>5
  <2> QED  BY <1>3, <2>2, <2>3, <2>4, <2>6 DEF IsAnswer
<1>6. CASE ~IsRepeated(r)
  <2>1. to_effect' = Append(to_effect, NewReply(r))
    BY <1>1, <1>4, <1>6 DEF MainPoll
  <2>2. /\ NewReply(r) \in Reply
        /\ NewReply(r).client = c
        /\ NewReply(r).request_number = request_number[c]
    BY <1>2, <1>3 DEF NewReply, Reply, Request
  <2>3. PICK m : m = NewReply(r)
    OBVIOUS
  <2>4. Elements(Append(to_effect, m)) = Elements(to_effect) \cup {m}
    BY <1>3, <2>2, <2>3, QueueGrows
  <2>5. m \in Elements(to_effect')
    BY <2>1, <2>3, <2>4
  <2> QED  BY <2>2, <2>3, <2>5 DEF IsAnswer
<1> QED  BY <1>5, <1>6

\* Main takes nothing back of what it has handed over.
LEMMA MainKeepsReplies ==
  ASSUME UnreplicatedInv, MainPoll
  PROVE  Elements(to_effect) \subseteq Elements(to_effect')
<1>1. to_effect \in Seq(Reply) /\ to_effect' \in Seq(Reply)
  <2>1. UnreplicatedInv'
    BY UnreplicatedStep DEF Next, ServerNext
  <2> QED  BY <2>1 DEF UnreplicatedInv, TypeOK
<1>2. \/ to_effect' = to_effect
      \/ \E m : to_effect' = Append(to_effect, m)
  BY DEF MainPoll, mainVars
<1> QED
  <2>1. ASSUME NEW m, to_effect' = Append(to_effect, m)
        PROVE  Elements(to_effect) \subseteq Elements(to_effect')
    BY <1>1, <2>1 DEF Elements
  <2> QED  BY <1>2, <2>1

LEMMA MainRound ==
  ASSUME UnreplicatedInv, RoundInv, PollMain
  PROVE  RoundInv'
<1>1. /\ to_main \in Seq(Request)
      /\ phase = "serve"
      /\ part = "main"
      /\ part' = "effect"
      /\ ~poll_again => rx_replica = <<>>
      /\ poll_again' = TRUE \/ (to_main = <<>> /\ UNCHANGED <<vars, poll_again>>)
      /\ UNCHANGED <<phase, queueVars, expired, complete>>
  BY DEF PollMain, RoundInv, TurnInv, UnreplicatedInv, TypeOK
<1>2. SimulatedTypeOK'
  BY <1>1 DEF RoundInv, SimulatedTypeOK, queueVars
<1>3. TurnInv'
  BY <1>1 DEF TurnInv, queueVars, vars
<1>4. ASSUME NEW c \in Client, complete', pending'[c]
      PROVE  OnItsWay(c)'
  <2>1. CASE UNCHANGED vars
    BY <1>1, <1>4, <2>1
       DEF RoundInv, OnItsWay, IsAnswer, Outstanding, QueuedRequests, QueuedReplies, vars,
           clientVars, queueVars
  <2>2. CASE MainPoll
    <3>1. /\ UNCHANGED clientVars
          /\ to_main # <<>>
          /\ to_main' = Tail(to_main)
      BY <2>2 DEF MainPoll
    <3>2. PICK m : m = Head(to_main)
      OBVIOUS
    <3>3. Elements(to_main) = Elements(to_main') \cup {m}
      BY <1>1, <3>1, <3>2, QueueShrinks
    <3>4. OnItsWay(c) /\ pending[c]
      BY <1>1, <1>4, <3>1 DEF RoundInv, clientVars
    <3>5. \/ Outstanding(c) \in Elements(rx_replica) \cup Elements(to_main)
          \/ \E r \in Elements(to_effect) \cup Elements(tx) : IsAnswer(c, r)
      BY <1>1, <3>4, QueuesAreElements DEF OnItsWay
    <3>6. m = Outstanding(c) => \E r \in Elements(to_effect') : IsAnswer(c, r)
      BY <2>2, <3>2, <3>4, MainAnswers
    <3>7. Elements(to_effect) \subseteq Elements(to_effect')
      BY <2>2, MainKeepsReplies
    <3>8. \A r : IsAnswer(c, r)' <=> IsAnswer(c, r)
      BY <3>1 DEF IsAnswer, clientVars
    <3>9. \/ Outstanding(c) \in Elements(rx_replica) \cup Elements(to_main')
          \/ \E r \in Elements(to_effect') \cup Elements(tx) : IsAnswer(c, r)
      BY <3>3, <3>5, <3>6, <3>7
    <3>10. QueuedRequests' = Elements(to_main') /\ QueuedReplies' = Elements(to_effect')
      BY DEF QueuedRequests, QueuedReplies, Elements
    <3> QED
      BY <1>1, <3>1, <3>8, <3>9, <3>10 DEF OnItsWay, Outstanding, clientVars, queueVars
  <2> QED  BY <1>1, <2>1, <2>2 DEF PollMain
<1> QED  BY <1>2, <1>3, <1>4 DEF RoundInv

\* The loop of the test ends only when nothing is left in the replica.
LEMMA EffectRound ==
  ASSUME UnreplicatedInv, RoundInv, PollEffect
  PROVE  RoundInv'
<1>1. /\ tx \in Seq(Request \cup Reply)
      /\ to_effect \in Seq(Reply)
      /\ phase = "serve"
      /\ part = "effect"
      /\ part' = "listen"
      /\ poll_again' = FALSE
      /\ ~poll_again => rx_replica = <<>> /\ to_main = <<>>
      /\ UNCHANGED <<rx_replica, rx_client, expired, complete>>
  BY DEF PollEffect, RoundInv, SimulatedTypeOK, TurnInv, UnreplicatedInv, TypeOK
<1>2. TurnInv'
  BY <1>1 DEF TurnInv
<1>3. CASE EffectPoll /\ tx' = Append(tx, Head(to_effect)) /\ UNCHANGED phase
  <2>1. PICK m : m = Head(to_effect)
    OBVIOUS
  <2>2. /\ UNCHANGED <<clientVars, to_main>>
        /\ to_effect # <<>>
        /\ to_effect' = Tail(to_effect)
    BY <1>3 DEF EffectPoll
  <2>3. m \in Reply /\ Elements(to_effect) = Elements(to_effect') \cup {m}
    BY <1>1, <2>1, <2>2, QueueShrinks
  <2>4. /\ Append(tx, m) \in Seq(Request \cup Reply)
        /\ Elements(Append(tx, m)) = Elements(tx) \cup {m}
    BY <1>1, <2>3, QueueGrows
  <2>5. /\ tx' \in Seq(Request \cup Reply)
        /\ Elements(tx') = Elements(tx) \cup {m}
    BY <1>3, <2>1, <2>4
  <2>6. SimulatedTypeOK'
    BY <1>1, <1>3, <2>5 DEF RoundInv, SimulatedTypeOK
  <2>7. ASSUME NEW c \in Client, complete', pending'[c]
        PROVE  OnItsWay(c)'
    <3>1. OnItsWay(c)
      BY <1>1, <2>2, <2>7 DEF RoundInv, clientVars
    <3>2. /\ QueuedReplies = Elements(to_effect)
          /\ QueuedReplies' = Elements(to_effect')
          /\ QueuedRequests' = QueuedRequests
      BY <2>2 DEF QueuedRequests, QueuedReplies, Elements
    <3> QED
      BY <1>1, <1>3, <2>2, <2>3, <2>5, <3>1, <3>2 DEF OnItsWay, IsAnswer, Outstanding, clientVars
  <2> QED  BY <1>2, <2>6, <2>7 DEF RoundInv
<1>4. CASE /\ to_effect = <<>>
           /\ phase' = IF IsIdle THEN "return" ELSE phase
           /\ UNCHANGED <<vars, tx>>
  <2>1. SimulatedTypeOK'
    BY <1>1, <1>4 DEF RoundInv, SimulatedTypeOK
  <2>2. Elements(<<>>) = {}
    BY EmptyQueue
  <2>3. ASSUME NEW c \in Client, complete', pending'[c]
        PROVE  OnItsWay(c)'
    <3>1. OnItsWay(c)
      BY <1>1, <1>4, <2>3 DEF RoundInv, vars, clientVars
    <3>2. QueuedReplies = {} /\ QueuedRequests = Elements(to_main)
      BY <1>4, <2>2, QueuesAreElements
    <3>3. ~poll_again => \E m \in Elements(tx) : IsAnswer(c, m)
      BY <1>1, <2>2, <3>1, <3>2 DEF OnItsWay
    <3>4. (\E m \in Elements(tx) : IsAnswer(c, m)) => \E m \in Elements(tx') : IsAnswer(c, m)'
      BY <1>4 DEF IsAnswer, vars, clientVars
    <3>5. CASE poll_again
      BY <1>1, <1>4, <3>1, <3>5
         DEF OnItsWay, IsIdle, IsAnswer, Outstanding, QueuedRequests, QueuedReplies, vars, clientVars
    <3>6. CASE ~poll_again
      BY <1>1, <1>4, <3>3, <3>4, <3>6 DEF OnItsWay, IsIdle
    <3> QED  BY <3>5, <3>6
  <2> QED  BY <1>2, <2>1, <2>3 DEF RoundInv
<1>5. EffectPoll => to_effect # <<>>
  BY DEF EffectPoll
<1> QED  BY <1>3, <1>4, <1>5 DEF PollEffect, IsIdle

\* From one phase of a round to the next, when what it polls has nothing to do.
LEMMA PhaseEnds ==
  ASSUME RoundInv,
         \/ phase = "ask" /\ ClientsDone("deliver")
         \/ phase = "deliver" /\ NetworkDone("serve")
         \/ phase = "return" /\ NetworkDone("take")
         \/ phase = "take" /\ ClientsDone("elapse")
  PROVE  RoundInv'
<1>1. UNCHANGED <<vars, replicaTurn, queueVars, expired, complete>>
  BY DEF ClientsDone, NetworkDone
<1>2. phase' \in {"deliver", "serve", "take", "elapse"} /\ phase # "serve"
  BY DEF ClientsDone, NetworkDone
<1>3. SimulatedTypeOK'
  BY <1>1, <1>2 DEF RoundInv, SimulatedTypeOK, replicaTurn, queueVars
<1>4. TurnInv'
  BY <1>1, <1>2 DEF RoundInv, TurnInv, replicaTurn, queueVars, vars
<1>5. ASSUME NEW c \in Client, complete', pending'[c]
      PROVE  OnItsWay(c)'
  <2>1. OnItsWay(c)
    BY <1>1, <1>5 DEF RoundInv, vars, clientVars
  <2>2. /\ Elements(<<>>) = {}
        /\ Outstanding(c)' = Outstanding(c)
        /\ \A m : IsAnswer(c, m)' <=> IsAnswer(c, m)
    BY <1>1, EmptyQueue DEF Outstanding, IsAnswer, vars, clientVars
  <2>3. CASE phase = "ask" /\ ClientsDone("deliver")
    BY <1>1, <2>1, <2>2, <2>3 DEF OnItsWay, ClientsDone, HasWork, queueVars
  <2>4. CASE phase = "deliver" /\ NetworkDone("serve")
    BY <1>1, <2>1, <2>2, <2>4 DEF OnItsWay, NetworkDone, queueVars
  <2>5. CASE phase = "return" /\ NetworkDone("take")
    BY <1>1, <2>1, <2>2, <2>5 DEF OnItsWay, NetworkDone, queueVars
  <2>6. CASE phase = "take" /\ ClientsDone("elapse")
    BY <1>1, <2>1, <2>2, <2>6 DEF OnItsWay, ClientsDone, HasWork, queueVars
  <2> QED  BY <2>3, <2>4, <2>5, <2>6
<1> QED  BY <1>3, <1>4, <1>5 DEF RoundInv

LEMMA RoundStep == UnreplicatedInv /\ RoundInv /\ [TransportNext]_allVars => RoundInv'
<1> SUFFICES ASSUME UnreplicatedInv, RoundInv, [TransportNext]_allVars
             PROVE  RoundInv'
  OBVIOUS
<1>1. CASE UNCHANGED simulatedVars /\ phase = "udp"
  <2>1. SimulatedTypeOK'
    BY <1>1 DEF RoundInv, SimulatedTypeOK, simulatedVars, replicaTurn, queueVars
  <2>2. TurnInv'
    BY <1>1 DEF RoundInv, TurnInv, simulatedVars, replicaTurn, queueVars
  <2>3. \A c \in Client : OnItsWay(c)'
    BY <1>1 DEF OnItsWay, simulatedVars
  <2> QED  BY <2>1, <2>2, <2>3 DEF RoundInv
<1>2. CASE UNCHANGED allVars
  <2>1. SimulatedTypeOK'
    BY <1>2 DEF RoundInv, SimulatedTypeOK, allVars, simulatedVars, replicaTurn, queueVars
  <2>2. TurnInv'
    BY <1>2 DEF RoundInv, TurnInv, allVars, simulatedVars, replicaTurn, queueVars, vars
  <2>3. \A c \in Client : OnItsWay(c) => OnItsWay(c)'
    BY <1>2
       DEF OnItsWay, IsAnswer, Outstanding, QueuedRequests, QueuedReplies, allVars, simulatedVars,
           replicaTurn, queueVars, vars, clientVars
  <2> QED  BY <1>2, <2>1, <2>2, <2>3 DEF RoundInv, allVars, simulatedVars, vars, clientVars
<1>3. CASE SimulatedNext
  BY <1>3, InvokeRound, PollClientRound, ElapseRound, NetworkRound, ListenRound, MainRound,
     EffectRound, PhaseEnds DEF SimulatedNext
<1> QED  BY <1>1, <1>2, <1>3 DEF TransportNext, OnUdp, Udp

\* Between the queues of the test network, the threads and the client table
\* nothing of a complete round gets lost.
THEOREM RoundInvariant == TransportSpec => []RoundInv
<1>1. Spec => []UnreplicatedInv
  BY UnreplicatedInvariant
<1>2. TransportInit => RoundInv
  BY RoundInit
<1>3. UnreplicatedInv /\ RoundInv /\ [TransportNext]_allVars => RoundInv'
  BY RoundStep
<1> QED  BY TransportImplementsUnreplicated, <1>1, <1>2, <1>3, PTL DEF TransportSpec

\* If a request is in the log, so are the client's requests before it.
LEMMA LogHasPredecessors ==
  ASSUME UnreplicatedInv, NEW c \in Client, NEW last \in Nat,
         \E p \in 1..Len(log) : log[p] = [client |-> c, request_number |-> last]
  PROVE  \A n \in 1..last :
           \E p \in 1..Len(log) : log[p] = [client |-> c, request_number |-> n]
<1> DEFINE Place(n) == \E p \in 1..Len(log) : log[p] = [client |-> c, request_number |-> n]
           missing == {d \in 0..(last - 1) : ~Place(last - d)}
<1>1. ASSUME NEW n \in 2..last, Place(n)
      PROVE  Place(n - 1)
  <2>1. Len(log) \in Nat
    BY DEF UnreplicatedInv, TypeOK
  <2>2. PICK p \in 1..Len(log) : log[p] = [client |-> c, request_number |-> n]
    BY <1>1
  <2>3. \E q \in 1..(p - 1) : log[q] = [client |-> c, request_number |-> n - 1]
    BY <2>2 DEF UnreplicatedInv, TableInv, Abstract!InOrder
  <2> QED  BY <2>1, <2>3
<1>2. Place(last)
  OBVIOUS
<1> HIDE DEF Place
<1>3. missing = {}
  <2> SUFFICES ASSUME missing # {}  PROVE FALSE
    OBVIOUS
  <2>1. missing \in SUBSET Nat
    OBVIOUS
  <2>2. PICK d \in missing : \A x \in missing : <<x, d>> \notin OpToRel(<, Nat)
    <3> HIDE DEF missing
    <3> QED  BY <2>1, WFMin, NatLessThanWellFounded
  <2>3. \A x \in missing : ~(x < d)
    BY <2>1, <2>2, Zenon DEF OpToRel
  <2>4. d \in 1..(last - 1)
    BY <1>2
  <2>5. d - 1 \notin missing
    BY <2>3, <2>4
  <2>6. Place(last - (d - 1)) /\ last - (d - 1) \in 2..last
    BY <2>4, <2>5
  <2>7. Place(last - d)
    BY <1>1, <2>4, <2>6
  <2> QED  BY <2>7
<1>4. ASSUME NEW n \in 1..last
      PROVE  Place(n)
  <2>1. last - n \in 0..(last - 1) /\ last - (last - n) = n
    OBVIOUS
  <2> QED  BY <1>3, <2>1
<1> QED  BY <1>4 DEF Place

\* A request whose client has nothing pending is executed.
LEMMA AnsweredIsExecuted ==
  ASSUME UnreplicatedInv, NEW c \in Client, ~pending[c], request_number[c] > 0
  PROVE  \E p \in 1..Len(log) : log[p] = [client |-> c, request_number |-> request_number[c]]
<1>1. Answered(c) = request_number[c]
  BY DEF Answered
<1> QED  BY <1>1 DEF UnreplicatedInv, ReplyInv, IsFromLog

\* When a round of a test ends in which nothing was dropped and every open
\* request was sent, everything is answered and each request was executed once,
\* whatever happened in the rounds before (the tests one_op, resend_request and
\* resend_reply, for any number of clients, requests and dropped datagrams).
THEOREM CompleteRoundsAnswer == TransportSpec => []CompleteRoundAnswers
<1>1. UnreplicatedInv /\ RoundInv => CompleteRoundAnswers
  <2> SUFFICES ASSUME UnreplicatedInv, RoundInv, phase = "elapse", complete
               PROVE  /\ \A c \in Client : ~pending[c]
                      /\ \A m \in Request :
                           Cardinality({p \in 1..op_number : log[p] = m})
                             = IF m.request_number <= request_number[m.client] THEN 1 ELSE 0
    BY DEF CompleteRoundAnswers
  <2>1. \A c \in Client : ~pending[c]
    BY DEF RoundInv, OnItsWay
  <2>2. op_number = Len(log) /\ Len(log) \in Nat
    BY DEF UnreplicatedInv, TypeOK, TableInv
  <2>3. ASSUME NEW m \in Request
        PROVE  Cardinality({p \in 1..op_number : log[p] = m})
                 = IF m.request_number <= request_number[m.client] THEN 1 ELSE 0
    <3> DEFINE places == {p \in 1..op_number : log[p] = m}
    <3>1. /\ m.client \in Client
          /\ m.request_number \in 1..MaxRequest
          /\ m = [client |-> m.client, request_number |-> m.request_number]
      BY DEF Request
    <3>2. request_number[m.client] \in Nat /\ MaxRequest \in Nat
      BY <3>1, UnreplicatedAssumption DEF UnreplicatedInv, TypeOK
    <3>3. CASE m.request_number <= request_number[m.client]
      <4>1. \E p \in 1..Len(log) :
              log[p] = [client |-> m.client, request_number |-> request_number[m.client]]
        BY <2>1, <3>1, <3>2, <3>3, AnsweredIsExecuted
      <4>2. \A n \in 1..request_number[m.client] : \E p \in 1..Len(log) :
              log[p] = [client |-> m.client, request_number |-> n]
        BY <3>1, <3>2, <4>1, LogHasPredecessors
      <4>3. PICK p \in 1..Len(log) : log[p] = m
        BY <3>1, <3>2, <3>3, <4>2
      <4>4. \A q \in 1..Len(log) : log[q] = m => q = p
        BY <4>3 DEF UnreplicatedInv, TableInv, Abstract!InOrder
      <4>5. places = {p}
        BY <2>2, <4>3, <4>4
      <4> QED  BY <3>3, <4>5, FS_Singleton
    <3>4. CASE ~(m.request_number <= request_number[m.client])
      <4>1. client_table[m.client].request_number \in Nat
        BY <3>1 DEF UnreplicatedInv, TypeOK, Reply, NoReply
      <4>2. client_table[m.client].request_number <= request_number[m.client]
        BY <3>1 DEF UnreplicatedInv, IssuedInv
      <4>3. \A p \in 1..Len(log) : log[p] # m
        BY <3>1, <3>2, <3>4, <4>1, <4>2 DEF UnreplicatedInv, TableInv
      <4>4. places = {}
        BY <2>2, <4>3
      <4> QED  BY <3>4, <4>4, FS_EmptySet
    <3> QED  BY <3>3, <3>4
  <2> QED  BY <2>1, <2>3
<1>2. Spec => []UnreplicatedInv
  BY UnreplicatedInvariant
<1> QED  BY TransportImplementsUnreplicated, RoundInvariant, <1>1, <1>2, PTL

===============================================================================
