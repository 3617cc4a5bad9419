------------------------------- MODULE Transport ------------------------------
(***************************************************************************)
(* The two kinds of TxChannel and RxChannel: the same actors run on UDP    *)
(* sockets, where any datagram may be lost, repeated or late, and on the   *)
(* simulated network of the tests.                                         *)
(***************************************************************************)
EXTENDS Simulated

allVars == <<vars, simulatedVars>>

Udp == phase = "udp"

TransportInit ==
  \/ SimulatedInit
  \/ Init /\ Udp /\ NetworkIdle

OnUdp(A) == Udp /\ A /\ UNCHANGED simulatedVars

TransportNext == OnUdp(Next) \/ (~Udp /\ SimulatedNext)

\* On sockets clients and deployed states poll for ever and timers expire.  A
\* datagram that is sent again and again is delivered at some time, however many
\* are lost before.  Nobody need poll the shared state that sends the replies.
TransportSpec ==
  /\ TransportInit
  /\ [][TransportNext]_allVars
  /\ \A c \in Client :
       /\ WF_allVars(OnUdp(Invoke(c)))
       /\ WF_allVars(OnUdp(PollExpired(c)))
       /\ SF_allVars(OnUdp(PollInTime(c)))
  /\ \A m \in Request : SF_allVars(OnUdp(ListenPoll(m)))
  /\ WF_allVars(OnUdp(MainPoll))

-------------------------------------------------------------------------------

\* Some thread polls the shared state for ever: one that no state needs
\* (run_until_interrupt; localhost.rs gives a replica four threads) or, where every
\* thread has a state of its own, one that stays idle for 100 ms now and again,
\* while clients resend every 10 ms.
EffectIsPolled == WF_allVars(OnUdp(EffectPoll))

\* On sockets every request is answered in the end if the shared state is polled
\* for ever, although its datagrams and its replies may be lost any number of
\* times (the resend timer and the client table).
EveryRequestAnswered == EffectIsPolled /\ Udp => \A c \in Client : []<>~pending[c]

===============================================================================
