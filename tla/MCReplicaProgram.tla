--------------------------- MODULE MCReplicaProgram ---------------------------
(***************************************************************************)
(* Model-checking instances of the replica program.                        *)
(***************************************************************************)
EXTENDS ReplicaProgram

CONSTANTS main, listen, shared

States == {main, listen, shared}

\* Replica::deploy of either protocol.
MainAndListen == <<main, listen>>

\* A request passes the crypto threads to be verified, and again as a signed
\* PrePrepare or reply.
PbftStages == <<listen, shared, main, shared>>

===============================================================================
