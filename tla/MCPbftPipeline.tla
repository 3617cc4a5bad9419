---------------------------- MODULE MCPbftPipeline ----------------------------
(***************************************************************************)
(* Model-checking instances of the threads of a PBFT replica.              *)
(***************************************************************************)
EXTENDS PbftPipeline, TLC

\* The other replicas are interchangeable, and so are the crypto threads.
Symmetry == Permutations(Replica \ {Primary, Focus}) \cup Permutations(Crypto)

===============================================================================
