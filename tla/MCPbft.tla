-------------------------------- MODULE MCPbft --------------------------------
(***************************************************************************)
(* Model-checking instances of the PBFT service.  A replica set of three   *)
(* with F = 1 is the deployment of four with one replica down.             *)
(***************************************************************************)
EXTENDS PbftService, PbftInvariants, TLC

\* Replicas that nothing sets apart are interchangeable, and so are clients.
\* Sound for invariants.
Special == {Primary} \cup Late \cup Duplicates

Symmetry ==
  Permutations(Replica \ Special) \cup Permutations(Late \ ({Primary} \cup Duplicates))
  \cup Permutations(Client)

===============================================================================
