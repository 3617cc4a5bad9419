----------------------------- MODULE MCBenchClient ----------------------------
(***************************************************************************)
(* Model-checking instances of the bench client.                           *)
(***************************************************************************)
EXTENDS BenchClient

===============================================================================
