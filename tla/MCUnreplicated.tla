---------------------------- MODULE MCUnreplicated ----------------------------
(***************************************************************************)
(* Model-checking instances of the unreplicated service, on either kind of *)
(* TxChannel and RxChannel.                                                *)
(***************************************************************************)
EXTENDS UnreplicatedService, Transport

===============================================================================
