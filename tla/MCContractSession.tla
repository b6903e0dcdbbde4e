-------------------------- MODULE MCContractSession --------------------------
(* ContractSession on a small instance. *)
EXTENDS ContractSession, TLC
=============================================================================
