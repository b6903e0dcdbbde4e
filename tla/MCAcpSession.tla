------------------------------ MODULE MCAcpSession ------------------------------
(* AcpSession on a small instance. *)
EXTENDS AcpSession, TLC
=============================================================================
