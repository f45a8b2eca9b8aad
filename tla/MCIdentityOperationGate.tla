---------------------- MODULE MCIdentityOperationGate ----------------------
(* The instance of IdentityOperationGate for TLC.                          *)
EXTENDS IdentityOperationGate
=============================================================================
