------------------------ MODULE MCWireOperationGate ------------------------
(* The instance of WireOperationGate for TLC.                              *)
EXTENDS WireOperationGate
=============================================================================
