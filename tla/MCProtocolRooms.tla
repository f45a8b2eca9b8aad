--------------------------- MODULE MCProtocolRooms ---------------------------
(* Small instances of ProtocolRooms for TLC.                               *)
EXTENDS ProtocolRooms, TLC

UsersInterchangeable == Permutations(Users)
=============================================================================
