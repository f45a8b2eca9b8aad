------------------------- MODULE MCIdentityRegistry -------------------------
(* Small instances of IdentityRegistry for TLC.                            *)
EXTENDS IdentityRegistry, TLC

CONSTANTS s1, s2, s3

(* Every session comes from one address.                                   *)
OneAddress == [s \in Sessions |-> 1]

(* Datagrams are UdpEndpoints' affair: here none is received before a      *)
(* claim, so that the arrival clock counts the claims and the moves.       *)
ClaimsOnly == nextGen = 1 \/ epoch < nextGen

Interchangeable == Permutations(Names) \cup Permutations(Sessions)
=============================================================================
