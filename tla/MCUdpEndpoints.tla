---------------------------- MODULE MCUdpEndpoints ----------------------------
(* Small instances of UdpEndpoints for TLC.                                *)
EXTENDS UdpEndpoints

CONSTANTS s1, s2, s3

(* The last session comes from another address.                            *)
TwoAddresses == [s \in Sessions |-> IF s = s3 THEN 2 ELSE 1]

(* Two ports at the first address; the last session sends from none of     *)
(* them.                                                                   *)
TwoPorts == {[on |-> "Game", ip |-> 1, port |-> 1], [on |-> "Game", ip |-> 1, port |-> 2]}
=============================================================================
