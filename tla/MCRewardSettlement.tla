------------------------ MODULE MCRewardSettlement ------------------------
(* Instances of RewardSettlement for TLC; the bounds are in the cfg files. *)
EXTENDS RewardSettlement

=============================================================================
