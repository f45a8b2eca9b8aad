--------------------------- MODULE MCRaceLoading ---------------------------
(* Instances of RaceLoading for TLC.                                       *)
EXTENDS RaceLoading

CONSTANTS ann, bob, eve, robot
=============================================================================
