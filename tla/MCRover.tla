------------------------------ MODULE MCRover ------------------------------
(* Rover for TLC.                                                           *)
EXTENDS Rover, TLC

MCFiles == (Programs \cup {Follower}) \X {"left", "right"}

MCPayloads == {<<1, 0, 0, 0>>, <<0, 0, 0, 0>>, <<255, 255, 255, 255>>, <<>>}

(* Backing off, in sight and out of sight.                                  *)
MCDistances == {AVG_DIST_UM, MAX_DIST_UM, MAX_DIST_UM + 1}

(* Without set_gpios.sh, which Drive has beside the programs, and with pins *)
(* that always stop being driven when they are freed.                       *)
FreedIsUndriven ==
  \A p \in Pins : owner[p] # Free /\ owner'[p] = Free => level'[p] = Undriven

MCRoverSpec ==
  RoverInit /\ [][RoverNext /\ UNCHANGED line /\ FreedIsUndriven]_roverVars
=============================================================================
