------------------------------- MODULE MCDirector -------------------------------
(* A table of aliens for the runs of Director: the drone, a ranger without  *)
(* a beta model, the beta drone, and a queen that the limits exclude.       *)
EXTENDS Director

MCSizeMin == <<1, 1, 1, 0>>
MCSizeMax == <<2, 1, 1, 0>>
MCBetaCvar == <<"new_drone", NoCvar, "new_drone", NoCvar>>
MCHealthCvar == <<"drone_health", "ranger_health", "drone_health", "queen_health">>
=============================================================================
