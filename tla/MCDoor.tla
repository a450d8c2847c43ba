--------------------------------- MODULE MCDoor ---------------------------------
(* Two leaves.  Either they are linked and something happens to them, or a    *)
(* lone leaf is sealed and cut by a marine.                                   *)
EXTENDS Door

CONSTANTS left_, right_
MCDoors == {left_, right_}
MCMaster == left_
MCMasterOnly == {left_}
MCSlaveOnly == {right_}

Linked ==
    /\ slaves = Doors \ {Master}
    /\ welder = [near |-> FALSE, inhabited |-> FALSE, auto |-> "off", target |-> FALSE, weld |-> "off"]
    /\ seal = [d \in Doors |-> 0] /\ ~area.auto
    /\ ~locked[CHOOSE d \in Doors \ {Master} : TRUE]
Alone ==
    /\ slaves = {}
    /\ \A d \in Doors : body[d] = Undamaged
    /\ \A d \in Doors \ {Master} : ~locked[d] /\ seal[d] = 0

MCInit == DoorInit /\ (Linked \/ Alone)
MCSpec == MCInit /\ [][DoorNext]_doorVars /\ DoorFairness
===============================================================================
