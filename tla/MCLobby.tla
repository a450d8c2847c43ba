-------------------------------- MODULE MCLobby --------------------------------
(* The save the runs of Lobby start from.                                   *)
EXTENDS Lobby

\* The first person had the first two marines, the second had the third.
MCLastCommander == [i \in Profiles |-> IF i <= 2 THEN "ann" ELSE IF i = 3 THEN "bob" ELSE Nobody]
MCLastSlot == [i \in Profiles |-> IF i <= 3 THEN <<2, 1, 1>>[i] ELSE 1]
\* The second and the third place are taken by different persons in turn.
MCSeats == <<{"ann"}, {"bob", "cho"}, {"cho"}>>
=============================================================================
